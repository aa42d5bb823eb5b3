--------------------------- MODULE DatabaseProofs ---------------------------
(***************************************************************************)
(* Proofs about Database, for every set of keys, values and transactions   *)
(* and any number of crashes, bad writes and checkpoints.                  *)
(***************************************************************************)
EXTENDS Database, ListLemmas

(* What holds of the handle besides: nobody holds the write lock unless the *)
(* database is open, recovery does not run past the end of the log, and a   *)
(* process starts from an empty table and without transactions.             *)
HandleInv ==
    /\ handle # "open" => writer = Idle
    /\ handle = "recovering" => pos <= Len(wal)
    /\ handle = "none" => table = EmptyTable /\ \A x \in Txns : ~ txn[x].live

Inv == TypeOK /\ HandleInv /\ LogRestoresTable

LEMMA LogOfLength ==
    ASSUME NEW n \in Nat, NEW f \in [1 .. n -> Record]
    PROVE  f \in Seq(Record) /\ Len(f) = n
<1>1. f \in Seq(Record)
    BY SeqDef
<1>2. DOMAIN f = 1 .. n /\ DOMAIN f = 1 .. Len(f) /\ Len(f) \in Nat
    BY <1>1, LenProperties
<1> QED
    BY <1>1, <1>2

(* fsync changes how stable the records are, and nothing else. *)
LEMMA FlushedLog ==
    ASSUME wal \in Seq(Record), NEW d \in {"failed", "stable"}
    PROVE  /\ Flushed(d) \in Seq(Record) /\ Len(Flushed(d)) = Len(wal)
           /\ \A i \in 1 .. Len(wal) :
                 /\ Flushed(d)[i].key = wal[i].key /\ Flushed(d)[i].value = wal[i].value
                 /\ Flushed(d)[i].whole = wal[i].whole
                 /\ wal[i].disk = "stable" => Flushed(d)[i].disk = "stable"
<1>1. Len(wal) \in Nat /\ \A i \in 1 .. Len(wal) : wal[i] \in Record
    BY LenProperties, ElementOfSeq
<1> DEFINE f == Flushed(d)
<1>2. \A i \in 1 .. Len(wal) :
         /\ f[i] \in Record /\ f[i].key = wal[i].key /\ f[i].value = wal[i].value
         /\ f[i].whole = wal[i].whole /\ (wal[i].disk = "stable" => f[i].disk = "stable")
    BY <1>1 DEF Flushed, Record
<1>3. f = [i \in 1 .. Len(wal) |-> f[i]]
    BY DEF Flushed
<1> HIDE DEF f
<1>4. f \in [1 .. Len(wal) -> Record]
    BY <1>2, <1>3
<1>5. f \in Seq(Record) /\ Len(f) = Len(wal)
    BY <1>1, <1>4, LogOfLength
<1> QED
    BY <1>2, <1>5 DEF f

(* A crash of the machine leaves the first records, whole or torn. *)
LEMMA RemainingLog ==
    ASSUME wal \in Seq(Record), NEW n \in 0 .. Len(wal), NEW torn \in SUBSET Unstable
    PROVE  /\ Remains(n, torn) \in Seq(Record) /\ Len(Remains(n, torn)) = n
           /\ \A i \in 1 .. n :
                 /\ Remains(n, torn)[i].key = wal[i].key /\ Remains(n, torn)[i].value = wal[i].value
                 /\ Remains(n, torn)[i].whole <=> wal[i].whole /\ i \notin torn
                 /\ Remains(n, torn)[i].disk = "stable"
<1>1. Len(wal) \in Nat /\ \A i \in 1 .. Len(wal) : wal[i] \in Record
    BY LenProperties, ElementOfSeq
<1>2. n \in Nat /\ 1 .. n \subseteq 1 .. Len(wal)
    BY <1>1
<1> DEFINE f == Remains(n, torn)
<1>3. \A i \in 1 .. n :
         /\ f[i] \in Record /\ f[i].key = wal[i].key /\ f[i].value = wal[i].value
         /\ f[i].whole <=> wal[i].whole /\ i \notin torn
         /\ f[i].disk = "stable"
    BY <1>1, <1>2 DEF Remains, Record
<1>4. f = [i \in 1 .. n |-> f[i]]
    BY DEF Remains
<1> HIDE DEF f
<1>5. f \in [1 .. n -> Record]
    BY <1>3, <1>4
<1>6. f \in Seq(Record) /\ Len(f) = n
    BY <1>2, <1>5, LogOfLength
<1> QED
    BY <1>3, <1>6 DEF f

LEMMA TypeStep == TypeOK /\ HandleInv /\ [Next]_vars => TypeOK'
<1> SUFFICES ASSUME TypeOK, HandleInv, [Next]_vars PROVE TypeOK'
    OBVIOUS
<1> USE BoundAssumption DEF bounds, Stored
<1>0. /\ EmptyTable \in [Keys -> Entries]
      /\ EmptyTable \in [Keys -> Values \cup {None}]
      /\ NoTxn \in Txn
      /\ <<>> \in Seq(Record)
    BY EmptySeq DEF EmptyTable, Entries, NoTxn, Txn
<1>1. CASE Create \/ OpenBegin \/ OpenEnd
    BY <1>1, SMTT(30) DEF Create, OpenBegin, OpenEnd, TypeOK
<1>2. CASE RecoverRecord
  <2>1. wal[pos + 1] \in Record
      BY <1>2, ElementOfSeq DEF RecoverRecord, TypeOK
  <2>2. wal[pos + 1].value \in Entries /\ wal[pos + 1].key \in Keys
      BY <2>1 DEF Record, Entries
  <2>3. table' \in [Keys -> Entries] /\ unlogged' \in SUBSET Keys /\ pos' \in Nat
      BY <1>2, <2>2 DEF RecoverRecord, TypeOK
  <2> QED
      BY <1>2, <2>3 DEF RecoverRecord, TypeOK
<1>3. CASE RecoverCutRecord
  <2>1. wal[pos + 1] \in Record
      BY <1>3, ElementOfSeq DEF RecoverCutRecord, TypeOK
  <2>2. wal[pos + 1].key \in Keys /\ {Corrupt, None} \subseteq Entries
      BY <2>1 DEF Record, Entries
  <2>3. pos' \in Nat
      BY <1>3, LenProperties DEF RecoverCutRecord, TypeOK
  <2>4. table' \in [Keys -> Entries] /\ unlogged' \in SUBSET Keys
      BY <1>3, <2>2 DEF RecoverCutRecord, TypeOK
  <2> QED
      BY <1>3, <2>3, <2>4 DEF RecoverCutRecord, TypeOK
<1>4. CASE Checkpoint \/ Close \/ Destroy
  <2>1. wal' \in Seq(Record) /\ table' \in [Keys -> Entries]
      BY <1>0, <1>4 DEF Checkpoint, Close, Destroy, TruncateOrFail, TypeOK
  <2>2. unlogged' \in SUBSET Keys
      BY <1>4 DEF Checkpoint, Close, Destroy, InMemoryOnly, TypeOK
  <2>3. checkpoints' \in 0 .. MaxCheckpoints /\ faults' \in 0 .. MaxFaults
      BY <1>4, SMTT(30) DEF Checkpoint, Close, Destroy, TruncateOrFail, TypeOK
  <2> QED
      BY <1>4, <2>1, <2>2, <2>3 DEF Checkpoint, Close, Destroy, TypeOK
<1>5. ASSUME NEW type \in {"PUT", "DELETE"}, NEW k \in Keys, NEW v \in Values \cup {None},
             WriteLog(type, k, v)
      PROVE  TypeOK'
  <2>1. writer' \in Writer
      BY <1>5 DEF WriteLog, Writer
  <2>2. ToRecord(writer', TRUE, "dirty") \in Record /\ ToRecord(writer', FALSE, "dirty") \in Record
      BY <2>1 DEF ToRecord, Record, Writer
  <2>3. \A r \in Record : Append(wal, r) \in Seq(Record)
      BY AppendProperties DEF TypeOK
  <2>4. /\ wal' \in {wal, Append(wal, ToRecord(writer', TRUE, "dirty")),
                       Append(wal, ToRecord(writer', FALSE, "dirty"))}
        /\ faults' = faults \/ (faults < MaxFaults /\ faults' = faults + 1)
      BY <1>5 DEF WriteLog
  <2>5. wal' \in Seq(Record)
      BY <2>2, <2>3, <2>4 DEF TypeOK
  <2>6. faults' \in 0 .. MaxFaults
      BY <2>4 DEF TypeOK
  <2> QED
      BY <1>5, <2>1, <2>5, <2>6 DEF WriteLog, TypeOK
<1>6. CASE SyncLog
  <2>1. writer \in Writer
      BY <1>6 DEF SyncLog, TypeOK, Idle
  <2>2. writer' \in Writer
      BY <1>6, <2>1 DEF SyncLog, Writer
  <2>3. wal' \in Seq(Record)
      BY <1>6, FlushedLog DEF SyncLog, TypeOK
  <2>4. faults' \in 0 .. MaxFaults
      BY <1>6 DEF SyncLog, TypeOK
  <2> QED
      BY <1>6, <2>2, <2>3, <2>4 DEF SyncLog, TypeOK
<1>7. CASE Apply
  <2>1. writer \in Writer
      BY <1>7 DEF Apply, TypeOK, Idle
  <2>2. writer.key \in Keys /\ writer.value \in Entries
      BY <2>1 DEF Writer, Entries
  <2>3. unlogged' \in SUBSET Keys
      BY <1>7, <2>2 DEF Apply, TypeOK
  <2>4. table' \in [Keys -> Entries] /\ allowed' \in [Keys -> SUBSET Entries]
      BY <1>7, <2>2 DEF Apply, TypeOK
  <2> QED
      BY <1>7, <2>3, <2>4 DEF Apply, TypeOK
<1>8. ASSUME NEW k \in Keys, NEW v \in Values \cup {None}, WriteUnopened(k, v)
      PROVE  TypeOK'
  <2>1. v \in Entries
      BY DEF Entries
  <2>2. table' \in [Keys -> Entries] /\ allowed' \in [Keys -> SUBSET Entries]
      BY <1>8, <2>1 DEF WriteUnopened, TypeOK
  <2> QED
      BY <1>8, <2>2 DEF WriteUnopened, TypeOK
<1>9. ASSUME NEW x \in Txns, NEW level \in Levels, Begin(x, level)
      PROVE  TypeOK'
  <2>1. [live |-> TRUE, level |-> level, writes |-> EmptyTable] \in Txn
      BY <1>0 DEF Txn
  <2>2. [k \in Keys |-> {}] \in [Keys -> SUBSET Entries]
      OBVIOUS
  <2>3. txn' \in [Txns -> Txn] /\ reads' \in [Txns -> [Keys -> SUBSET Entries]]
      BY <1>9, <2>1, <2>2 DEF Begin, TypeOK
  <2> QED
      BY <1>9, <2>3 DEF Begin, TypeOK
<1>10. ASSUME NEW x \in Txns, NEW k \in Keys, TxnGet(x, k)
      PROVE  TypeOK'
  <2>1. table[k] \in Entries /\ reads[x] \in [Keys -> SUBSET Entries]
      BY DEF TypeOK
  <2>2. reads' = [reads EXCEPT ![x] = [reads[x] EXCEPT ![k] = @ \cup {table[k]}]]
      BY <1>10 DEF TxnGet
  <2>3. reads' \in [Txns -> [Keys -> SUBSET Entries]]
      BY <2>1, <2>2 DEF TypeOK
  <2> QED
      BY <1>10, <2>3 DEF TxnGet, TypeOK
<1>11. ASSUME NEW x \in Txns, NEW k \in Keys, NEW v \in Values \cup {None}, Buffer(x, k, v)
      PROVE  TypeOK'
  <2>1. txn[x] \in Txn
      BY DEF TypeOK
  <2>2. [txn[x] EXCEPT !.writes = [txn[x].writes EXCEPT ![k] = v]] \in Txn
      BY <2>1 DEF Txn
  <2>3. txn' = [txn EXCEPT ![x] = [txn[x] EXCEPT !.writes = [txn[x].writes EXCEPT ![k] = v]]]
      BY <1>11 DEF Buffer
  <2>4. txn' \in [Txns -> Txn]
      BY <2>2, <2>3 DEF TypeOK
  <2> QED
      BY <1>11, <2>4 DEF Buffer, TypeOK
<1>12. ASSUME NEW x \in Txns, Commit(x)
      PROVE  TypeOK'
  <2>1. txn[x].writes \in [Keys -> Entries]
      BY DEF TypeOK, Txn, Entries
  <2>2. table' \in [Keys -> Entries] /\ allowed' \in [Keys -> SUBSET Entries]
      BY <1>12, <2>1 DEF Commit, TypeOK
  <2>3. txn' \in [Txns -> Txn] /\ unlogged' \in SUBSET Keys
      BY <1>0, <1>12 DEF Commit, Written, TypeOK
  <2> QED
      BY <1>12, <2>2, <2>3 DEF Commit, TypeOK
<1>13. ASSUME NEW x \in Txns, Rollback(x)
      PROVE  TypeOK'
    BY <1>0, <1>13 DEF Rollback, TypeOK
<1>14. CASE Crash
  <2>1. wal' \in Seq(Record) /\ faults' \in 0 .. MaxFaults
    <3>1. CASE wal' = wal /\ faults' = faults
        BY <3>1 DEF TypeOK
    <3>2. ASSUME NEW n \in 0 .. Len(wal), NEW torn \in SUBSET Unstable,
                 wal' = Remains(n, torn),
                 faults' = faults \/ (faults < MaxFaults /\ faults' = faults + 1)
          PROVE  wal' \in Seq(Record) /\ faults' \in 0 .. MaxFaults
        BY <3>2, RemainingLog DEF TypeOK
    <3> QED
        BY <1>14, <3>1, <3>2 DEF Crash, LogAfterCrash
  <2>2. allowed' \in [Keys -> SUBSET Entries]
    <3>1. CASE writer = Idle
        BY <1>14, <3>1 DEF Crash, TypeOK
    <3>2. CASE writer # Idle
      <4>1. writer.value \in Entries
          BY <3>2 DEF TypeOK, Writer, Entries
      <4> QED
          BY <1>14, <3>2, <4>1 DEF Crash, TypeOK
    <3> QED
        BY <3>1, <3>2
  <2> QED
      BY <1>0, <1>14, <2>1, <2>2 DEF Crash, TypeOK
<1>15. CASE UNCHANGED vars
    BY <1>15 DEF vars, TypeOK
<1> QED
    BY <1>1, <1>2, <1>3, <1>4, <1>5, <1>6, <1>7, <1>8, <1>9, <1>10, <1>11, <1>12, <1>13,
       <1>14, <1>15 DEF Next

LEMMA HandleStep == TypeOK /\ HandleInv /\ [Next]_vars => HandleInv'
<1> SUFFICES ASSUME TypeOK, HandleInv, [Next]_vars PROVE HandleInv'
    OBVIOUS
<1> USE DEF bounds, Stored
<1>0. Len(wal) \in Nat
    BY LenProperties DEF TypeOK
<1>1. CASE Create \/ OpenBegin \/ OpenEnd
    BY <1>0, <1>1 DEF Create, OpenBegin, OpenEnd, NoCallUnderWay, HandleInv
<1>2. CASE RecoverRecord
    BY <1>0, <1>2 DEF RecoverRecord, HandleInv, TypeOK
<1>3. CASE RecoverCutRecord
    BY <1>0, <1>3 DEF RecoverCutRecord, HandleInv, TypeOK
<1>4. CASE Checkpoint \/ Close \/ Destroy
    BY <1>4 DEF Checkpoint, Close, Destroy, NoCallUnderWay, HandleInv
<1>5. ASSUME NEW type \in {"PUT", "DELETE"}, NEW k \in Keys, NEW v \in Values \cup {None},
             WriteLog(type, k, v)
      PROVE  HandleInv'
    BY <1>5 DEF WriteLog, HandleInv
<1>6. CASE SyncLog
    BY <1>6 DEF SyncLog, HandleInv, Idle
<1>7. CASE Apply
    BY <1>7 DEF Apply, HandleInv, Idle
<1>8. ASSUME NEW k \in Keys, NEW v \in Values \cup {None}, WriteUnopened(k, v)
      PROVE  HandleInv'
    BY <1>8 DEF WriteUnopened, HandleInv
<1>9. ASSUME NEW x \in Txns, NEW level \in Levels, Begin(x, level)
      PROVE  HandleInv'
    BY <1>9 DEF Begin, HandleInv
<1>10. ASSUME NEW x \in Txns, NEW k \in Keys, TxnGet(x, k)
      PROVE  HandleInv'
    BY <1>10 DEF TxnGet, HandleInv
<1>11. ASSUME NEW x \in Txns, NEW k \in Keys, NEW v \in Values \cup {None}, Buffer(x, k, v)
      PROVE  HandleInv'
    BY <1>11 DEF Buffer, HandleInv
<1>12. ASSUME NEW x \in Txns, Commit(x)
      PROVE  HandleInv'
    BY <1>12 DEF Commit, HandleInv
<1>13. ASSUME NEW x \in Txns, Rollback(x)
      PROVE  HandleInv'
    BY <1>13 DEF Rollback, HandleInv
<1>14. CASE Crash
    BY <1>14 DEF Crash, HandleInv, NoTxn
<1>15. CASE UNCHANGED vars
    BY <1>15 DEF vars, HandleInv
<1> QED
    BY <1>1, <1>2, <1>3, <1>4, <1>5, <1>6, <1>7, <1>8, <1>9, <1>10, <1>11, <1>12, <1>13,
       <1>14, <1>15 DEF Next

-----------------------------------------------------------------------------
(* A step that leaves the entry under k, the log and what counts of it      *)
(* alone keeps k restorable.                                                *)
LEMMA RestorableFrame ==
    ASSUME NEW k, Restorable(k), table'[k] = table[k], wal' = wal, Replayed' = Replayed
    PROVE  Restorable(k)'
BY DEF Restorable

LEMMA ReplayedFrame ==
    ASSUME UNCHANGED <<handle, wal, pos>>
    PROVE  Replayed' = Replayed
BY DEF Replayed, Readable

(* With nothing replayed an empty entry is the right one. *)
LEMMA RestorableEmpty ==
    ASSUME NEW k, Replayed' = {}, table'[k] = None
    PROVE  Restorable(k)'
BY DEF Restorable

(* One more record at the end of those replayed decides its own key and no  *)
(* other.                                                                   *)
LEMMA RestorableExtend ==
    ASSUME NEW k, NEW n \in Nat,
           Replayed \subseteq 1 .. n - 1,
           Replayed' = Replayed \cup {n},
           \A i \in Replayed : wal'[i] = wal[i],
           \/ wal'[n].key = k /\ table'[k] = wal'[n].value
           \/ wal'[n].key # k /\ Restorable(k) /\ table'[k] = table[k]
    PROVE  Restorable(k)'
<1>1. CASE wal'[n].key = k /\ table'[k] = wal'[n].value
  <2>1. \A j \in Replayed' : ~(j > n)
      OBVIOUS
  <2> QED
      BY <1>1, <2>1 DEF Restorable
<1>2. CASE wal'[n].key # k /\ Restorable(k) /\ table'[k] = table[k]
  <2>1. CASE (\A i \in Replayed : wal[i].key # k) /\ table[k] = None
    <3>1. \A i \in Replayed' : wal'[i].key # k
        BY <1>2, <2>1
    <3> QED
        BY <1>2, <2>1, <3>1 DEF Restorable
  <2>2. ASSUME NEW i \in Replayed, wal[i].key = k, table[k] = wal[i].value,
               \A j \in Replayed : j > i => wal[j].key # k
        PROVE  Restorable(k)'
    <3>1. i \in Replayed' /\ wal'[i].key = k /\ table'[k] = wal'[i].value
        BY <1>2, <2>2
    <3>2. \A j \in Replayed' : j > i => wal'[j].key # k
        BY <1>2, <2>2
    <3> QED
        BY <3>1, <3>2 DEF Restorable
  <2> QED
      BY <1>2, <2>1, <2>2 DEF Restorable
<1> QED
    BY <1>1, <1>2

(* An appended record counts when the log behind it is whole; a cut one     *)
(* never does.                                                              *)
LEMMA ReplayedAppend ==
    ASSUME TypeOK, handle = "open", handle' = "open", NEW r \in Record, wal' = Append(wal, r)
    PROVE  /\ Replayed \subseteq 1 .. Len(wal)
           /\ Replayed' = Replayed \/ Replayed' = Replayed \cup {Len(wal) + 1}
           /\ ~ r.whole => Replayed' = Replayed
           /\ \A i \in 1 .. Len(wal) : wal'[i] = wal[i]
           /\ wal'[Len(wal) + 1] = r
<1>1. /\ Len(wal) \in Nat
      /\ Len(wal') = Len(wal) + 1
      /\ \A i \in 1 .. Len(wal) : wal'[i] = wal[i]
      /\ wal'[Len(wal) + 1] = r
    BY AppendProperties, LenProperties DEF TypeOK
<1>2. Replayed = {i \in 1 .. Len(wal) : Readable(i)}
    BY DEF Replayed
<1>3. Replayed' = {i \in 1 .. Len(wal) + 1 : Readable(i)'}
    BY <1>1 DEF Replayed
<1>4. \A i \in 1 .. Len(wal) : Readable(i)' <=> Readable(i)
    BY <1>1 DEF Readable
<1>5. \A i \in Replayed' : wal'[i].whole
  <2> SUFFICES ASSUME NEW i \in Replayed' PROVE wal'[i].whole
      OBVIOUS
  <2>1. i \in 1 .. Len(wal) + 1 /\ \A j \in 1 .. i : wal'[j].whole
      BY <1>3 DEF Readable
  <2>2. i \in 1 .. i
      BY <1>1, <2>1
  <2> QED
      BY <2>1, <2>2
<1> DEFINE n == Len(wal) + 1
<1>6. n \in Nat /\ 1 .. n = (1 .. Len(wal)) \cup {n}
    BY <1>1
<1> HIDE DEF n
<1>7. Replayed' \subseteq Replayed \cup {n} /\ Replayed \subseteq Replayed'
    BY <1>2, <1>3, <1>4, <1>6 DEF n
<1>8. ~ r.whole => n \notin Replayed'
    BY <1>1, <1>5 DEF n
<1>9. Replayed' = Replayed \/ Replayed' = Replayed \cup {n}
    BY <1>7
<1>10. ~ r.whole => Replayed' = Replayed
    BY <1>7, <1>8
<1> QED
    BY <1>1, <1>2, <1>9, <1>10 DEF n

LEMMA LogStep == Inv /\ TypeOK' /\ HandleInv' /\ [Next]_vars => LogRestoresTable'
<1> SUFFICES ASSUME TypeOK, HandleInv, LogRestoresTable, TypeOK', HandleInv', [Next]_vars,
                    NEW k \in Keys, k \notin unlogged', k \notin InFlight'
             PROVE  Restorable(k)'
    BY DEF Inv, LogRestoresTable
<1> USE DEF bounds, Stored
<1>0. Len(wal) \in Nat /\ pos \in Nat
    BY LenProperties DEF TypeOK
<1>1. ASSUME k \notin unlogged, k \notin InFlight
      PROVE  Restorable(k)
    BY <1>1 DEF LogRestoresTable
<1>2. ASSUME k \notin unlogged, k \notin InFlight, table'[k] = table[k],
             UNCHANGED <<handle, wal, pos>>
      PROVE  Restorable(k)'
    BY <1>1, <1>2, RestorableFrame, ReplayedFrame
<1>3. CASE Create \/ OpenBegin
  <2>1. Replayed' = {}
      BY <1>3 DEF Create, OpenBegin, Replayed
  <2>2. Replayed = {} /\ Restorable(k)
      BY <1>1, <1>3 DEF Create, OpenBegin, Replayed, InFlight
  <2>3. table'[k] = None
      BY <1>3, <2>2 DEF Create, OpenBegin, Restorable
  <2> QED
      BY <2>1, <2>3, RestorableEmpty
<1>4. CASE OpenEnd
  <2>1. Replayed' = Replayed
      BY <1>0, <1>4 DEF OpenEnd, Replayed, Readable
  <2> QED
      BY <1>1, <1>4, <2>1, RestorableFrame DEF OpenEnd, InFlight
<1>5. CASE RecoverRecord
  <2> DEFINE n == pos + 1
  <2>1. /\ n \in Nat /\ Replayed \subseteq 1 .. n - 1
        /\ wal' = wal /\ writer' = writer
      BY <1>0, <1>5 DEF RecoverRecord, Replayed
  <2>a. \A i \in 1 .. Len(wal) : Readable(i)' <=> Readable(i)
      BY <2>1 DEF Readable
  <2>b. Replayed' = Replayed \cup {i \in {n} : Readable(i)}
      BY <1>0, <1>5, <2>a DEF RecoverRecord, Replayed
  <2>c. CASE ~ Readable(n)
    <3>1. k # wal[n].key /\ k \notin unlogged /\ k \notin InFlight /\ table'[k] = table[k]
        BY <1>5, <2>c DEF RecoverRecord, TypeOK, InFlight
    <3>2. Replayed' = Replayed
        BY <2>b, <2>c
    <3> QED
        BY <1>1, <2>1, <3>1, <3>2, RestorableFrame
  <2> SUFFICES ASSUME Readable(n) PROVE Restorable(k)'
      BY <2>c
  <2>2. Replayed' = Replayed \cup {n}
      BY <2>b
  <2>3. wal[n] \in Record
      BY <1>0, <1>5, ElementOfSeq DEF RecoverRecord, TypeOK
  <2>4. CASE wal[n].key = k
    <3>1. table'[k] = wal'[n].value
        BY <1>5, <2>1, <2>4 DEF RecoverRecord, TypeOK
    <3> QED
        BY <2>1, <2>2, <2>4, <3>1, RestorableExtend
  <2>5. CASE wal[n].key # k
    <3>1. table'[k] = table[k] /\ k \notin unlogged /\ k \notin InFlight
        BY <1>5, <2>5 DEF RecoverRecord, TypeOK, InFlight
    <3> QED
        BY <1>1, <2>1, <2>2, <2>5, <3>1, RestorableExtend
  <2> QED
      BY <2>4, <2>5
<1>6. CASE RecoverCutRecord
  <2>1. wal' = wal /\ writer' = writer /\ k \notin unlogged /\ table'[k] = table[k]
      BY <1>6 DEF RecoverCutRecord, TypeOK
  <2>2. Replayed = {i \in 1 .. Len(wal) : Readable(i) /\ i <= pos}
      BY <1>6 DEF RecoverCutRecord, Replayed
  <2>3. /\ Replayed' = {i \in 1 .. Len(wal) : Readable(i)' /\ (handle' = "recovering" => i <= pos')}
        /\ pos' >= pos
      BY <1>0, <1>6 DEF RecoverCutRecord, Replayed
  <2>4. \A i \in 1 .. Len(wal) : Readable(i)' <=> Readable(i)
      BY <2>1 DEF Readable
  <2>5. \A i \in 1 .. Len(wal) : i > pos => ~ Readable(i)
    <3> SUFFICES ASSUME NEW i \in 1 .. Len(wal), i > pos PROVE ~ Readable(i)
        OBVIOUS
    <3>1. pos + 1 \in 1 .. i /\ ~ wal[pos + 1].whole
        BY <1>0, <1>6 DEF RecoverCutRecord
    <3> QED
        BY <3>1 DEF Readable
  <2>6. pos' \in Nat
      BY DEF TypeOK
  <2>7. Replayed' = Replayed
      BY <1>0, <2>2, <2>3, <2>4, <2>5, <2>6
  <2> QED
      BY <1>1, <2>1, <2>7, RestorableFrame DEF InFlight
<1>7. CASE Checkpoint \/ Close
  <2>1. Replayed' = {}
      BY <1>7 DEF Checkpoint, Close, Replayed
  <2>2. table'[k] = None
      BY <1>7 DEF Checkpoint, Close, InMemoryOnly
  <2> QED
      BY <2>1, <2>2, RestorableEmpty
<1>8. CASE Destroy \/ Crash
  <2>1. Replayed' = {} /\ table'[k] = None
      BY <1>8 DEF Destroy, Crash, Replayed, EmptyTable
  <2> QED
      BY <2>1, RestorableEmpty
<1>9. ASSUME NEW type \in {"PUT", "DELETE"}, NEW kk \in Keys, NEW v \in Values \cup {None},
             WriteLog(type, kk, v)
      PROVE  Restorable(k)'
  <2> DEFINE w == [stage |-> "written", type |-> type, key |-> kk, value |-> v]
  <2>1. /\ writer = Idle /\ writer' = w
        /\ wal' \in {wal, Append(wal, ToRecord(w, TRUE, "dirty")), Append(wal, ToRecord(w, FALSE, "dirty"))}
        /\ UNCHANGED <<handle, table, pos, unlogged>>
        /\ handle = "open"
      BY <1>9 DEF WriteLog, NoCallUnderWay
  <2>2. k # kk /\ k \notin unlogged /\ k \notin InFlight
    <3>1. writer' # Idle /\ writer'.key = kk
        BY <2>1 DEF Idle
    <3> QED
        BY <2>1, <3>1 DEF InFlight
  <2>3. ASSUME NEW b \in BOOLEAN, wal' = Append(wal, ToRecord(w, b, "dirty"))
        PROVE  Restorable(k)'
    <3>1. ToRecord(w, b, "dirty") \in Record /\ ToRecord(w, b, "dirty").key = kk
        BY DEF ToRecord, Record
    <3> HIDE DEF w
    <3>2. /\ Replayed \subseteq 1 .. Len(wal)
          /\ Replayed' = Replayed \/ Replayed' = Replayed \cup {Len(wal) + 1}
          /\ \A i \in 1 .. Len(wal) : wal'[i] = wal[i]
          /\ wal'[Len(wal) + 1] = ToRecord(w, b, "dirty")
        BY <2>1, <2>3, <3>1, ReplayedAppend
    <3>3. Restorable(k) /\ table'[k] = table[k]
        BY <1>1, <2>1, <2>2
    <3>4. CASE Replayed' = Replayed
      <4>1. \A i \in Replayed : wal'[i] = wal[i]
          BY <3>2
      <4> QED
          BY <3>3, <3>4, <4>1 DEF Restorable
    <3>5. CASE Replayed' = Replayed \cup {Len(wal) + 1}
      <4>1. Len(wal) + 1 \in Nat /\ (Len(wal) + 1) - 1 = Len(wal)
          BY <1>0
      <4>2. wal'[Len(wal) + 1].key # k
          BY <2>2, <3>1, <3>2
      <4>3. \A i \in Replayed : wal'[i] = wal[i]
          BY <3>2
      <4> QED
          BY <3>2, <3>3, <3>5, <4>1, <4>2, <4>3, RestorableExtend
    <3> QED
        BY <3>2, <3>4, <3>5
  <2>4. CASE wal' = wal
      BY <1>2, <2>1, <2>2, <2>4
  <2> QED
      BY <2>1, <2>3, <2>4
<1>10. CASE SyncLog
  <2>1. InFlight' = InFlight
      BY <1>10 DEF SyncLog, InFlight, Idle, TypeOK, Writer
  <2>2. /\ Len(wal') = Len(wal)
        /\ \A i \in 1 .. Len(wal) : /\ wal'[i].key = wal[i].key /\ wal'[i].value = wal[i].value
                                    /\ wal'[i].whole = wal[i].whole
      BY <1>10, FlushedLog DEF SyncLog, TypeOK
  <2>3. Restorable(k) /\ UNCHANGED <<handle, table, pos, unlogged>>
      BY <1>1, <1>10, <2>1 DEF SyncLog
  <2>4. \A i \in 1 .. Len(wal) : Readable(i)' <=> Readable(i)
      BY <1>0, <2>2 DEF Readable
  <2>5. Replayed' = Replayed /\ Replayed \subseteq 1 .. Len(wal)
      BY <2>2, <2>3, <2>4 DEF Replayed
  <2> QED
      BY <2>2, <2>3, <2>5 DEF Restorable
<1>11. CASE Apply
  <2>1. /\ writer # Idle /\ writer \in Writer
        /\ table' = [table EXCEPT ![writer.key] = writer.value]
        /\ UNCHANGED <<handle, wal, pos>>
      BY <1>11 DEF Apply, Idle, TypeOK
  <2>2. CASE k = writer.key
    <3>1. WriterIsLogged /\ handle = "open"
        BY <1>11, <2>1, <2>2 DEF Apply, HandleInv
    <3> DEFINE n == Len(wal)
    <3>2. n \in 1 .. n
        BY <3>1, EmptySeq, LenProperties DEF WriterIsLogged, TypeOK
    <3>3. wal[n].key = k /\ wal[n].value = writer.value /\ Readable(n)
        BY <2>2, <3>1 DEF WriterIsLogged, ToRecord, Readable
    <3>4. n \in Replayed /\ \A j \in Replayed : ~(j > n)
        BY <1>0, <3>1, <3>2, <3>3 DEF Replayed
    <3>5. Replayed' = Replayed
        BY <2>1, ReplayedFrame
    <3>6. table'[k] = wal[n].value
        BY <2>1, <2>2, <3>3 DEF TypeOK
    <3> QED
        BY <2>1, <3>3, <3>4, <3>5, <3>6 DEF Restorable
  <2>3. CASE k # writer.key
    <3>1. k \notin unlogged /\ k \notin InFlight /\ table'[k] = table[k]
        BY <1>11, <2>1, <2>3 DEF Apply, InFlight, TypeOK
    <3> QED
        BY <1>2, <2>1, <3>1
  <2> QED
      BY <2>2, <2>3
<1>12. ASSUME NEW kk \in Keys, NEW v \in Values \cup {None}, WriteUnopened(kk, v)
      PROVE  Restorable(k)'
    BY <1>2, <1>12 DEF WriteUnopened, InFlight, TypeOK
<1>13. ASSUME NEW x \in Txns, Commit(x)
      PROVE  Restorable(k)'
    BY <1>2, <1>13 DEF Commit, InFlight
<1>14. ASSUME UNCHANGED <<handle, table, wal, pos, writer, unlogged>>
      PROVE  Restorable(k)'
    BY <1>2, <1>14 DEF InFlight
<1>15. CASE \E x \in Txns : \/ \E level \in Levels : Begin(x, level)
                            \/ \E kk \in Keys :
                                  TxnGet(x, kk) \/ \E v \in Values \cup {None} : Buffer(x, kk, v)
                            \/ Rollback(x)
    BY <1>14, <1>15 DEF Begin, TxnGet, Buffer, Rollback
<1>16. CASE UNCHANGED vars
    BY <1>14, <1>16 DEF vars
<1> QED
    BY <1>3, <1>4, <1>5, <1>6, <1>7, <1>8, <1>9, <1>10, <1>11, <1>12, <1>13, <1>15, <1>16
    DEF Next

-----------------------------------------------------------------------------
(* What the log on disk is worth, whatever the process does: what replaying *)
(* its records leaves under a key is what may be found there.               *)

(* The records that recovery gets to. *)
WholeIn(log) == {i \in 1 .. Len(log) : \A j \in 1 .. i : log[j].whole}

(* The last of the records S for k, if there is one, leaves a value of A. *)
Leaves(log, S, k, A) ==
    \/ (\A i \in S : log[i].key # k) /\ None \in A
    \/ \E i \in S : /\ log[i].key = k
                    /\ \A j \in S : j > i => log[j].key # k
                    /\ log[i].value \in A

(* A write under way may be found after a crash, or not. *)
Outcomes(k) == allowed[k] \cup {v \in Values \cup {None} : k \in InFlight /\ v = writer.value}

(* The records that no crash takes away, nor keeps recovery from reaching. *)
Safe(log) == {i \in 1 .. Len(log) : \A j \in 1 .. i : log[j].whole /\ log[j].disk = "stable"}

(* How many records recovery may get to after a crash: the safe ones, and   *)
(* any of those behind them.                                                *)
Cuts(log) == {n \in 0 .. Len(log) : Safe(log) \subseteq 1 .. n}

(* The log leaves an allowed value under each key it is complete for, also  *)
(* when a crash takes a part of what is not safe.                           *)
LogIsDurable ==
    \A k \in Keys \ unlogged, n \in Cuts(wal) :
        Leaves(wal, WholeIn(wal) \cap (1 .. n), k, Outcomes(k))

(* A write under way has not changed the table yet. *)
OldValueDurable == handle = "open" => \A k \in InFlight \ unlogged : Durable(k)

DurableInv == Inv /\ LogIsDurable /\ OldValueDurable

(* What a log leaves depends on the keys and the values of the records only. *)
LEMMA LeavesFrame ==
    ASSUME NEW log, NEW log2, NEW S, NEW k, NEW A, NEW B, Leaves(log, S, k, A), A \subseteq B,
           \A i \in S : log2[i].key = log[i].key /\ log2[i].value = log[i].value
    PROVE  Leaves(log2, S, k, B)
BY DEF Leaves

(* One more record at the end decides its own key and no other. *)
LEMMA LeavesExtend ==
    ASSUME NEW log, NEW log2, NEW n \in Nat, NEW S \in SUBSET (1 .. n - 1), NEW k, NEW A,
           \A i \in S : log2[i] = log[i],
           \/ log2[n].key = k /\ log2[n].value \in A
           \/ log2[n].key # k /\ Leaves(log, S, k, A)
    PROVE  Leaves(log2, S \cup {n}, k, A)
<1>1. \A j \in S : ~ (j > n)
    OBVIOUS
<1>2. CASE log2[n].key = k /\ log2[n].value \in A
    BY <1>1, <1>2 DEF Leaves
<1>3. CASE log2[n].key # k /\ Leaves(log, S, k, A)
  <2>1. CASE (\A i \in S : log[i].key # k) /\ None \in A
      BY <1>3, <2>1 DEF Leaves
  <2>2. ASSUME NEW i \in S, log[i].key = k, \A j \in S : j > i => log[j].key # k, log[i].value \in A
        PROVE  Leaves(log2, S \cup {n}, k, A)
    <3>1. \A j \in S \cup {n} : j > i => log2[j].key # k
        BY <1>3, <2>2
    <3>2. i \in S \cup {n} /\ log2[i].key = k /\ log2[i].value \in A
        BY <2>2
    <3> QED
        BY <3>1, <3>2 DEF Leaves
  <2> QED
      BY <1>3, <2>1, <2>2 DEF Leaves
<1> QED
    BY <1>2, <1>3

(* A log that grows by a record. *)
LEMMA AppendedLog ==
    ASSUME NEW log \in Seq(Record), NEW e \in Record
    PROVE  /\ Append(log, e) \in Seq(Record) /\ Len(log) \in Nat /\ Len(Append(log, e)) = Len(log) + 1
           /\ \A i \in 1 .. Len(log) : Append(log, e)[i] = log[i]
           /\ Append(log, e)[Len(log) + 1] = e
           /\ WholeIn(log) \subseteq 1 .. Len(log)
           /\ WholeIn(Append(log, e)) \ {Len(log) + 1} = WholeIn(log)
           /\ Safe(log) \subseteq Safe(Append(log, e))
<1> DEFINE log2 == Append(log, e)
           n == Len(log) + 1
<1>1. /\ log2 \in Seq(Record) /\ Len(log) \in Nat /\ Len(log2) = n
      /\ \A i \in 1 .. Len(log) : log2[i] = log[i]
      /\ log2[n] = e
    BY AppendProperties, LenProperties
<1> HIDE DEF log2
<1>2. WholeIn(log2) = {i \in 1 .. n : \A j \in 1 .. i : log2[j].whole}
    BY <1>1 DEF WholeIn
<1>3. \A i \in 1 .. Len(log) : (\A j \in 1 .. i : log2[j].whole) <=> (\A j \in 1 .. i : log[j].whole)
    BY <1>1
<1>4. 1 .. n = (1 .. Len(log)) \cup {n} /\ n \notin 1 .. Len(log)
    BY <1>1
<1> HIDE DEF n
<1>5. WholeIn(log2) \ {n} = WholeIn(log)
    BY <1>2, <1>3, <1>4 DEF WholeIn
<1>6. WholeIn(log) \subseteq 1 .. Len(log)
    BY DEF WholeIn
<1>7. Safe(log) \subseteq Safe(log2)
    BY <1>1, <1>4 DEF Safe
<1> QED
    BY <1>1, <1>5, <1>6, <1>7 DEF log2, n

(* After a crash of the machine recovery gets to a prefix of the records it *)
(* got to before, the safe ones included.                                   *)
LEMMA CrashCut ==
    ASSUME wal \in Seq(Record), NEW n \in 0 .. Len(wal), NEW torn \in SUBSET Unstable,
           n + 1 .. Len(wal) \subseteq Unstable
    PROVE  /\ \E m \in Cuts(wal) : WholeIn(Remains(n, torn)) = WholeIn(wal) \cap (1 .. m)
           /\ Safe(Remains(n, torn)) = WholeIn(Remains(n, torn))
           /\ WholeIn(Remains(n, torn)) \subseteq 1 .. n
           /\ \A i \in 1 .. n : /\ Remains(n, torn)[i].key = wal[i].key
                               /\ Remains(n, torn)[i].value = wal[i].value
<1> DEFINE log == Remains(n, torn)
<1>1. /\ Len(wal) \in Nat /\ n \in Nat /\ n <= Len(wal) /\ Len(log) = n
      /\ \A i \in 1 .. n : /\ log[i].key = wal[i].key /\ log[i].value = wal[i].value
                           /\ log[i].whole <=> wal[i].whole /\ i \notin torn
                           /\ log[i].disk = "stable"
    BY RemainingLog, LenProperties
<1> HIDE DEF log
<1>a. \A i \in 1 .. n : \A j \in 1 .. i : j \in 1 .. n /\ j \in 1 .. Len(wal)
    BY <1>1
<1>b. /\ WholeIn(log) = {i \in 1 .. n : \A j \in 1 .. i : log[j].whole}
      /\ Safe(log) = {i \in 1 .. n : \A j \in 1 .. i : log[j].whole /\ log[j].disk = "stable"}
    BY <1>1 DEF Safe, WholeIn
<1>2. Safe(log) = WholeIn(log) /\ WholeIn(log) \subseteq 1 .. n
  <2>1. \A i \in 1 .. n : \A j \in 1 .. i : log[j].disk = "stable"
      BY <1>1, <1>a
  <2> QED
      BY <1>b, <2>1
<1>3. \A i \in Unstable : \A j \in Safe(wal) : j < i
  <2> SUFFICES ASSUME NEW i \in Unstable, NEW j \in Safe(wal), ~ (j < i) PROVE FALSE
      OBVIOUS
  <2>1. i \in 1 .. Len(wal) /\ j \in 1 .. Len(wal) /\ wal[i].disk # "stable"
      BY DEF Unstable, Safe
  <2>2. i \in 1 .. j
      BY <1>1, <2>1
  <2> QED
      BY <2>1, <2>2 DEF Safe
<1>4. ASSUME NEW i \in 1 .. n
      PROVE  i \in WholeIn(log) <=> (i \in WholeIn(wal) /\ \A j \in 1 .. i : j \notin torn)
  <2>1. \A j \in 1 .. i : log[j].whole <=> wal[j].whole /\ j \notin torn
      BY <1>1, <1>a
  <2>2. i \in 1 .. Len(wal)
      BY <1>1
  <2> QED
      BY <1>b, <2>1, <2>2 DEF WholeIn
<1>5. ASSUME \A j \in 1 .. n : j \notin torn
      PROVE  \E m \in Cuts(wal) : WholeIn(log) = WholeIn(wal) \cap (1 .. m)
  <2>1. WholeIn(log) = WholeIn(wal) \cap (1 .. n)
      BY <1>1, <1>2, <1>4, <1>5
  <2>2. Safe(wal) \subseteq 1 .. n
    <3> SUFFICES ASSUME NEW j \in Safe(wal), j \notin 1 .. n PROVE FALSE
        OBVIOUS
    <3>1. j \in n + 1 .. Len(wal)
        BY <1>1 DEF Safe
    <3>2. j \in Unstable
        BY <3>1
    <3>3. j < j /\ j \in Int
        BY <1>3, <3>1, <3>2
    <3> QED
        BY <3>3
  <2>3. n \in Cuts(wal)
      BY <2>2 DEF Cuts
  <2> QED
      BY <2>1, <2>3
<1>6. ASSUME \E j \in 1 .. n : j \in torn
      PROVE  \E m \in Cuts(wal) : WholeIn(log) = WholeIn(wal) \cap (1 .. m)
  <2>1. PICK t \in 1 .. n : t \in torn /\ \A j \in 1 .. n : j \in torn => t <= j
    <3> DEFINE T == {j \in 1 .. n : j \in torn}
    <3>1. T \in SUBSET Nat /\ T # {}
        BY <1>6
    <3>2. \E t \in T : \A j \in T : t <= j
        BY <3>1, LeastNumber
    <3> QED
        BY <3>2
  <2>2. t \in Nat /\ t - 1 \in 0 .. Len(wal) /\ 1 .. t - 1 \subseteq 1 .. n
      BY <1>1
  <2>3. ASSUME NEW i \in 1 .. n PROVE (\A j \in 1 .. i : j \notin torn) <=> i < t
    <3>1. i < t => \A j \in 1 .. i : j \notin torn
        BY <1>1, <2>1
    <3>2. ~ (i < t) => t \in 1 .. i
        BY <1>1, <2>1
    <3> QED
        BY <2>1, <3>1, <3>2
  <2>4. \A i \in 1 .. n : i < t <=> i \in 1 .. t - 1
      BY <1>1, <2>2
  <2>5. WholeIn(log) = WholeIn(wal) \cap (1 .. t - 1)
      BY <1>2, <1>4, <2>2, <2>3, <2>4
  <2>6. Safe(wal) \subseteq 1 .. t - 1
    <3> SUFFICES ASSUME NEW j \in Safe(wal) PROVE j \in 1 .. t - 1
        OBVIOUS
    <3>1. j < t /\ j \in 1 .. Len(wal)
        BY <1>3, <2>1 DEF Safe
    <3> QED
        BY <1>1, <2>2, <3>1
  <2>7. t - 1 \in Cuts(wal)
      BY <2>2, <2>6 DEF Cuts
  <2> QED
      BY <2>5, <2>7
<1>7. \E m \in Cuts(wal) : WholeIn(log) = WholeIn(wal) \cap (1 .. m)
    BY <1>5, <1>6
<1> QED
    BY <1>1, <1>2, <1>7 DEF log

(* A crash that takes nothing is one of the cuts. *)
LEMMA WholeLogLeaves ==
    ASSUME TypeOK, LogIsDurable, NEW k \in Keys \ unlogged
    PROVE  Leaves(wal, WholeIn(wal), k, Outcomes(k))
<1>1. Len(wal) \in Cuts(wal)
    BY LenProperties DEF Cuts, Safe, TypeOK
<1>2. WholeIn(wal) \cap (1 .. Len(wal)) = WholeIn(wal)
    BY DEF WholeIn
<1> QED
    BY <1>1, <1>2 DEF LogIsDurable

(* In an open database the table holds what the log leaves. *)
LEMMA TableIsDurable ==
    ASSUME DurableInv, handle = "open", NEW k \in Keys \ unlogged
    PROVE  Durable(k)
<1>1. CASE k \in InFlight
    BY <1>1 DEF DurableInv, OldValueDurable
<1>2. CASE k \notin InFlight
  <2>1. Replayed = WholeIn(wal)
      BY DEF Replayed, WholeIn, Readable
  <2>2. Restorable(k)
      BY <1>2 DEF DurableInv, Inv, LogRestoresTable
  <2>3. Leaves(wal, WholeIn(wal), k, allowed[k])
    <3>1. Leaves(wal, WholeIn(wal), k, Outcomes(k))
        BY WholeLogLeaves DEF DurableInv, Inv
    <3>2. Outcomes(k) = allowed[k]
        BY <1>2 DEF Outcomes
    <3> QED
        BY <3>1, <3>2
  <2>4. WholeIn(wal) \subseteq Nat
      BY DEF WholeIn
  <2> DEFINE W == WholeIn(wal)
  <2> HIDE DEF W
  <2>5. CASE \A i \in W : wal[i].key # k
      BY <2>1, <2>2, <2>3, <2>5 DEF W, Restorable, Leaves, Durable
  <2>6. CASE \E i \in W : wal[i].key = k
    <3>1. PICK i \in W : /\ wal[i].key = k
                         /\ \A j \in W : j > i => wal[j].key # k
                         /\ table[k] = wal[i].value
        BY <2>1, <2>2, <2>6 DEF W, Restorable
    <3>2. PICK m \in W : /\ wal[m].key = k
                         /\ \A j \in W : j > m => wal[j].key # k
                         /\ wal[m].value \in allowed[k]
        BY <2>3, <2>6 DEF W, Leaves
    <3>3. i \in Nat /\ m \in Nat
        BY <2>4 DEF W
    <3>4. i = m
      <4>1. ~ (i > m) /\ ~ (m > i)
          BY <3>1, <3>2
      <4> QED
          BY <3>3, <4>1
    <3> QED
        BY <3>1, <3>2, <3>4 DEF Durable
  <2> QED
      BY <2>5, <2>6
<1> QED
    BY <1>1, <1>2

(* Steps that leave the log and the writer alone. *)
LEMMA DurableFrame ==
    ASSUME DurableInv, wal' = wal, writer' = writer,
           \A k \in Keys \ unlogged' : k \notin unlogged /\ allowed'[k] = allowed[k],
           writer = Idle \/ UNCHANGED <<handle, table>>
    PROVE  LogIsDurable' /\ OldValueDurable'
<1>1. InFlight' = InFlight /\ InFlight \subseteq Keys
    BY DEF DurableInv, Inv, TypeOK, Writer, InFlight
<1>2. \A k \in Keys \ unlogged' : Outcomes(k)' = Outcomes(k)
    BY <1>1 DEF Outcomes
<1>3. LogIsDurable'
  <2> SUFFICES ASSUME NEW k \in Keys \ unlogged', NEW n \in Cuts(wal)
               PROVE  Leaves(wal, WholeIn(wal) \cap (1 .. n), k, Outcomes(k)')
      BY DEF LogIsDurable
  <2> QED
      BY <1>2 DEF DurableInv, LogIsDurable
<1>4. OldValueDurable'
  <2>1. CASE writer = Idle
      BY <1>1, <2>1 DEF OldValueDurable, InFlight
  <2>2. CASE UNCHANGED <<handle, table>>
      BY <1>1, <2>2 DEF DurableInv, OldValueDurable, Durable
  <2> QED
      BY <2>1, <2>2
<1> QED
    BY <1>3, <1>4

(* The log is emptied. *)
LEMMA TruncateStep ==
    ASSUME DurableInv, handle = "open", wal' = <<>>, writer' = writer, allowed' = allowed,
           unlogged' = unlogged \cup InMemoryOnly, writer = Idle \/ UNCHANGED <<handle, table>>
    PROVE  LogIsDurable' /\ OldValueDurable'
<1>1. InFlight' = InFlight /\ InFlight \subseteq Keys
    BY DEF DurableInv, Inv, TypeOK, Writer, InFlight
<1>2. LogIsDurable'
  <2> SUFFICES ASSUME NEW k \in Keys \ unlogged', NEW n \in Cuts(wal')
               PROVE  Leaves(wal', WholeIn(wal') \cap (1 .. n), k, Outcomes(k)')
      BY DEF LogIsDurable
  <2>1. table[k] = None /\ k \in Keys \ unlogged
      BY DEF InMemoryOnly
  <2>2. None \in allowed[k]
      BY <2>1, TableIsDurable DEF Durable
  <2>3. None \in Outcomes(k)'
      BY <2>2 DEF Outcomes
  <2>4. WholeIn(wal') = {}
      BY DEF WholeIn
  <2> QED
      BY <2>3, <2>4 DEF Leaves
<1>3. OldValueDurable'
  <2>1. CASE writer = Idle
      BY <1>1, <2>1 DEF OldValueDurable, InFlight
  <2>2. CASE UNCHANGED <<handle, table>>
      BY <1>1, <2>2 DEF DurableInv, OldValueDurable, Durable
  <2> QED
      BY <2>1, <2>2
<1> QED
    BY <1>2, <1>3

(* A put or a delete writes its record, or fails to. *)
LEMMA WriteStep ==
    ASSUME DurableInv, NEW type \in {"PUT", "DELETE"}, NEW key \in Keys, NEW v \in Values \cup {None},
           WriteLog(type, key, v)
    PROVE  LogIsDurable' /\ OldValueDurable'
<1> DEFINE w == [stage |-> "written", type |-> type, key |-> key, value |-> v]
<1>1. /\ handle = "open" /\ writer = Idle /\ UNCHANGED <<handle, table, unlogged, allowed>>
      /\ writer' = w
      /\ wal' = wal \/ \E b \in BOOLEAN : wal' = Append(wal, ToRecord(w, b, "dirty"))
    BY DEF WriteLog, NoCallUnderWay
<1>2. writer' # Idle /\ writer'.key = key /\ writer'.value = v
    BY <1>1 DEF Idle
<1>3. InFlight' = {key} /\ InFlight = {}
    BY <1>1, <1>2 DEF InFlight
<1>4. \A k \in Keys : Outcomes(k) \subseteq Outcomes(k)' /\ (k = key => v \in Outcomes(k)')
    BY <1>1, <1>2, <1>3 DEF Outcomes
<1>5. OldValueDurable'
    BY <1>1, <1>3, TableIsDurable DEF OldValueDurable, Durable
<1>6. ASSUME NEW k \in Keys \ unlogged, NEW n \in Cuts(wal)
      PROVE  Leaves(wal, WholeIn(wal) \cap (1 .. n), k, Outcomes(k)')
  <2>1. Leaves(wal, WholeIn(wal) \cap (1 .. n), k, Outcomes(k))
      BY DEF DurableInv, LogIsDurable
  <2> QED
      BY <1>4, <2>1, LeavesFrame
<1>7. CASE wal' = wal
    BY <1>1, <1>5, <1>6, <1>7 DEF LogIsDurable
<1>8. ASSUME NEW b \in BOOLEAN, wal' = Append(wal, ToRecord(w, b, "dirty")) PROVE LogIsDurable'
  <2> DEFINE e == ToRecord(w, b, "dirty")
             n == Len(wal) + 1
             W == WholeIn(wal)
  <2>1. e \in Record /\ e.key = key /\ e.value = v
      BY DEF ToRecord, Record
  <2> HIDE DEF e, w
  <2>2. /\ wal \in Seq(Record) /\ wal' = Append(wal, e)
      BY <1>8 DEF e, DurableInv, Inv, TypeOK
  <2>3. /\ Len(wal) \in Nat /\ Len(wal') = n /\ wal'[n] = e
        /\ \A i \in 1 .. Len(wal) : wal'[i] = wal[i]
        /\ W \subseteq 1 .. Len(wal)
        /\ WholeIn(wal') \ {n} = W
        /\ Safe(wal) \subseteq Safe(wal')
      BY <2>1, <2>2, AppendedLog
  <2>4. n \in Nat /\ n - 1 = Len(wal)
      BY <2>3
  <2> HIDE DEF n
  <2> SUFFICES ASSUME NEW k \in Keys \ unlogged, NEW m \in Cuts(wal')
               PROVE  Leaves(wal', WholeIn(wal') \cap (1 .. m), k, Outcomes(k)')
      BY <1>1 DEF LogIsDurable
  <2>5. m \in 0 .. n /\ Safe(wal) \subseteq 1 .. m
      BY <2>3 DEF Cuts
  <2>6. CASE m # n
    <3>1. m \in Cuts(wal)
        BY <2>4, <2>5, <2>6 DEF Cuts
    <3>2. n \notin 1 .. m
        BY <2>4, <2>5, <2>6
    <3>3. WholeIn(wal') \cap (1 .. m) = W \cap (1 .. m)
        BY <2>3, <3>2
    <3>4. Leaves(wal, W \cap (1 .. m), k, Outcomes(k)')
        BY <1>6, <3>1
    <3>5. \A i \in W \cap (1 .. m) : wal'[i] = wal[i]
        BY <2>3
    <3>6. Leaves(wal', W \cap (1 .. m), k, Outcomes(k)')
        BY <3>4, <3>5, LeavesFrame
    <3> QED
        BY <3>3, <3>6
  <2>7. CASE m = n
    <3>1. Leaves(wal, W, k, Outcomes(k))
        BY WholeLogLeaves DEF DurableInv, Inv
    <3>2. Leaves(wal, W, k, Outcomes(k)')
        BY <1>4, <3>1, LeavesFrame
    <3>3. \A i \in W : wal'[i] = wal[i]
        BY <2>3
    <3>4. Leaves(wal', W, k, Outcomes(k)')
        BY <3>2, <3>3, LeavesFrame
    <3>5. WholeIn(wal') \cap (1 .. m) = WholeIn(wal')
        BY <2>3, <2>7 DEF WholeIn
    <3>6. CASE n \notin WholeIn(wal')
      <4>1. WholeIn(wal') = W
          BY <2>3, <3>6
      <4> QED
          BY <3>4, <3>5, <4>1
    <3>7. CASE n \in WholeIn(wal')
      <4>1. WholeIn(wal') = W \cup {n}
          BY <2>3, <3>7
      <4>2. \/ wal'[n].key = k /\ wal'[n].value \in Outcomes(k)'
            \/ wal'[n].key # k
          BY <1>4, <2>1, <2>3
      <4>3. W \in SUBSET (1 .. n - 1)
          BY <2>3, <2>4
      <4>4. Leaves(wal', W \cup {n}, k, Outcomes(k)')
          BY <2>4, <3>2, <3>3, <4>2, <4>3, LeavesExtend
      <4> QED
          BY <3>5, <4>1, <4>4
    <3> QED
        BY <3>6, <3>7
  <2> QED
      BY <2>6, <2>7
<1> QED
    BY <1>1, <1>5, <1>7, <1>8

(* It is applied and acknowledged. *)
LEMMA ApplyStep ==
    ASSUME DurableInv, Apply
    PROVE  LogIsDurable' /\ OldValueDurable'
<1> DEFINE key == writer.key
           v == writer.value
<1>1. /\ writer # Idle /\ writer \in Writer /\ wal' = wal /\ writer' = Idle
      /\ unlogged' = IF WriterIsLogged THEN unlogged \ {key} ELSE unlogged \cup {key}
      /\ allowed' = [allowed EXCEPT ![key] = {v}]
    BY DEF Apply, Idle, DurableInv, Inv, TypeOK
<1>2. /\ key \in Keys /\ wal \in Seq(Record)
      /\ allowed'[key] = {v} /\ \A k \in Keys \ {key} : allowed'[k] = allowed[k]
    BY <1>1 DEF DurableInv, Inv, TypeOK, Writer
<1>3. InFlight = {key} /\ InFlight' = {}
    BY <1>1 DEF InFlight, Idle
<1>4. \A k \in Keys : allowed'[k] \subseteq Outcomes(k)'
    BY DEF Outcomes
<1>5. ASSUME NEW k \in Keys \ unlogged', NEW m \in Cuts(wal)
      PROVE  Leaves(wal, WholeIn(wal) \cap (1 .. m), k, Outcomes(k)')
  <2>1. CASE k # key
    <3>1. Outcomes(k) \subseteq Outcomes(k)' /\ k \in Keys \ unlogged
        BY <1>1, <1>2, <1>3, <2>1 DEF Outcomes
    <3>2. Leaves(wal, WholeIn(wal) \cap (1 .. m), k, Outcomes(k))
        BY <3>1 DEF DurableInv, LogIsDurable
    <3> QED
        BY <3>1, <3>2, LeavesFrame
  <2>2. CASE k = key
    <3>1. WriterIsLogged
        BY <1>1, <2>2
    <3> DEFINE n == Len(wal)
    <3>2. n \in Nat /\ n \in 1 .. n
        BY <1>2, <3>1, EmptySeq, LenProperties DEF WriterIsLogged
    <3>3. wal[n].key = k /\ wal[n].value = v /\ n \in WholeIn(wal) /\ n \in Safe(wal)
        BY <2>2, <3>1, <3>2 DEF WriterIsLogged, ToRecord, Safe, WholeIn
    <3>4. n \in WholeIn(wal) \cap (1 .. m) /\ \A j \in WholeIn(wal) \cap (1 .. m) : ~ (j > n)
        BY <3>2, <3>3 DEF WholeIn, Cuts
    <3>5. v \in Outcomes(k)'
        BY <1>2, <1>4, <2>2
    <3> QED
        BY <3>3, <3>4, <3>5 DEF Leaves
  <2> QED
      BY <2>1, <2>2
<1> QED
    BY <1>1, <1>3, <1>5 DEF LogIsDurable, OldValueDurable

(* The process dies, and the write under way becomes one that may have been *)
(* made or not.                                                             *)
LEMMA CrashStep ==
    ASSUME DurableInv, Crash
    PROVE  LogIsDurable' /\ OldValueDurable'
<1>1. /\ handle' = "none" /\ writer' = Idle /\ unlogged' = unlogged /\ LogAfterCrash
      /\ allowed' = IF writer = Idle THEN allowed ELSE [allowed EXCEPT ![writer.key] = @ \cup {writer.value}]
      /\ wal \in Seq(Record) /\ allowed \in [Keys -> SUBSET Entries]
      /\ writer # Idle => writer.key \in Keys
    BY DEF Crash, DurableInv, Inv, TypeOK, Writer
<1>2. InFlight' = {}
    BY <1>1 DEF InFlight
<1>3. ASSUME NEW k \in Keys PROVE Outcomes(k) \subseteq Outcomes(k)'
  <2>1. CASE writer = Idle
      BY <1>1, <2>1 DEF Outcomes, InFlight
  <2>2. CASE writer # Idle
    <3>1. allowed' = [allowed EXCEPT ![writer.key] = @ \cup {writer.value}]
        BY <1>1, <2>2
    <3>2. allowed[k] \subseteq allowed'[k] /\ (k = writer.key => writer.value \in allowed'[k])
        BY <1>1, <2>2, <3>1
    <3> QED
        BY <2>2, <3>2 DEF Outcomes, InFlight
  <2> QED
      BY <2>1, <2>2
<1>4. ASSUME NEW k \in Keys \ unlogged, NEW m \in Cuts(wal')
      PROVE  Leaves(wal', WholeIn(wal') \cap (1 .. m), k, Outcomes(k)')
  <2>1. CASE wal' = wal
    <3>1. Leaves(wal, WholeIn(wal) \cap (1 .. m), k, Outcomes(k))
        BY <2>1 DEF DurableInv, LogIsDurable
    <3>2. Leaves(wal, WholeIn(wal) \cap (1 .. m), k, Outcomes(k)')
        BY <1>3, <3>1, LeavesFrame
    <3> QED
        BY <2>1, <3>2
  <2>2. ASSUME NEW n \in 0 .. Len(wal), NEW torn \in SUBSET Unstable,
               n + 1 .. Len(wal) \subseteq Unstable, wal' = Remains(n, torn)
        PROVE  Leaves(wal', WholeIn(wal') \cap (1 .. m), k, Outcomes(k)')
    <3>1. /\ \E c \in Cuts(wal) : WholeIn(wal') = WholeIn(wal) \cap (1 .. c)
          /\ Safe(wal') = WholeIn(wal') /\ WholeIn(wal') \subseteq 1 .. n
          /\ \A i \in 1 .. n : wal'[i].key = wal[i].key /\ wal'[i].value = wal[i].value
        BY <1>1, <2>2, CrashCut
    <3>2. WholeIn(wal') \cap (1 .. m) = WholeIn(wal')
        BY <3>1 DEF Cuts
    <3>3. Leaves(wal, WholeIn(wal'), k, Outcomes(k))
        BY <3>1 DEF DurableInv, LogIsDurable
    <3>4. \A i \in WholeIn(wal') : wal'[i].key = wal[i].key /\ wal'[i].value = wal[i].value
        BY <3>1
    <3>5. Leaves(wal', WholeIn(wal'), k, Outcomes(k)')
        BY <1>3, <3>3, <3>4, LeavesFrame
    <3> QED
        BY <3>2, <3>5
  <2> QED
      BY <1>1, <2>1, <2>2 DEF LogAfterCrash
<1> QED
    BY <1>1, <1>2, <1>4 DEF LogIsDurable, OldValueDurable

LEMMA DurableStep == DurableInv /\ [Next]_vars => LogIsDurable' /\ OldValueDurable'
<1> SUFFICES ASSUME DurableInv, [Next]_vars PROVE LogIsDurable' /\ OldValueDurable'
    OBVIOUS
<1>0. TypeOK /\ HandleInv
    BY DEF DurableInv, Inv
<1>1. CASE Create \/ OpenBegin \/ OpenEnd \/ RecoverRecord \/ RecoverCutRecord
  <2>1. /\ wal' = wal /\ writer' = writer /\ allowed' = allowed /\ unlogged \subseteq unlogged'
        /\ handle # "open"
      BY <1>1 DEF Create, OpenBegin, OpenEnd, RecoverRecord, RecoverCutRecord
  <2> QED
      BY <1>0, <2>1, DurableFrame DEF HandleInv
<1>2. CASE Checkpoint
    BY <1>2, TruncateStep DEF Checkpoint
<1>3. CASE Close \/ Destroy
  <2>1. /\ writer = Idle /\ writer' = writer /\ allowed' = allowed
        /\ \/ wal' = <<>> /\ handle = "open" /\ unlogged' = unlogged \cup InMemoryOnly
           \/ wal' = wal /\ unlogged \subseteq unlogged'
      BY <1>3 DEF Close, Destroy, TruncateOrFail, NoCallUnderWay
  <2> QED
      BY <2>1, TruncateStep, DurableFrame
<1>4. CASE SyncLog
  <2>1. /\ writer \in Writer /\ writer' = [writer EXCEPT !.stage = "applying"]
        /\ UNCHANGED <<handle, table, unlogged, allowed>>
      BY <1>0, <1>4 DEF SyncLog, Idle, TypeOK
  <2>2. /\ writer # Idle /\ writer' # Idle /\ writer'.key = writer.key
        /\ writer'.value = writer.value
      BY <2>1 DEF Writer, Idle
  <2>3. InFlight' = InFlight /\ \A k \in Keys : Outcomes(k)' = Outcomes(k)
      BY <2>1, <2>2 DEF InFlight, Outcomes
  <2>4. /\ Len(wal) \in Nat /\ Len(wal') = Len(wal)
        /\ \A i \in 1 .. Len(wal) : /\ wal'[i].key = wal[i].key /\ wal'[i].value = wal[i].value
                                    /\ wal'[i].whole = wal[i].whole
                                    /\ wal[i].disk = "stable" => wal'[i].disk = "stable"
      BY <1>0, <1>4, FlushedLog, LenProperties DEF SyncLog, TypeOK
  <2>5. WholeIn(wal') = WholeIn(wal) /\ WholeIn(wal) \subseteq 1 .. Len(wal)
      BY <2>4 DEF WholeIn
  <2>6. Cuts(wal') \subseteq Cuts(wal)
    <3>1. Safe(wal) \subseteq Safe(wal')
        BY <2>4 DEF Safe
    <3> QED
        BY <2>4, <3>1 DEF Cuts
  <2>7. ASSUME NEW k \in Keys \ unlogged, NEW n \in Cuts(wal')
        PROVE  Leaves(wal', WholeIn(wal') \cap (1 .. n), k, Outcomes(k)')
    <3>1. Leaves(wal, WholeIn(wal) \cap (1 .. n), k, Outcomes(k))
        BY <2>6 DEF DurableInv, LogIsDurable
    <3>2. \A i \in WholeIn(wal) \cap (1 .. n) : wal'[i].key = wal[i].key /\ wal'[i].value = wal[i].value
        BY <2>4, <2>5
    <3> QED
        BY <2>3, <2>5, <3>1, <3>2, LeavesFrame
  <2>8. LogIsDurable'
      BY <2>1, <2>7 DEF LogIsDurable
  <2> QED
      BY <2>1, <2>3, <2>8 DEF DurableInv, OldValueDurable, Durable
<1>5. ASSUME NEW k \in Keys, NEW v \in Values \cup {None}, WriteUnopened(k, v)
      PROVE  LogIsDurable' /\ OldValueDurable'
  <2>1. /\ wal' = wal /\ writer' = writer /\ writer = Idle /\ unlogged' = unlogged \cup {k}
        /\ allowed' = [allowed EXCEPT ![k] = @ \cup {v}]
      BY <1>0, <1>5 DEF WriteUnopened, HandleInv
  <2>2. \A m \in Keys \ unlogged' : m \notin unlogged /\ allowed'[m] = allowed[m]
      BY <1>0, <2>1 DEF TypeOK
  <2> QED
      BY <2>1, <2>2, DurableFrame
<1>6. ASSUME NEW x \in Txns, Commit(x)
      PROVE  LogIsDurable' /\ OldValueDurable'
  <2>1. /\ wal' = wal /\ writer' = writer /\ writer = Idle /\ unlogged' = unlogged \cup Written(x)
        /\ \A m \in Keys \ unlogged' : allowed'[m] = allowed[m]
      BY <1>6 DEF Commit, NoCallUnderWay
  <2> QED
      BY <2>1, DurableFrame
<1>7. CASE \E x \in Txns : \/ \E level \in Levels : Begin(x, level)
                           \/ \E k \in Keys :
                                 TxnGet(x, k) \/ \E v \in Values \cup {None} : Buffer(x, k, v)
                           \/ Rollback(x)
  <2>1. UNCHANGED <<handle, table, wal, writer, unlogged, allowed>>
      BY <1>7 DEF Begin, TxnGet, Buffer, Rollback
  <2> QED
      BY <2>1, DurableFrame
<1>8. CASE UNCHANGED vars
  <2>1. UNCHANGED <<handle, table, wal, writer, unlogged, allowed>>
      BY <1>8 DEF vars
  <2> QED
      BY <2>1, DurableFrame
<1> QED
    BY <1>1, <1>2, <1>3, <1>4, <1>5, <1>6, <1>7, <1>8, WriteStep, ApplyStep, CrashStep DEF Next

LEMMA InvInit == Init => Inv
<1> SUFFICES ASSUME Init PROVE Inv
    OBVIOUS
<1>1. <<>> \in Seq(Record)
    BY EmptySeq
<1>2. /\ EmptyTable \in [Keys -> Entries]
      /\ NoTxn \in Txn
      /\ [k \in Keys |-> {None}] \in [Keys -> SUBSET Entries]
      /\ [x \in Txns |-> [k \in Keys |-> {}]] \in [Txns -> [Keys -> SUBSET Entries]]
    BY DEF EmptyTable, Entries, NoTxn, Txn
<1>3. TypeOK
    BY <1>1, <1>2, BoundAssumption DEF Init, TypeOK
<1>4. HandleInv
    BY DEF Init, HandleInv, NoTxn
<1>5. LogRestoresTable
    BY DEF Init, LogRestoresTable, Restorable, Replayed, EmptyTable
<1> QED
    BY <1>3, <1>4, <1>5 DEF Inv

LEMMA InvStep == Inv /\ [Next]_vars => Inv'
BY TypeStep, HandleStep, LogStep DEF Inv

(* Every variable keeps its type. *)
THEOREM TypeCorrect == Spec => []TypeOK
<1>1. Inv => TypeOK
    BY DEF Inv
<1> QED
    BY <1>1, InvInit, InvStep, PTL DEF Spec

(* The write-ahead log is sound: whatever was not left out of it by a       *)
(* commit, a checkpoint, a bad write or a failed fsync, nor hit by the      *)
(* replay of a cut record, is exactly what database_recover restores, after *)
(* any sequence of operations, crashes and recoveries.                      *)
THEOREM LogIsWrittenAhead == Spec => []LogRestoresTable
<1>1. Inv => LogRestoresTable
    BY DEF Inv
<1> QED
    BY <1>1, InvInit, InvStep, PTL DEF Spec

(* Durability: a write that reached the disk, behind records that did, and  *)
(* that no commit, checkpoint or close took out of the log and no cut       *)
(* record's replay overwrote, reads as it was written whenever the database *)
(* is open, however many crashes of the process or of the machine came in   *)
(* between.                                                                 *)
THEOREM LoggedWritesAreDurable == Spec => []DurableIfLogged
<1>1. Init => DurableInv
  <2> SUFFICES ASSUME Init PROVE LogIsDurable /\ OldValueDurable
      BY InvInit DEF DurableInv
  <2>1. /\ wal = <<>> /\ writer = Idle /\ handle = "none" /\ allowed = [k \in Keys |-> {None}]
      BY DEF Init
  <2>2. WholeIn(wal) = {} /\ \A k \in Keys : None \in Outcomes(k)
      BY <2>1 DEF WholeIn, Outcomes
  <2> QED
      BY <2>1, <2>2 DEF LogIsDurable, OldValueDurable, Leaves
<1>2. DurableInv /\ [Next]_vars => DurableInv'
    BY InvStep, DurableStep DEF DurableInv
<1>3. DurableInv => DurableIfLogged
    BY TableIsDurable DEF DurableIfLogged
<1> QED
    BY <1>1, <1>2, <1>3, PTL DEF Spec
=============================================================================

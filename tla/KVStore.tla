------------------------------ MODULE KVStore ------------------------------
(***************************************************************************)
(* The persistent key-value store of amber:kv, src/src/kv/mod.rs: a map in *)
(* memory and a log of records in a file, replayed when the store is       *)
(* opened and rewritten by compact().                                      *)
(*                                                                         *)
(* An operation holds the lock of its store, so operations of one store do *)
(* not interleave; what interleaves with their steps is a crash of the     *)
(* process, the clock, and another store opened on the same path. A file   *)
(* is the sequence of the writes made to it: writeln! on an unbuffered     *)
(* File makes two, the record and the end of the line. The operating       *)
(* system keeps what was written when the process dies.                    *)
(***************************************************************************)
EXTENDS Integers, Sequences, FiniteSets

CONSTANTS
  Store,     \* the stores opened on one path
  Key,
  Text,      \* a value that is not a number
  Half,      \* numbers are Half below zero to Half - 1: i64 made small
  Ttl,       \* the time-to-live values asked for
  MaxTime,   \* bound on the clock
  MaxOps,    \* bound on the operations that change a store, those of a batch included
  MaxInode,  \* bound on the files compact() creates
  Ops,       \* the operations of this instance
  Faults     \* what may fail: "newline", "write", "temp", "rename"; of those that
             \* lose a record, one until a compact() has made up for it

ASSUME KVAssumption ==
  /\ Half \in Nat \ {0} /\ Ttl \subseteq Nat /\ Text \notin Int
  /\ MaxTime \in Nat /\ MaxOps \in Nat /\ MaxInode \in Nat

VARIABLES
  files,   \* the contents of every file, the unlinked ones included
  path,    \* the file the store's path names
  temp,    \* the file the temporary path names, or NoFile
  now,     \* current_time_ms
  stage,   \* what each store is doing
  todo,    \* what it has yet to write
  data,    \* KVStore.data
  wal,     \* KVStore.wal_file, or NoFile
  fd,      \* the temporary file of a running compact()
  ops,     \* operations so far
  acked,   \* history: the map all records given to append_wal so far make
  lossy    \* history: a fault has kept a record from the log, or joined two

vars == <<files, path, temp, now, stage, todo, data, wal, fd, ops, acked, lossy>>

NoFile == -1
NoExp == -1
Empty == <<>>
Number == -Half..(Half - 1)
Value == Number \cup {Text}

NL == [op |-> "nl"]
Torn == [op |-> "torn"]
Unknown == [op |-> "unknown"]
SetRec(k, v, e) == [op |-> "set", key |-> k, val |-> v, exp |-> e]
DelRec(k) == [op |-> "del", key |-> k]
ClearRec == [op |-> "clear"]

Init ==
  /\ files = [i \in 0..MaxInode |-> <<>>]
  /\ path = 0
  /\ temp = NoFile
  /\ now = 0
  /\ stage = [s \in Store |-> "closed"]
  /\ todo = [s \in Store |-> <<>>]
  /\ data = [s \in Store |-> Empty]
  /\ wal = [s \in Store |-> NoFile]
  /\ fd = [s \in Store |-> 0]
  /\ ops = 0
  /\ acked = Empty /\ lossy = FALSE

-----------------------------------------------------------------------------
(* Maps and logs *)

\* KVEntry::is_expired
IsExpired(entry, t) == entry.exp # NoExp /\ t >= entry.exp

\* What get, has, keys, values, entries and scan let a caller see of a map at t.
Live(map, t) == [k \in {k \in DOMAIN map : ~IsExpired(map[k], t)} |-> map[k]]

Put(map, k, entry) == [x \in DOMAIN map \cup {k} |-> IF x = k THEN entry ELSE map[x]]

Without(map, k) == [x \in DOMAIN map \ {k} |-> map[x]]

\* The change an operation makes to the map in memory
Apply(map, rec) ==
  CASE rec.op = "set" -> Put(map, rec.key, [val |-> rec.val, exp |-> rec.exp])
    [] rec.op = "del" -> Without(map, rec.key)
    [] rec.op = "clear" -> Empty

\* A record read back by open: a set that has expired since removes the key.
ReplayRecord(map, rec, t) ==
  IF rec.op = "set" /\ IsExpired(rec, t) THEN Without(map, rec.key) ELSE Apply(map, rec)

\* A line counts if it is one record: an empty line and a line serde_json
\* cannot parse are skipped.
ReplayLine(map, line, t) ==
  IF Len(line) = 1 /\ line[1] # Torn THEN ReplayRecord(map, line[1], t) ELSE map

ReplayStep(state, write, t) ==
  IF write = NL
  THEN [map |-> ReplayLine(state.map, state.line, t), line |-> <<>>]
  ELSE [map |-> state.map, line |-> Append(state.line, write)]

\* The map that the lines with an end make, and the line after them
Parsed(file, t) ==
  LET state[n \in 0..Len(file)] ==
        IF n = 0 THEN [map |-> Empty, line |-> <<>>] ELSE ReplayStep(state[n - 1], file[n], t)
  IN state[Len(file)]

\* The map open reads from a file; the last line needs no end.
Replay(file, t) == ReplayLine(Parsed(file, t).map, Parsed(file, t).line, t)

\* What a process that opens the path now would see
OnDisk == Live(Replay(files[path], now), now)

-----------------------------------------------------------------------------
(* Operations *)

\* writeln! makes two writes of every record.
Lines(recs) ==
  [n \in 1..(2 * Len(recs)) |-> IF n % 2 = 1 THEN recs[(n + 1) \div 2] ELSE NL]

\* A store the caller has opened and not closed starts n operations in one call.
Starts(s, op, n) ==
  /\ op \in Ops
  /\ stage[s] = "idle"
  /\ ops + n <= MaxOps
  /\ ops' = ops + n

\* The records of an operation are applied and logged one after another.
Logs(s, recs) ==
  /\ todo' = [todo EXCEPT ![s] = Lines(recs)]
  /\ stage' = [stage EXCEPT ![s] = IF recs = <<>> THEN "idle" ELSE "log"]
  /\ UNCHANGED <<files, path, temp, now, data, wal, fd, acked, lossy>>

ExpiresAt(ttl) == IF ttl = NoExp THEN NoExp ELSE now + ttl

\* open. When it returns an error (the file cannot be read or opened, or a torn line
\* is not UTF-8) the store stays closed, which is no step here.
Open(s) ==
  /\ stage[s] = "closed"
  /\ data' = [data EXCEPT ![s] = Replay(files[path], now)]
  /\ wal' = [wal EXCEPT ![s] = path]
  /\ stage' = [stage EXCEPT ![s] = "idle"]
  /\ UNCHANGED <<files, path, temp, now, todo, fd, ops, acked, lossy>>

\* get and has remove an entry they find expired.
GetExpired(s, k) ==
  /\ k \in DOMAIN data[s] /\ IsExpired(data[s][k], now)
  /\ Starts(s, "get", 1)
  /\ Logs(s, <<DelRec(k)>>)

Set(s, k, v, ttl) == Starts(s, "set", 1) /\ Logs(s, <<SetRec(k, v, ExpiresAt(ttl))>>)

\* A key that is not in the map is not logged.
Delete(s, k) ==
  /\ k \in DOMAIN data[s]
  /\ Starts(s, "delete", 1)
  /\ Logs(s, <<DelRec(k)>>)

\* i64 addition in a release build
Wrap(n) == ((n + Half) % (2 * Half)) - Half

\* incr keeps the expiry of a live entry and starts again from an expired one;
\* a value that is not a number is an error. (Numbers with a fraction, which incr
\* cuts off first, are not among the values.)
Incr(s, k, delta) ==
  LET live == Live(data[s], now)
      old == IF k \in DOMAIN live THEN live[k] ELSE [val |-> 0, exp |-> NoExp]
  IN /\ old.val # Text
     /\ Starts(s, "incr", 1)
     /\ Logs(s, <<SetRec(k, Wrap(old.val + delta), old.exp)>>)

\* The operations of a batch before the first of an unknown type
Known(batch) ==
  SubSeq(batch, 1, Cardinality({n \in DOMAIN batch : \A m \in 1..n : batch[m] # Unknown}))

\* batch applies and logs its operations in order and stops with an error at an
\* unknown one.
Batch(s, batch) ==
  /\ Starts(s, "batch", Len(batch))
  /\ Logs(s, Known(batch))

Clear(s) == Starts(s, "clear", 1) /\ Logs(s, <<ClearRec>>)

Expired(s) == {k \in DOMAIN data[s] : IsExpired(data[s][k], now)}

\* The entries of a hash map in some order
Orders(keys) ==
  {order \in [1..Cardinality(keys) -> keys] : \A k \in keys : \E n \in DOMAIN order : order[n] = k}

Dels(keys) == [n \in DOMAIN keys |-> DelRec(keys[n])]

\* prune_expired, the first step of keys, values, entries and scan
Prune(s) ==
  /\ Expired(s) # {}
  /\ Starts(s, "prune", 1)
  /\ \E keys \in Orders(Expired(s)) : Logs(s, Dels(keys))

\* Mutant of Write: clear() empties the log and not the map.
WriteKeepsCleared(s) ==
  /\ stage[s] \in {"log", "prune"} /\ todo[s] # <<>>
  /\ LET write == Head(todo[s])
     IN /\ IF write = NL
           THEN UNCHANGED <<data, acked>>
           ELSE /\ data' = [data EXCEPT ![s] = IF write = ClearRec THEN @ ELSE Apply(@, write)]
                /\ acked' = Apply(acked, write)
        /\ files' = IF wal[s] = NoFile THEN files
                    ELSE [files EXCEPT ![wal[s]] = Append(@, write)]
  /\ todo' = [todo EXCEPT ![s] = Tail(@)]
  /\ stage' = [stage EXCEPT ![s] = IF stage[s] = "log" /\ Len(todo[s]) = 1 THEN "idle" ELSE @]
  /\ UNCHANGED <<path, temp, now, wal, fd, ops, lossy>>

\* One write of an operation: a record changes the map and goes to the log, if
\* the store has one.
Write(s) ==
  /\ stage[s] \in {"log", "prune"} /\ todo[s] # <<>>
  /\ LET write == Head(todo[s])
     IN /\ IF write = NL
           THEN UNCHANGED <<data, acked>>
           ELSE /\ data' = [data EXCEPT ![s] = Apply(@, write)]
                /\ acked' = Apply(acked, write)
        /\ files' = IF wal[s] = NoFile THEN files
                    ELSE [files EXCEPT ![wal[s]] = Append(@, write)]
  /\ todo' = [todo EXCEPT ![s] = Tail(@)]
  /\ stage' = [stage EXCEPT ![s] = IF stage[s] = "log" /\ Len(todo[s]) = 1 THEN "idle" ELSE @]
  /\ UNCHANGED <<path, temp, now, wal, fd, ops, lossy>>

\* A write fails, or only a part of the record fits; append_wal ignores the
\* error, and writeln! does not write the end of the line.
WriteFails(s) ==
  /\ "write" \in Faults /\ ~lossy
  /\ stage[s] \in {"log", "prune"} /\ todo[s] # <<>> /\ Head(todo[s]) # NL
  /\ wal[s] # NoFile
  /\ data' = [data EXCEPT ![s] = Apply(@, Head(todo[s]))]
  /\ acked' = Apply(acked, Head(todo[s]))
  /\ \E written \in {<<>>, <<Torn>>} : files' = [files EXCEPT ![wal[s]] = @ \o written]
  /\ todo' = [todo EXCEPT ![s] = Tail(Tail(@))]
  /\ stage' = [stage EXCEPT ![s] = IF stage[s] = "log" /\ Len(todo[s]) = 2 THEN "idle" ELSE @]
  /\ UNCHANGED <<path, temp, now, wal, fd, ops>>
  /\ lossy' = TRUE

-----------------------------------------------------------------------------
(* compact: prune, write the map to the temporary file, rename it, open it *)

Compact(s) ==
  /\ Starts(s, "compact", 1)
  /\ \E keys \in Orders(Expired(s)) : todo' = [todo EXCEPT ![s] = Lines(Dels(keys))]
  /\ stage' = [stage EXCEPT ![s] = "prune"]
  /\ UNCHANGED <<files, path, temp, now, data, wal, fd, acked, lossy>>

\* The files no path names and no store has open
Unused == {i \in 0..MaxInode :
             i \notin {path, temp} \cup {wal[s] : s \in Store} /\ files[i] = <<>>}

\* The map as records, in an order of its keys
Dump(map, keys) == [n \in DOMAIN keys |-> SetRec(keys[n], map[keys[n]].val, map[keys[n]].exp)]

\* The temporary file is created or truncated.
OpenTemp(s) ==
  LET i == IF temp = NoFile THEN CHOOSE i \in Unused : TRUE ELSE temp
  IN /\ stage[s] = "prune" /\ todo[s] = <<>>
     /\ temp = NoFile => Unused # {}
     /\ temp' = i
     /\ files' = [files EXCEPT ![i] = <<>>]
     /\ fd' = [fd EXCEPT ![s] = i]
     /\ \E keys \in Orders(DOMAIN data[s]) :
          todo' = [todo EXCEPT ![s] = Lines(Dump(data[s], keys))]
     /\ stage' = [stage EXCEPT ![s] = "temp"]
     /\ UNCHANGED <<path, now, data, wal, ops, acked, lossy>>

\* Mutant of WriteTemp: the map is written over the log itself.
WriteTempInPlace(s) ==
  /\ stage[s] = "temp" /\ todo[s] # <<>>
  /\ files' = [files EXCEPT ![path] =
                 IF fd[s] = path THEN Append(@, Head(todo[s])) ELSE <<Head(todo[s])>>]
  /\ fd' = [fd EXCEPT ![s] = path]
  /\ todo' = [todo EXCEPT ![s] = Tail(@)]
  /\ UNCHANGED <<path, temp, now, stage, data, wal, ops, acked, lossy>>

WriteTemp(s) ==
  /\ stage[s] = "temp" /\ todo[s] # <<>>
  /\ files' = [files EXCEPT ![fd[s]] = Append(@, Head(todo[s]))]
  /\ todo' = [todo EXCEPT ![s] = Tail(@)]
  /\ UNCHANGED <<path, temp, now, stage, data, wal, fd, ops, acked, lossy>>

\* The temporary file cannot be opened or written: compact returns the error.
TempFails(s) ==
  /\ "temp" \in Faults
  /\ \/ stage[s] = "prune" /\ todo[s] = <<>>
     \/ stage[s] = "temp"
  /\ todo' = [todo EXCEPT ![s] = <<>>]
  /\ stage' = [stage EXCEPT ![s] = "idle"]
  /\ UNCHANGED <<files, path, temp, now, data, wal, fd, ops, acked, lossy>>

\* The log is closed before the temporary file takes its name; the rename fails
\* if another store's compact has renamed the file already.
Rename(s) ==
  /\ stage[s] = "temp" /\ todo[s] = <<>>
  /\ wal' = [wal EXCEPT ![s] = NoFile]
  /\ IF temp = NoFile
     THEN stage' = [stage EXCEPT ![s] = "idle"] /\ UNCHANGED <<path, temp>>
     ELSE /\ path' = temp
          /\ temp' = NoFile
          /\ stage' = [stage EXCEPT ![s] = "reopen"]
  /\ lossy' = (lossy \/ temp = NoFile)
  /\ UNCHANGED <<files, now, todo, data, fd, ops, acked>>

Reopen(s) ==
  /\ stage[s] = "reopen"
  /\ wal' = [wal EXCEPT ![s] = path]
  /\ stage' = [stage EXCEPT ![s] = "idle"]
  /\ acked' = (IF lossy THEN data[s] ELSE acked)
  /\ lossy' = FALSE
  /\ UNCHANGED <<files, path, temp, now, todo, data, fd, ops>>

\* The rename or the opening of the new log fails: the store goes on without one.
RenameFails(s) ==
  /\ "rename" \in Faults /\ ~lossy
  /\ stage[s] = "reopen" \/ (stage[s] = "temp" /\ todo[s] = <<>>)
  /\ wal' = [wal EXCEPT ![s] = NoFile]
  /\ stage' = [stage EXCEPT ![s] = "idle"]
  /\ UNCHANGED <<files, path, temp, now, todo, data, fd, ops, acked>>
  /\ lossy' = TRUE

-----------------------------------------------------------------------------

Close(s) ==
  /\ stage[s] = "idle"
  /\ stage' = [stage EXCEPT ![s] = "closed"]
  /\ data' = [data EXCEPT ![s] = Empty]
  /\ wal' = [wal EXCEPT ![s] = NoFile]
  /\ UNCHANGED <<files, path, temp, now, todo, fd, ops, acked, lossy>>

\* A record is in the log and the end of its line is not.
BetweenWrites ==
  \E s \in Store : stage[s] \in {"log", "prune"} /\ todo[s] # <<>> /\ Head(todo[s]) = NL

\* The process dies. Only with the fault "newline" does it die between the two
\* writes of a record.
Crash ==
  /\ "crash" \in Ops
  /\ \E s \in Store : stage[s] # "closed"
  /\ BetweenWrites => "newline" \in Faults /\ ~lossy
  /\ stage' = [s \in Store |-> "closed"]
  /\ todo' = [s \in Store |-> <<>>]
  /\ data' = [s \in Store |-> Empty]
  /\ wal' = [s \in Store |-> NoFile]
  /\ lossy' = (lossy \/ BetweenWrites)
  /\ UNCHANGED <<files, path, temp, now, fd, ops, acked>>

Tick ==
  /\ now < MaxTime
  /\ now' = now + 1
  /\ UNCHANGED <<files, path, temp, stage, todo, data, wal, fd, ops, acked, lossy>>

\* An operation of a batch; one that puts a value may have a time to live.
BatchOp == {SetRec(k, 0, ExpiresAt(ttl)) : k \in Key, ttl \in Ttl \cup {NoExp}}
           \cup {DelRec(k) : k \in Key} \cup {Unknown}

Operation(s) ==
  \/ Open(s) \/ Clear(s) \/ Prune(s) \/ Compact(s) \/ Close(s)
  \/ \E k \in Key : GetExpired(s, k) \/ Delete(s, k) \/ \E delta \in {-1, 1} : Incr(s, k, delta)
  \/ \E k \in Key, v \in {0, Text}, ttl \in Ttl \cup {NoExp} : Set(s, k, v, ttl)
  \/ \E a, b \in BatchOp : Batch(s, <<a, b>>)

Step(s) ==
  \/ Write(s) \/ WriteFails(s) \/ OpenTemp(s) \/ WriteTemp(s) \/ TempFails(s)
  \/ Rename(s) \/ Reopen(s) \/ RenameFails(s)

Next == Tick \/ Crash \/ \E s \in Store : Operation(s) \/ Step(s)

Spec == Init /\ [][Next]_vars
-----------------------------------------------------------------------------
(* Properties *)

Entry == [val : Value, exp : Nat \cup {NoExp}]

Record == {NL, Torn, ClearRec} \cup {DelRec(k) : k \in Key}
          \cup [op : {"set"}, key : Key, val : Value, exp : Nat \cup {NoExp}]

IsMap(map) ==
  IsFiniteSet(DOMAIN map) /\ DOMAIN map \subseteq Key /\ \A k \in DOMAIN map : map[k] \in Entry

\* Every variable keeps its type, and a store that is closed holds neither
\* entries nor a file.
TypeOK ==
  /\ files \in [0..MaxInode -> Seq(Record)]
  /\ path \in 0..MaxInode /\ temp \in 0..MaxInode \cup {NoFile}
  /\ now \in 0..MaxTime
  /\ stage \in [Store -> {"closed", "idle", "log", "prune", "temp", "reopen"}]
  /\ todo \in [Store -> Seq(Record \ {Torn})]
  /\ DOMAIN data = Store /\ \A s \in Store : IsMap(data[s])
  /\ wal \in [Store -> 0..MaxInode \cup {NoFile}] /\ fd \in [Store -> 0..MaxInode]
  /\ \A s \in Store : stage[s] = "closed" => data[s] = Empty /\ wal[s] = NoFile
  /\ ops \in 0..MaxOps /\ IsMap(acked) /\ lossy \in BOOLEAN

\* The log "guarantees crash consistency and no loss of data": opening the path
\* at any moment would give exactly the live entries the records so far have
\* made, after any number of crashes, restarts, expiries and compactions.
LogIsDurable == OnDisk = Live(acked, now)

\* It holds in the middle of a compact() too, as long as no fault has kept a
\* record from the log or joined two of them in one line; and a compact() that
\* succeeds makes it hold again, whatever torn lines, failed writes, failed
\* compactions and crashes came before.
AckedIsDurable == ~lossy => LogIsDurable

\* What an open store shows its caller is what its operations have made,
\* whether it has been open all the time or has just replayed its log: no
\* deleted or expired entry comes back.
ReadsLatest ==
  \A s \in Store : stage[s] = "idle" /\ ~lossy => Live(data[s], now) = Live(acked, now)
=============================================================================

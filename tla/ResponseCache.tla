--------------------------- MODULE ResponseCache ---------------------------
(***************************************************************************)
(* The response cache of zaphyl-core (crates/zaphyl-core/src/cache.rs):    *)
(* an in-memory map behind a mutex, backed by an optional directory with   *)
(* one file per entry.  Worker threads call lookup() and put() at the same *)
(* time.  The mutex covers one access of the map only, and nothing covers  *)
(* the directory, so each critical section and each system call of the two *)
(* operations is an action of its own.                                     *)
(*                                                                         *)
(* A response is identified by the key it was stored for and by the number *)
(* of the put() that stored it; its status, headers and body are left out. *)
(***************************************************************************)
EXTENDS Naturals, FiniteSets

CONSTANTS
    Keys,            \* cache keys (host, path and query, accepted codings)
    Threads,         \* threads of the HTTP/1, HTTP/2 and HTTP/3 listeners
    Paths,           \* names of the entry files in the cache directory
    HashOf,          \* HashOf[k]: the file name DefaultHasher gives key k
    MaxEntries,      \* max_entries of the configuration
    DiskEnabled,     \* with_disk() or new()
    TicksPerSecond,  \* clock ticks in a second, the unit expiries have on disk
    Ttls,            \* lifetimes, in ticks, that callers of put() ask for
    MaxTime,         \* bound: last clock reading
    MaxPuts          \* bound: number of put() calls

ASSUME CacheConstants ==
    /\ HashOf \in [Keys -> Paths]
    /\ MaxEntries \in Nat \ {0}
    /\ DiskEnabled \in BOOLEAN
    /\ TicksPerSecond \in Nat \ {0}
    /\ Ttls \subseteq Nat
    /\ MaxTime \in Nat
    /\ MaxPuts \in Nat
    /\ Keys # {}
    /\ IsFiniteSet(Keys)

VARIABLES
    memory,    \* entries: the entry held for each key, or NoEntry
    disk,      \* the entry file under each name, or NoFile
    tmp,       \* the temporary file under each name, or NoFile
    clock,     \* SystemTime::now()
    granted,   \* history: the entries put() was called with
    pc,        \* where each thread is inside lookup() or put()
    key,       \* the key argument of the thread's call
    held,      \* the response argument of put(), or what lookup() read on disk
    asked,     \* the `now` argument of lookup()
    victim,    \* the file evict() chose, or NoPath
    handle,    \* where the temporary file the thread has open is linked now
    answer,    \* what the thread's last lookup() returned
    crowded,   \* history: how often evict() listed the directory while another
               \* put() was between its own listing and its rename
    shared     \* history: the names whose temporary file one put() opened while
               \* another one was writing or about to rename it

history == <<crowded, shared>>

vars == <<memory, disk, tmp, clock, granted,
          pc, key, held, asked, victim, handle, answer, history>>

NoEntry == [none |-> "entry"]
NoFile  == [none |-> "file"]
NoPath  == [none |-> "path"]
Torn    == [none |-> "whole"]

Entry == [key : Keys, version : Nat, expiry : Nat]

\* A file holds an encoded entry, or fewer bytes than decode() needs.
File == [content : Entry \cup {Torn}, mtime : Nat]

Answer == [kind : {"none", "miss", "fresh", "stale"},
           entry : Entry \cup {NoEntry}, asked : Nat]

Locations == {"idle", "map", "read", "refill",
              "evict", "remove", "open", "write", "rename", "insert"}

NoAnswer == [kind |-> "none", entry |-> NoEntry, asked |-> 0]

TypeOK ==
    /\ memory \in [Keys -> Entry \cup {NoEntry}]
    /\ disk \in [Paths -> File \cup {NoFile}]
    /\ tmp \in [Paths -> File \cup {NoFile}]
    /\ clock \in Nat
    /\ granted \subseteq Entry
    /\ pc \in [Threads -> Locations]
    /\ key \in [Threads -> Keys]
    /\ held \in [Threads -> Entry \cup {NoEntry}]
    /\ asked \in [Threads -> Nat]
    /\ victim \in [Threads -> Paths \cup {NoPath}]
    /\ handle \in [Threads -> {"closed", "tmp", "disk", "gone"}]
    /\ answer \in [Threads -> Answer]
    /\ crowded \in Nat
    /\ shared \subseteq Paths

Init ==
    /\ memory = [k \in Keys |-> NoEntry]
    /\ disk = [p \in Paths |-> NoFile]
    /\ tmp = [p \in Paths |-> NoFile]
    /\ clock = 0
    /\ granted = {}
    /\ pc = [t \in Threads |-> "idle"]
    /\ key \in [Threads -> {CHOOSE k \in Keys : TRUE}]
    /\ held = [t \in Threads |-> NoEntry]
    /\ asked = [t \in Threads |-> 0]
    /\ victim = [t \in Threads |-> NoPath]
    /\ handle = [t \in Threads |-> "closed"]
    /\ answer = [t \in Threads |-> NoAnswer]
    /\ crowded = 0
    /\ shared = {}

-----------------------------------------------------------------------------
(* The in-memory map.                                                      *)

Cached(m) == {k \in Keys : m[k] # NoEntry}

\* The keys min_by_key may return: a HashMap has no order among equal expiries.
SoonestToExpire(m) ==
    {k \in Cached(m) : \A j \in Cached(m) : m[k].expiry <= m[j].expiry}

\* Mutant of InsertMemory: the bound compared with `>`.
InsertMemoryOneTooMany(m, k, e) ==
    IF Cardinality(Cached(m)) > MaxEntries /\ k \notin Cached(m)
    THEN {[m EXCEPT ![old] = NoEntry, ![k] = e] : old \in SoonestToExpire(m)}
    ELSE {[m EXCEPT ![k] = e]}

\* The maps insert_memory() may leave.
InsertMemory(m, k, e) ==
    IF Cardinality(Cached(m)) >= MaxEntries /\ k \notin Cached(m)
    THEN {[m EXCEPT ![old] = NoEntry, ![k] = e] : old \in SoonestToExpire(m)}
    ELSE {[m EXCEPT ![k] = e]}

\* Mutant of LookupAnswer: an entry is still fresh at its expiry.
LookupAnswerAtExpiry(e, now) ==
    [kind |-> IF e.expiry >= now THEN "fresh" ELSE "stale",
     entry |-> e, asked |-> now]

\* Mutant of LookupAnswer: expiries are compared in whole seconds.
LookupAnswerInSeconds(e, now) ==
    [kind |-> IF e.expiry \div TicksPerSecond > now \div TicksPerSecond
              THEN "fresh" ELSE "stale",
     entry |-> e, asked |-> now]

\* What lookup() returns for entry e when called with time `now`.
LookupAnswer(e, now) ==
    [kind |-> IF e.expiry > now THEN "fresh" ELSE "stale",
     entry |-> e, asked |-> now]

MissAnswer(now) == [kind |-> "miss", entry |-> NoEntry, asked |-> now]

-----------------------------------------------------------------------------
(* The entry files.                                                        *)

\* Mutant of Encode: one second is taken off to be on the safe side.
EncodeEarlier(e) == [e EXCEPT !.expiry = @ - TicksPerSecond]

\* encode() keeps whole seconds of the expiry only.
Encode(e) == [e EXCEPT !.expiry = @ - (@ % TicksPerSecond)]

\* Mutant of Decodes: the stored key is not compared.
DecodesAnyKey(f, k) ==
    /\ f # NoFile
    /\ f.content # Torn

\* decode() and the comparison of the stored key in DiskStore::get().
Decodes(f, k) ==
    /\ f # NoFile
    /\ f.content # Torn
    /\ f.content.key = k

EntryFiles == {p \in Paths : disk[p] # NoFile}

\* The files that may come first when evict() sorts by modification time.
OldestFiles ==
    {p \in EntryFiles : \A q \in EntryFiles : disk[p].mtime <= disk[q].mtime}

\* Open handles when the file linked under p, if any, loses that name.
Unlinked(h, p) ==
    [t \in Threads |-> IF h[t] = "disk" /\ HashOf[key[t]] = p
                       THEN "gone" ELSE h[t]]

-----------------------------------------------------------------------------
(* lookup()                                                                *)

BeginLookup(t, k) ==
    /\ pc[t] = "idle"
    /\ pc' = [pc EXCEPT ![t] = "map"]
    /\ key' = [key EXCEPT ![t] = k]
    /\ asked' = [asked EXCEPT ![t] = clock]
    /\ answer' = [answer EXCEPT ![t] = NoAnswer]
    /\ UNCHANGED <<memory, disk, tmp, clock, granted, held, victim, handle, history>>

\* The first critical section: a hit in the map, or the directory next, where
\* there is no file if the cache has no directory.
LookupMap(t) ==
    /\ pc[t] = "map"
    /\ \/ /\ memory[key[t]] # NoEntry
          /\ answer' = [answer EXCEPT ![t] = LookupAnswer(memory[key[t]], asked[t])]
          /\ pc' = [pc EXCEPT ![t] = "idle"]
       \/ /\ memory[key[t]] = NoEntry
          /\ pc' = [pc EXCEPT ![t] = "read"]
          /\ UNCHANGED answer
    /\ UNCHANGED <<memory, disk, tmp, clock, granted, key, held, asked,
                   victim, handle, history>>

\* DiskStore::get(): no lock is held.
ReadFile(t) ==
    LET f == disk[HashOf[key[t]]] IN
    /\ pc[t] = "read"
    /\ \/ /\ Decodes(f, key[t])
          /\ held' = [held EXCEPT ![t] = f.content]
          /\ pc' = [pc EXCEPT ![t] = "refill"]
          /\ UNCHANGED answer
       \/ /\ ~Decodes(f, key[t])
          /\ answer' = [answer EXCEPT ![t] = MissAnswer(asked[t])]
          /\ pc' = [pc EXCEPT ![t] = "idle"]
          /\ UNCHANGED held
    /\ UNCHANGED <<memory, disk, tmp, clock, granted, key, asked, victim, handle, history>>

\* The second critical section: what was read is inserted, whatever the map
\* holds by now.
Refill(t) ==
    /\ pc[t] = "refill"
    /\ memory' \in InsertMemory(memory, key[t], held[t])
    /\ answer' = [answer EXCEPT ![t] = LookupAnswer(held[t], asked[t])]
    /\ held' = [held EXCEPT ![t] = NoEntry]
    /\ pc' = [pc EXCEPT ![t] = "idle"]
    /\ UNCHANGED <<disk, tmp, clock, granted, key, asked, victim, handle, history>>

-----------------------------------------------------------------------------
(* put()                                                                   *)

BeginPut(t, k, ttl) ==
    LET e == [key |-> k, version |-> Cardinality(granted) + 1,
              expiry |-> clock + ttl] IN
    /\ pc[t] = "idle"
    /\ Cardinality(granted) < MaxPuts
    /\ granted' = granted \cup {e}
    /\ key' = [key EXCEPT ![t] = k]
    /\ held' = [held EXCEPT ![t] = e]
    /\ pc' = [pc EXCEPT ![t] = IF DiskEnabled THEN "evict" ELSE "insert"]
    /\ answer' = [answer EXCEPT ![t] = NoAnswer]
    /\ UNCHANGED <<memory, disk, tmp, clock, asked, victim, handle, history>>

\* The threads between the listing of evict() and the end of DiskStore::put().
AtDirectory == {t \in Threads : pc[t] \in {"remove", "open", "write", "rename"}}

\* Mutant of EvictScan: the bound compared with `>`.
EvictScanOneTooMany(t) ==
    /\ pc[t] = "evict"
    /\ \/ /\ Cardinality(EntryFiles) > MaxEntries
          /\ \E p \in OldestFiles : victim' = [victim EXCEPT ![t] = p]
          /\ pc' = [pc EXCEPT ![t] = "remove"]
       \/ /\ Cardinality(EntryFiles) <= MaxEntries
          /\ pc' = [pc EXCEPT ![t] = "open"]
          /\ UNCHANGED victim
    /\ crowded' = IF AtDirectory = {} THEN crowded ELSE crowded + 1
    /\ UNCHANGED <<memory, disk, tmp, clock, granted, key, held, asked,
                   handle, answer, shared>>

\* evict(): list the directory; temporary files are skipped.
EvictScan(t) ==
    /\ pc[t] = "evict"
    /\ \/ /\ Cardinality(EntryFiles) >= MaxEntries
          /\ \E p \in OldestFiles : victim' = [victim EXCEPT ![t] = p]
          /\ pc' = [pc EXCEPT ![t] = "remove"]
       \/ /\ Cardinality(EntryFiles) < MaxEntries
          /\ pc' = [pc EXCEPT ![t] = "open"]
          /\ UNCHANGED victim
    /\ crowded' = IF AtDirectory = {} THEN crowded ELSE crowded + 1
    /\ UNCHANGED <<memory, disk, tmp, clock, granted, key, held, asked,
                   handle, answer, shared>>

\* evict(): remove_file(), its error ignored when the file is gone already.
EvictRemove(t) ==
    /\ pc[t] = "remove"
    /\ disk' = [disk EXCEPT ![victim[t]] = NoFile]
    /\ handle' = Unlinked(handle, victim[t])
    /\ victim' = [victim EXCEPT ![t] = NoPath]
    /\ pc' = [pc EXCEPT ![t] = "open"]
    /\ UNCHANGED <<memory, tmp, clock, granted, key, held, asked, answer, history>>

\* The threads that write the temporary file under a name or are about to rename it.
Writers(p) == {t \in Threads : pc[t] \in {"write", "rename"} /\ HashOf[key[t]] = p}

\* fs::write() creates the temporary file, or truncates the one another put()
\* of a key with this hash left or is still writing.
OpenTmp(t) ==
    /\ pc[t] = "open"
    /\ tmp' = [tmp EXCEPT ![HashOf[key[t]]] = [content |-> Torn, mtime |-> clock]]
    /\ handle' = [handle EXCEPT ![t] = "tmp"]
    /\ pc' = [pc EXCEPT ![t] = "write"]
    /\ shared' = IF Writers(HashOf[key[t]]) = {} THEN shared
                 ELSE shared \cup {HashOf[key[t]]}
    /\ UNCHANGED <<memory, disk, clock, granted, key, held, asked, victim, answer,
                   crowded>>

\* fs::write() writes through its handle, under whatever name the file has now.
WriteTmp(t) ==
    LET p == HashOf[key[t]]
        f == [content |-> Encode(held[t]), mtime |-> clock] IN
    /\ pc[t] = "write"
    /\ tmp' = IF handle[t] = "tmp" THEN [tmp EXCEPT ![p] = f] ELSE tmp
    /\ disk' = IF handle[t] = "disk" THEN [disk EXCEPT ![p] = f] ELSE disk
    /\ handle' = [handle EXCEPT ![t] = "closed"]
    /\ pc' = [pc EXCEPT ![t] = "rename"]
    /\ UNCHANGED <<memory, clock, granted, key, held, asked, victim, answer, history>>

\* Mutant of WriteFails: the result of fs::write() is not looked at.
WriteFailsUnnoticed(t) ==
    /\ pc[t] = "write"
    /\ handle' = [handle EXCEPT ![t] = "closed"]
    /\ pc' = [pc EXCEPT ![t] = "rename"]
    /\ UNCHANGED <<memory, disk, tmp, clock, granted, key, held, asked,
                   victim, answer, history>>

\* fs::write() fails (no space, no permission): no rename, memory only.
WriteFails(t) ==
    /\ pc[t] \in {"open", "write"}
    /\ handle' = [handle EXCEPT ![t] = "closed"]
    /\ pc' = [pc EXCEPT ![t] = "insert"]
    /\ UNCHANGED <<memory, disk, tmp, clock, granted, key, held, asked,
                   victim, answer, history>>

\* fs::rename(), its error ignored when another put() renamed the file first.
\* Handles that are open on either file follow it.
RenameTmp(t) ==
    LET p == HashOf[key[t]] IN
    /\ pc[t] = "rename"
    /\ \/ /\ tmp[p] # NoFile
          /\ disk' = [disk EXCEPT ![p] = tmp[p]]
          /\ tmp' = [tmp EXCEPT ![p] = NoFile]
          /\ handle' = [u \in Threads |->
                          IF handle[u] = "tmp" /\ HashOf[key[u]] = p
                          THEN "disk" ELSE Unlinked(handle, p)[u]]
       \/ /\ tmp[p] = NoFile
          /\ UNCHANGED <<disk, tmp, handle>>
    /\ pc' = [pc EXCEPT ![t] = "insert"]
    /\ UNCHANGED <<memory, clock, granted, key, held, asked, victim, answer, history>>

PutMap(t) ==
    /\ pc[t] = "insert"
    /\ memory' \in InsertMemory(memory, key[t], held[t])
    /\ held' = [held EXCEPT ![t] = NoEntry]
    /\ pc' = [pc EXCEPT ![t] = "idle"]
    /\ UNCHANGED <<disk, tmp, clock, granted, key, asked, victim, handle, answer, history>>

-----------------------------------------------------------------------------
(* The environment.                                                        *)

Tick ==
    /\ clock < MaxTime
    /\ clock' = clock + 1
    /\ UNCHANGED <<memory, disk, tmp, granted, pc, key, held, asked,
                   victim, handle, answer, history>>

\* The process dies, at any point, and is started again on the same directory.
Restart ==
    /\ memory' = [k \in Keys |-> NoEntry]
    /\ pc' = [t \in Threads |-> "idle"]
    /\ held' = [t \in Threads |-> NoEntry]
    /\ victim' = [t \in Threads |-> NoPath]
    /\ handle' = [t \in Threads |-> "closed"]
    /\ answer' = [t \in Threads |-> NoAnswer]
    /\ UNCHANGED <<disk, tmp, clock, granted, key, asked, history>>

ThreadStep(t) ==
    \/ LookupMap(t)
    \/ ReadFile(t)
    \/ Refill(t)
    \/ EvictScan(t)
    \/ EvictRemove(t)
    \/ OpenTmp(t)
    \/ WriteTmp(t)
    \/ WriteFails(t)
    \/ RenameTmp(t)
    \/ PutMap(t)

Next ==
    \/ \E t \in Threads :
          \/ \E k \in Keys : BeginLookup(t, k)
          \/ \E k \in Keys, ttl \in Ttls : BeginPut(t, k, ttl)
          \/ ThreadStep(t)
    \/ Tick
    \/ Restart

Spec == Init /\ [][Next]_vars

-----------------------------------------------------------------------------
(* Properties.                                                             *)

\* The map of cache.rs never holds more than max_entries entries, although
\* lookup() inserts too and many threads insert.
MemoryBounded == Cardinality(Cached(memory)) <= MaxEntries

\* e is the response of one of the put() calls in G, and no tier made it live
\* longer than that call asked for.
GrantedBy(G, e) ==
    \E g \in G : /\ g.key = e.key
                 /\ g.version = e.version
                 /\ e.expiry <= g.expiry

Genuine(e) == GrantedBy(granted, e)

\* Every entry, in the map, in a file or in the hands of a thread, is genuine,
\* and what the map holds for a key was stored for that key: two keys that
\* hash to one file name never get each other's response (DiskStore::get).
EntriesGenuine ==
    /\ \A k \in Keys : memory[k] # NoEntry =>
          Genuine(memory[k]) /\ memory[k].key = k
    /\ \A p \in Paths : \A f \in {disk[p], tmp[p]} :
          f # NoFile /\ f.content # Torn =>
             Genuine(f.content) /\ HashOf[f.content.key] = p
    /\ \A t \in Threads : held[t] # NoEntry =>
          Genuine(held[t]) /\ held[t].key = key[t]

\* What lookup() returns was stored for the key that was asked for, and it is
\* called fresh only if the put() that stored it granted it that long: an older
\* entry that a refill wrote over a newer one is still within its own lifetime.
LookupHonest ==
    \A t \in Threads :
       LET a == answer[t] IN
       a.kind \in {"fresh", "stale"} =>
          /\ \E g \in granted : /\ g.key = key[t]
                                /\ g.version = a.entry.version
                                /\ a.kind = "fresh" => g.expiry > a.asked
          /\ a.asked <= clock

\* The directory never holds more than max_entries entry files (cache.rs: "A bounded,
\* thread-safe response cache").
DiskBounded == Cardinality(EntryFiles) <= MaxEntries

\* With any number of threads at evict() and the rename that no lock holds together,
\* the directory outgrows max_entries by no more files than there were puts that
\* listed it while another one was at work.
OverrunCounted == Cardinality(EntryFiles) <= MaxEntries + crowded

\* Failing writes, temporary files that were left behind and deaths of the process
\* put no half-written file in the place of an entry: only two puts that had one
\* temporary file between them do, which every put() of a name uses.
TornOnlyIfShared ==
    \A p \in EntryFiles : disk[p].content = Torn => p \in shared
=============================================================================

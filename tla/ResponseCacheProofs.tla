------------------------ MODULE ResponseCacheProofs ------------------------
(***************************************************************************)
(* Proofs about ResponseCache for every set of threads, keys, file names,  *)
(* lifetimes, and every bound: the map stays within max_entries, and what  *)
(* lookup() calls fresh was stored for the key that was asked for and is   *)
(* within the lifetime its put() granted, whatever the threads do to each  *)
(* other's files and wherever the process dies.  Last, that it implements  *)
(* CacheContract.                                                          *)
(***************************************************************************)
EXTENDS CacheRefinement, FiniteSetTheorems, TLAPS

\* What holds of a call in progress: what the properties need to be inductive.
CallState ==
    /\ IsFiniteSet(granted)
    /\ \A t \in Threads :
          /\ asked[t] <= clock
          /\ pc[t] \in Locations \ {"idle", "map", "read"} => held[t] \in Entry
          /\ pc[t] \in {"idle", "map", "read"} => held[t] = NoEntry
          /\ pc[t] = "remove" => victim[t] \in Paths

-----------------------------------------------------------------------------
(* Lemmas about the operators.                                             *)

\* The absence of an entry is no entry.
LEMMA NoEntryIsNone == NoEntry \notin Entry
<1>1. DOMAIN NoEntry = {"none"}
  BY DEF NoEntry
<1>2. \A e \in Entry : DOMAIN e = {"key", "version", "expiry"}
  BY DEF Entry
<1>. QED  BY <1>1, <1>2

\* encode() keeps the key and the response, and never extends the lifetime.
LEMMA EncodeShortens ==
    ASSUME NEW e \in Entry
    PROVE  /\ Encode(e) \in Entry
           /\ Encode(e).key = e.key
           /\ Encode(e).version = e.version
           /\ Encode(e).expiry <= e.expiry
<1>1. e.expiry \in Nat /\ TicksPerSecond \in Nat /\ TicksPerSecond > 0
  BY CacheConstants DEF Entry
<1>2. e.expiry % TicksPerSecond \in 0 .. TicksPerSecond - 1
  BY <1>1
<1>3. e.expiry % TicksPerSecond <= e.expiry
  <2>1. CASE e.expiry < TicksPerSecond
    BY <1>1, <2>1
  <2>2. CASE e.expiry >= TicksPerSecond
    BY <1>1, <1>2, <2>2
  <2>. QED  BY <1>1, <2>1, <2>2
<1>. QED  BY <1>1, <1>2, <1>3 DEF Encode, Entry

\* insert_memory() stores e under k and otherwise only forgets entries.
LEMMA InsertOnlyForgets ==
    ASSUME NEW m \in [Keys -> Entry \cup {NoEntry}], NEW k \in Keys,
           NEW e \in Entry \cup {NoEntry}, NEW n \in InsertMemory(m, k, e)
    PROVE  /\ n \in [Keys -> Entry \cup {NoEntry}]
           /\ n[k] = e
           /\ \A j \in Keys \ {k} : n[j] \in {m[j], NoEntry}
  BY DEF InsertMemory, SoonestToExpire, Cached

\* The cardinality of a set that gains an element.
LEMMA AddNewElement ==
    ASSUME NEW S, NEW x, IsFiniteSet(S), x \notin S
    PROVE  /\ IsFiniteSet(S \cup {x})
           /\ Cardinality(S \cup {x}) = Cardinality(S) + 1
  BY FS_AddElement, Zenon

\* A set that is given an element grows by one at most.
LEMMA AddElement ==
    ASSUME NEW S, NEW x, IsFiniteSet(S)
    PROVE  /\ IsFiniteSet(S \cup {x})
           /\ Cardinality(S \cup {x}) <= Cardinality(S) + 1
<1>1. Cardinality(S) \in Nat
  BY FS_CardinalityType
<1>2. CASE x \in S
  <2>1. S \cup {x} = S
    BY <1>2
  <2>2. Cardinality(S) <= Cardinality(S) + 1
    BY <1>1
  <2>. QED  BY <2>1, <2>2, Zenon
<1>3. CASE x \notin S
  <2>1. IsFiniteSet(S \cup {x}) /\ Cardinality(S \cup {x}) = Cardinality(S) + 1
    BY <1>3, AddNewElement, Zenon
  <2>2. Cardinality(S) + 1 <= Cardinality(S) + 1
    BY <1>1
  <2>. QED  BY <2>1, <2>2, Zenon
<1>. QED  BY <1>2, <1>3

\* insert_memory() keeps a map that is within max_entries within max_entries.
LEMMA InsertKeepsBound ==
    ASSUME NEW m \in [Keys -> Entry \cup {NoEntry}], NEW k \in Keys,
           NEW e \in Entry \cup {NoEntry}, NEW n \in InsertMemory(m, k, e),
           Cardinality(Cached(m)) <= MaxEntries
    PROVE  Cardinality(Cached(n)) <= MaxEntries
<1>1. IsFiniteSet(Cached(m)) /\ Cardinality(Cached(m)) \in Nat /\ MaxEntries \in Nat
  BY CacheConstants, FS_Subset, FS_CardinalityType, Cached(m) \subseteq Keys DEF Cached
<1>2. CASE Cardinality(Cached(m)) >= MaxEntries /\ k \notin Cached(m)
  <2>1. PICK old \in SoonestToExpire(m) : n = [m EXCEPT ![old] = NoEntry, ![k] = e]
    BY <1>2 DEF InsertMemory
  <2>2. old \in Cached(m) /\ old \in Keys
    BY DEF SoonestToExpire, Cached
  <2>3. Cached(n) \subseteq (Cached(m) \ {old}) \cup {k}
    BY <2>1, <2>2 DEF Cached
  <2>4. /\ IsFiniteSet(Cached(m) \ {old})
        /\ Cardinality(Cached(m) \ {old}) = Cardinality(Cached(m)) - 1
    BY <1>1, <2>2, FS_RemoveElement
  <2>5. k \notin Cached(m) \ {old}
    BY <1>2
  <2>6. /\ IsFiniteSet((Cached(m) \ {old}) \cup {k})
        /\ Cardinality((Cached(m) \ {old}) \cup {k}) = Cardinality(Cached(m))
    BY <1>1, <2>4, <2>5, AddNewElement
  <2>7. Cardinality(Cached(n)) <= Cardinality(Cached(m))
    BY <2>3, <2>6, FS_Subset
  <2>. QED  BY <1>1, <2>3, <2>6, <2>7, FS_Subset, FS_CardinalityType
<1>3. CASE ~(Cardinality(Cached(m)) >= MaxEntries /\ k \notin Cached(m))
  <2>1. n = [m EXCEPT ![k] = e]
    BY <1>3 DEF InsertMemory
  <2>2. Cached(n) \subseteq Cached(m) \cup {k}
    BY <2>1 DEF Cached
  <2>3. /\ IsFiniteSet(Cached(m) \cup {k})
        /\ Cardinality(Cached(m) \cup {k}) <= MaxEntries
    <3>1. CASE k \in Cached(m)
      <4>1. Cached(m) \cup {k} = Cached(m)
        BY <3>1
      <4>. QED  BY <1>1, <4>1
    <3>2. CASE k \notin Cached(m)
      BY <1>1, <1>3, <3>2, AddNewElement
    <3>. QED  BY <3>1, <3>2
  <2>4. IsFiniteSet(Cached(n)) /\ Cardinality(Cached(n)) <= Cardinality(Cached(m) \cup {k})
    BY <2>2, <2>3, FS_Subset
  <2>. QED  BY <1>1, <2>3, <2>4, FS_CardinalityType
<1>. QED  BY <1>2, <1>3
-----------------------------------------------------------------------------
(* Types.                                                                  *)

\* The initial state has the types and no call in progress.
LEMMA InitTypes == Init => TypeOK /\ CallState
<1>. SUFFICES ASSUME Init PROVE TypeOK /\ CallState
  OBVIOUS
<1>1. (CHOOSE k \in Keys : TRUE) \in Keys
  BY CacheConstants
<1>2. key \in [Threads -> Keys]
  BY <1>1 DEF Init
<1>3. NoAnswer \in Answer
  BY DEF NoAnswer, Answer
<1>4. TypeOK
  BY <1>2, <1>3 DEF Init, TypeOK, Locations
<1>5. CallState
  BY FS_EmptySet DEF Init, CallState, Locations
<1>. QED  BY <1>4, <1>5

\* What lookup() returns is an answer.
LEMMA AnswerTypes ==
    ASSUME NEW e \in Entry, NEW now \in Nat
    PROVE  LookupAnswer(e, now) \in Answer
  BY DEF LookupAnswer, Answer

\* So is a miss, and so is the absence of an answer.
LEMMA MissTypes ==
    ASSUME NEW now \in Nat
    PROVE  /\ NoAnswer \in Answer
           /\ MissAnswer(now) \in Answer
  BY DEF NoAnswer, MissAnswer, Answer

\* Every step keeps the types and what holds of calls in progress.
LEMMA StepTypes == TypeOK /\ CallState /\ [Next]_vars => TypeOK' /\ CallState'
<1>. SUFFICES ASSUME TypeOK, CallState, [Next]_vars
              PROVE  TypeOK' /\ CallState'
  OBVIOUS
<1>. USE DEF TypeOK, CallState, Locations, history
<1>1. ASSUME NEW t \in Threads, NEW k \in Keys, BeginLookup(t, k)
      PROVE  TypeOK' /\ CallState'
  <2>1. NoAnswer \in Answer
    BY DEF NoAnswer, Answer
  <2>. QED  BY <1>1, <2>1 DEF BeginLookup
<1>2. ASSUME NEW t \in Threads, NEW k \in Keys, NEW ttl \in Ttls, BeginPut(t, k, ttl)
      PROVE  TypeOK' /\ CallState'
  <2>. DEFINE e == [key |-> k, version |-> Cardinality(granted) + 1,
                    expiry |-> clock + ttl]
  <2>1. NoAnswer \in Answer
    BY DEF NoAnswer, Answer
  <2>2. e \in Entry
    BY FS_CardinalityType, CacheConstants DEF Entry
  <2>3. granted' = granted \cup {e} /\ held' = [held EXCEPT ![t] = e]
    BY <1>2 DEF BeginPut
  <2>4. IsFiniteSet(granted')
    BY <2>3, FS_AddElement, Zenon
  <2>. HIDE DEF e
  <2>. QED  BY <1>2, <2>1, <2>2, <2>3, <2>4 DEF BeginPut
<1>3. ASSUME NEW t \in Threads, ThreadStep(t)
      PROVE  TypeOK' /\ CallState'
  <2>1. CASE LookupMap(t)
    <3>1. memory[key[t]] # NoEntry => LookupAnswer(memory[key[t]], asked[t]) \in Answer
      BY AnswerTypes
    <3>2. answer' \in [Threads -> Answer]
      BY <2>1, <3>1, MissTypes DEF LookupMap
    <3>. QED  BY <2>1, <3>2 DEF LookupMap
  <2>2. CASE ReadFile(t)
    <3>. DEFINE f == disk[HashOf[key[t]]]
    <3>1. HashOf[key[t]] \in Paths
      BY CacheConstants
    <3>2. Decodes(f, key[t]) => f.content \in Entry
      BY <3>1 DEF Decodes, File
    <3>3. answer' \in [Threads -> Answer]
      BY <2>2, MissTypes DEF ReadFile
    <3>. QED  BY <2>2, <3>2, <3>3 DEF ReadFile
  <2>3. CASE Refill(t)
    <3>1. held[t] \in Entry
      BY <2>3 DEF Refill
    <3>2. LookupAnswer(held[t], asked[t]) \in Answer
      BY <3>1, AnswerTypes
    <3>3. memory' \in [Keys -> Entry \cup {NoEntry}]
      BY <2>3, <3>1, InsertOnlyForgets DEF Refill
    <3>. QED  BY <2>3, <3>2, <3>3 DEF Refill
  <2>4. CASE EvictScan(t)
    BY <2>4 DEF EvictScan, OldestFiles, EntryFiles
  <2>5. CASE EvictRemove(t)
    <3>1. Unlinked(handle, victim[t]) \in [Threads -> {"closed", "tmp", "disk", "gone"}]
      BY DEF Unlinked
    <3>2. victim[t] \in Paths
      BY <2>5 DEF EvictRemove
    <3>. QED  BY <2>5, <3>1, <3>2 DEF EvictRemove
  <2>6. CASE OpenTmp(t)
    <3>1. [content |-> Torn, mtime |-> clock] \in File
      BY DEF File
    <3>. QED  BY <2>6, <3>1, CacheConstants DEF OpenTmp
  <2>7. CASE WriteTmp(t)
    <3>1. Encode(held[t]) \in Entry
      BY <2>7, EncodeShortens DEF WriteTmp
    <3>2. [content |-> Encode(held[t]), mtime |-> clock] \in File
      BY <3>1 DEF File
    <3>. QED  BY <2>7, <3>2, CacheConstants DEF WriteTmp
  <2>8. CASE WriteFails(t)
    BY <2>8 DEF WriteFails
  <2>9. CASE RenameTmp(t)
    <3>1. HashOf[key[t]] \in Paths
      BY CacheConstants
    <3>2. handle' \in [Threads -> {"closed", "tmp", "disk", "gone"}]
      BY <2>9 DEF RenameTmp, Unlinked
    <3>. QED  BY <2>9, <3>1, <3>2 DEF RenameTmp
  <2>10. CASE PutMap(t)
    <3>1. held[t] \in Entry
      BY <2>10 DEF PutMap
    <3>2. memory' \in [Keys -> Entry \cup {NoEntry}]
      BY <2>10, <3>1, InsertOnlyForgets DEF PutMap
    <3>. QED  BY <2>10, <3>2 DEF PutMap
  <2>. QED  BY <1>3, <2>1, <2>2, <2>3, <2>4, <2>5, <2>6, <2>7, <2>8, <2>9, <2>10 DEF ThreadStep
<1>4. CASE Tick
  BY <1>4 DEF Tick
<1>5. CASE Restart
  <2>1. NoAnswer \in Answer
    BY DEF NoAnswer, Answer
  <2>. QED  BY <1>5, <2>1 DEF Restart
<1>6. CASE UNCHANGED vars
  BY <1>6 DEF vars
<1>. QED  BY <1>1, <1>2, <1>3, <1>4, <1>5, <1>6 DEF Next
-----------------------------------------------------------------------------
(* The bound of the map.                                                   *)

\* Every step keeps the map within max_entries.
LEMMA StepBounded ==
    TypeOK /\ CallState /\ MemoryBounded /\ [Next]_vars => MemoryBounded'
<1>. SUFFICES ASSUME TypeOK, CallState, MemoryBounded, [Next]_vars
              PROVE  MemoryBounded'
  OBVIOUS
<1>1. ASSUME NEW t \in Threads, pc[t] \in {"refill", "insert"},
             memory' \in InsertMemory(memory, key[t], held[t])
      PROVE  MemoryBounded'
  <2>1. Cardinality(Cached(memory')) <= MaxEntries
    BY <1>1, InsertKeepsBound DEF TypeOK, MemoryBounded
  <2>. QED  BY <2>1 DEF MemoryBounded, Cached
<1>2. ASSUME memory' = memory
      PROVE  MemoryBounded'
  BY <1>2 DEF MemoryBounded, Cached
<1>3. CASE Restart
  <2>1. Cached(memory') = {}
    BY <1>3 DEF Restart, Cached
  <2>2. Cardinality(Cached(memory')) = 0
    BY <2>1, FS_EmptySet
  <2>. QED  BY <2>2, CacheConstants DEF MemoryBounded, Cached
<1>4. ASSUME NEW t \in Threads, ThreadStep(t)
      PROVE  MemoryBounded'
  BY <1>1, <1>2, <1>4
     DEF ThreadStep, LookupMap, ReadFile, Refill, EvictScan, EvictRemove,
         OpenTmp, WriteTmp, WriteFails, RenameTmp, PutMap
<1>. QED
  BY <1>2, <1>3, <1>4 DEF Next, BeginLookup, BeginPut, Tick, vars

-----------------------------------------------------------------------------
(* The origin and the lifetime of entries.                                 *)

\* The map holds genuine entries, each under its own key.
GenuineMemory ==
    \A k \in Keys : memory[k] # NoEntry =>
        GrantedBy(granted, memory[k]) /\ memory[k].key = k

\* The two kinds of files hold genuine entries, each under its own name.
GenuineFiles(files) ==
    \A p \in Paths : files[p] # NoFile /\ files[p].content # Torn =>
        /\ GrantedBy(granted, files[p].content)
        /\ HashOf[files[p].content.key] = p

\* So are the entries in the hands of threads.
GenuineHeld ==
    \A t \in Threads : held[t] # NoEntry =>
        GrantedBy(granted, held[t]) /\ held[t].key = key[t]

\* EntriesGenuine is the conjunction of the four parts.
LEMMA GenuineParts ==
    EntriesGenuine <=> /\ GenuineMemory
                       /\ GenuineFiles(disk)
                       /\ GenuineFiles(tmp)
                       /\ GenuineHeld
  BY DEF EntriesGenuine, Genuine, GenuineMemory, GenuineFiles, GenuineHeld

\* Every step keeps the entries genuine.
LEMMA StepGenuine ==
    TypeOK /\ CallState /\ EntriesGenuine /\ [Next]_vars => EntriesGenuine'
<1>. SUFFICES ASSUME TypeOK, CallState, [Next]_vars,
                     GenuineMemory, GenuineFiles(disk), GenuineFiles(tmp), GenuineHeld
              PROVE  GenuineMemory' /\ GenuineFiles(disk)' /\ GenuineFiles(tmp)'
                     /\ GenuineHeld'
  BY GenuineParts, PTL
<1>. USE DEF GenuineMemory, GenuineFiles, GenuineHeld
<1>1. ASSUME NEW t \in Threads, NEW k \in Keys, BeginLookup(t, k)
      PROVE  GenuineMemory' /\ GenuineFiles(disk)' /\ GenuineFiles(tmp)' /\ GenuineHeld'
  <2>1. held[t] = NoEntry
    BY <1>1 DEF BeginLookup, CallState
  <2>. QED  BY <1>1, <2>1 DEF BeginLookup, TypeOK
<1>2. ASSUME NEW t \in Threads, NEW k \in Keys, NEW ttl \in Ttls, BeginPut(t, k, ttl)
      PROVE  GenuineMemory' /\ GenuineFiles(disk)' /\ GenuineFiles(tmp)' /\ GenuineHeld'
  <2>. DEFINE e == [key |-> k, version |-> Cardinality(granted) + 1,
                    expiry |-> clock + ttl]
  <2>1. /\ granted' = granted \cup {e}
        /\ held' = [held EXCEPT ![t] = e]
        /\ key' = [key EXCEPT ![t] = k]
        /\ UNCHANGED <<memory, disk, tmp>>
    BY <1>2 DEF BeginPut
  <2>2. e.expiry \in Nat /\ e \in granted'
    BY <2>1, CacheConstants DEF TypeOK
  <2>3. GrantedBy(granted', e) /\ e.key = k
    BY <2>2 DEF GrantedBy
  <2>4. \A x : GrantedBy(granted, x) => GrantedBy(granted', x)
    BY <2>1 DEF GrantedBy
  <2>. HIDE DEF e
  <2>5. GenuineMemory' /\ GenuineFiles(disk)' /\ GenuineFiles(tmp)'
    BY <2>1, <2>4
  <2>6. GenuineHeld'
    <3>1. held'[t] = e /\ key'[t] = k
      BY <2>1 DEF TypeOK
    <3>2. \A u \in Threads \ {t} : held'[u] = held[u] /\ key'[u] = key[u]
      BY <2>1 DEF TypeOK
    <3>. SUFFICES ASSUME NEW u \in Threads, held'[u] # NoEntry
                  PROVE  GrantedBy(granted', held'[u]) /\ held'[u].key = key'[u]
      BY DEF GenuineHeld
    <3>3. CASE u = t
      BY <3>1, <3>3, <2>3
    <3>4. CASE u # t
      BY <3>2, <3>4, <2>4
    <3>. QED  BY <3>3, <3>4
  <2>. QED  BY <2>5, <2>6
<1>3. ASSUME NEW t \in Threads, ThreadStep(t)
      PROVE  GenuineMemory' /\ GenuineFiles(disk)' /\ GenuineFiles(tmp)' /\ GenuineHeld'
  <2>. HashOf[key[t]] \in Paths /\ key[t] \in Keys
    BY CacheConstants DEF TypeOK
  <2>1. CASE LookupMap(t)
    BY <2>1 DEF LookupMap
  <2>2. CASE ReadFile(t)
    <3>1. CASE Decodes(disk[HashOf[key[t]]], key[t])
      BY <2>2, <3>1 DEF ReadFile, Decodes, TypeOK
    <3>2. CASE ~Decodes(disk[HashOf[key[t]]], key[t])
      BY <2>2, <3>2 DEF ReadFile
    <3>. QED  BY <3>1, <3>2
  <2>3. ASSUME memory' \in InsertMemory(memory, key[t], held[t]),
               held' = [held EXCEPT ![t] = NoEntry],
               held[t] \in Entry,
               UNCHANGED <<disk, tmp, granted, key>>
        PROVE  GenuineMemory' /\ GenuineFiles(disk)' /\ GenuineFiles(tmp)' /\ GenuineHeld'
    <3>1. /\ memory' \in [Keys -> Entry \cup {NoEntry}]
          /\ memory'[key[t]] = held[t]
          /\ \A j \in Keys \ {key[t]} : memory'[j] \in {memory[j], NoEntry}
      BY <2>3, InsertOnlyForgets DEF TypeOK
    <3>2. GenuineMemory'
      BY <2>3, <3>1
    <3>3. GenuineHeld'
      BY <2>3 DEF TypeOK
    <3>. QED  BY <2>3, <3>2, <3>3
  <2>4. CASE EvictScan(t)
    BY <2>4 DEF EvictScan
  <2>5. CASE EvictRemove(t)
    BY <2>5 DEF EvictRemove, TypeOK, CallState
  <2>6. CASE OpenTmp(t)
    BY <2>6 DEF OpenTmp, TypeOK
  <2>7. CASE WriteTmp(t)
    <3>. DEFINE p == HashOf[key[t]]
                f == [content |-> Encode(held[t]), mtime |-> clock]
    <3>1. held[t] \in Entry /\ held[t] # NoEntry
      BY <2>7, NoEntryIsNone DEF WriteTmp, CallState, Locations
    <3>2. GrantedBy(granted, Encode(held[t])) /\ HashOf[Encode(held[t]).key] = p
      <4>1. GrantedBy(granted, held[t]) /\ held[t].key = key[t]
        BY <3>1
      <4>2. PICK g \in granted : /\ g.key = held[t].key
                                /\ g.version = held[t].version
                                /\ held[t].expiry <= g.expiry
        BY <4>1 DEF GrantedBy
      <4>3. g.expiry \in Nat /\ held[t].expiry \in Nat /\ Encode(held[t]).expiry \in Nat
        BY <3>1, EncodeShortens DEF TypeOK, Entry
      <4>. QED  BY <3>1, <4>1, <4>2, <4>3, EncodeShortens DEF GrantedBy
    <3>3. f.content = Encode(held[t])
      OBVIOUS
    <3>4. /\ tmp' \in {tmp, [tmp EXCEPT ![p] = f]}
          /\ disk' \in {disk, [disk EXCEPT ![p] = f]}
          /\ UNCHANGED <<memory, granted, key, held>>
      BY <2>7 DEF WriteTmp
    <3>. HIDE DEF f
    <3>. QED  BY <3>2, <3>3, <3>4 DEF TypeOK
  <2>8. CASE WriteFails(t)
    BY <2>8 DEF WriteFails
  <2>9. CASE RenameTmp(t)
    <3>. DEFINE p == HashOf[key[t]]
    <3>1. UNCHANGED <<memory, granted, key, held>>
      BY <2>9 DEF RenameTmp
    <3>2. \/ UNCHANGED <<disk, tmp>>
          \/ /\ disk' = [disk EXCEPT ![p] = tmp[p]]
             /\ tmp' = [tmp EXCEPT ![p] = NoFile]
      BY <2>9 DEF RenameTmp
    <3>3. DOMAIN disk = Paths /\ DOMAIN tmp = Paths
      BY DEF TypeOK
    <3>4. \A q \in Paths : /\ disk'[q] \in {disk[q], tmp[q]}
                           /\ tmp'[q] \in {tmp[q], NoFile}
      BY <3>2, <3>3
    <3>. QED  BY <3>1, <3>4
  <2>. QED
    BY <1>3, <2>1, <2>2, <2>3, <2>4, <2>5, <2>6, <2>7, <2>8, <2>9
       DEF ThreadStep, Refill, PutMap, CallState, Locations
<1>4. CASE Tick
  BY <1>4 DEF Tick
<1>5. CASE Restart
  BY <1>5 DEF Restart
<1>6. CASE UNCHANGED vars
  BY <1>6 DEF vars
<1>. QED  BY <1>1, <1>2, <1>3, <1>4, <1>5, <1>6 DEF Next

-----------------------------------------------------------------------------
(* What lookup() returns.                                                  *)

\* Thread t's answer, if it is a response, was stored for the key t asked for,
\* and was granted for long enough if it is called fresh.
HonestAnswer(a, k, G) ==
    a.kind \in {"fresh", "stale"} =>
        \E g \in G : /\ g.key = k
                     /\ g.version = a.entry.version
                     /\ a.kind = "fresh" => g.expiry > a.asked

\* lookup() answers honestly with a genuine entry of the key.
LEMMA GenuineGivesHonest ==
    ASSUME NEW e \in Entry, NEW now \in Nat, NEW k, NEW G \in SUBSET Entry,
           GrantedBy(G, e), e.key = k
    PROVE  HonestAnswer(LookupAnswer(e, now), k, G)
<1>1. PICK g \in G : g.key = e.key /\ g.version = e.version /\ e.expiry <= g.expiry
  BY DEF GrantedBy
<1>2. g.expiry \in Nat /\ e.expiry \in Nat
  BY DEF Entry
<1>. DEFINE a == LookupAnswer(e, now)
<1>3. a.entry = e /\ a.asked = now /\ (a.kind = "fresh" => e.expiry > now)
  BY DEF LookupAnswer
<1>. QED  BY <1>1, <1>2, <1>3 DEF HonestAnswer

\* Every step keeps the answers honest.
LEMMA StepHonest ==
    TypeOK /\ CallState /\ EntriesGenuine /\ LookupHonest /\ [Next]_vars
        => LookupHonest'
<1>. DEFINE Honest == \A t \in Threads :
                /\ HonestAnswer(answer[t], key[t], granted)
                /\ answer[t].kind \in {"fresh", "stale"} => answer[t].asked <= clock
<1>a. LookupHonest <=> Honest
  BY DEF LookupHonest, HonestAnswer
<1>. SUFFICES ASSUME TypeOK, CallState, EntriesGenuine, Honest, [Next]_vars
              PROVE  Honest'
  BY <1>a, PTL
<1>. USE DEF TypeOK
<1>1. ASSUME NEW t \in Threads, NEW k \in Keys, BeginLookup(t, k)
      PROVE  Honest'
  <2>1. NoAnswer.kind = "none"
    BY DEF NoAnswer
  <2>. QED  BY <1>1, <2>1 DEF BeginLookup, HonestAnswer
<1>2. ASSUME NEW t \in Threads, NEW k \in Keys, NEW ttl \in Ttls, BeginPut(t, k, ttl)
      PROVE  Honest'
  <2>1. NoAnswer.kind = "none"
    BY DEF NoAnswer
  <2>2. /\ granted \subseteq granted' /\ clock' = clock
        /\ answer' = [answer EXCEPT ![t] = NoAnswer]
        /\ key' = [key EXCEPT ![t] = k]
    BY <1>2 DEF BeginPut
  <2>. QED  BY <2>1, <2>2 DEF HonestAnswer
<1>3. ASSUME NEW t \in Threads, NEW e \in Entry, UNCHANGED <<granted, key, clock>>,
             GrantedBy(granted, e), e.key = key[t],
             answer' = [answer EXCEPT ![t] = LookupAnswer(e, asked[t])]
      PROVE  Honest'
  <2>1. HonestAnswer(LookupAnswer(e, asked[t]), key[t], granted)
    BY <1>3, GenuineGivesHonest
  <2>2. LookupAnswer(e, asked[t]).asked = asked[t] /\ asked[t] <= clock
    BY DEF LookupAnswer, CallState
  <2>. QED  BY <1>3, <2>1, <2>2
<1>4. ASSUME NEW t \in Threads, UNCHANGED <<granted, key, clock>>,
             answer' = [answer EXCEPT ![t] = MissAnswer(asked[t])]
      PROVE  Honest'
  <2>1. MissAnswer(asked[t]).kind = "miss"
    BY DEF MissAnswer
  <2>. QED  BY <1>4, <2>1 DEF HonestAnswer
<1>5. ASSUME UNCHANGED <<granted, key, answer>>, clock' \in Nat, clock <= clock'
      PROVE  Honest'
  <2>1. ASSUME NEW t \in Threads, answer[t].kind \in {"fresh", "stale"}
        PROVE  answer[t].asked <= clock'
    BY <1>5, <2>1 DEF Answer
  <2>. QED  BY <1>5, <2>1
<1>6. ASSUME NEW t \in Threads, ThreadStep(t)
      PROVE  Honest'
  <2>. GenuineMemory /\ GenuineHeld
    BY GenuineParts
  <2>1. CASE LookupMap(t)
    <3>1. CASE memory[key[t]] # NoEntry
      BY <1>3, <2>1, <3>1 DEF LookupMap, GenuineMemory
    <3>2. CASE memory[key[t]] = NoEntry
      BY <1>4, <1>5, <2>1, <3>2 DEF LookupMap
    <3>. QED  BY <3>1, <3>2
  <2>2. CASE ReadFile(t)
    BY <1>4, <1>5, <2>2 DEF ReadFile
  <2>3. CASE Refill(t)
    <3>1. held[t] \in Entry /\ held[t] # NoEntry
      BY <2>3, NoEntryIsNone DEF Refill, CallState, Locations
    <3>. QED  BY <1>3, <2>3, <3>1 DEF Refill, GenuineHeld
  <2>4. CASE ~(LookupMap(t) \/ ReadFile(t) \/ Refill(t))
    BY <1>5, <1>6, <2>4 DEF ThreadStep, EvictScan, EvictRemove,
       OpenTmp, WriteTmp, WriteFails, RenameTmp, PutMap
  <2>. QED  BY <2>1, <2>2, <2>3, <2>4
<1>7. CASE Tick
  BY <1>5, <1>7 DEF Tick
<1>8. CASE Restart
  <2>1. NoAnswer.kind = "none"
    BY DEF NoAnswer
  <2>. QED  BY <1>8, <2>1 DEF Restart, HonestAnswer
<1>9. CASE UNCHANGED vars
  BY <1>5, <1>9 DEF vars
<1>. QED  BY <1>1, <1>2, <1>6, <1>7, <1>8, <1>9 DEF Next

-----------------------------------------------------------------------------
(* The theorems.                                                           *)

\* The types are right in every reachable state, and so is CallState.
THEOREM TypesCorrect == Spec => [](TypeOK /\ CallState)
  BY InitTypes, StepTypes, PTL DEF Spec

\* insert_memory() keeps the map within max_entries, for any number of threads
\* that look up and store at the same time.
THEOREM MemoryStaysBounded == Spec => []MemoryBounded
<1>1. Init => MemoryBounded
  <2>. SUFFICES ASSUME Init PROVE MemoryBounded
    OBVIOUS
  <2>1. Cached(memory) = {}
    BY DEF Init, Cached
  <2>. QED  BY <2>1, FS_EmptySet, CacheConstants DEF MemoryBounded
<1>. QED  BY <1>1, TypesCorrect, StepBounded, PTL DEF Spec

\* No file name collision, no torn or overwritten file and no restart makes
\* DiskStore::get() give a key another key's response or a longer lifetime.
THEOREM EntriesStayGenuine == Spec => []EntriesGenuine
<1>1. Init => EntriesGenuine
  BY DEF Init, EntriesGenuine
<1>. QED  BY <1>1, TypesCorrect, StepGenuine, PTL DEF Spec

\* lookup() calls a response fresh only while the put() that stored it allows.
THEOREM LookupsAreHonest == Spec => []LookupHonest
<1>1. Init => LookupHonest
  BY DEF Init, LookupHonest, NoAnswer
<1>. QED  BY <1>1, TypesCorrect, EntriesStayGenuine, StepHonest, PTL DEF Spec

-----------------------------------------------------------------------------
(* The directory, with any number of threads in it.                        *)

\* A thread has a file open only while it writes, and the name it follows is there.
HandlesLinked ==
    \A t \in Threads :
       /\ pc[t] # "write" => handle[t] = "closed"
       /\ handle[t] = "disk" => disk[HashOf[key[t]]] # NoFile

\* A put() is about to remove a file that is still there.
RemovalDue == \E t \in Threads : pc[t] = "remove" /\ victim[t] \in EntryFiles

\* Every put() at work in the directory has room for its file, but for one room
\* that is still to be made, and for those that listed it in company.
RoomCounted ==
    /\ IsFiniteSet(EntryFiles)
    /\ IsFiniteSet(AtDirectory)
    /\ Cardinality(EntryFiles) + Cardinality(AtDirectory)
          <= MaxEntries + crowded + (IF RemovalDue THEN 1 ELSE 0)

\* Of a name that was never shared: one put() at most writes it, to the temporary
\* file, and renames that only when it is whole.
WholeUnlessShared ==
    \A p \in Paths \ shared :
       /\ disk[p] # NoFile => disk[p].content # Torn
       /\ \A t, u \in Writers(p) : t = u
       /\ \A t \in Writers(p) :
             /\ pc[t] = "write" => handle[t] = "tmp"
             /\ pc[t] = "rename" /\ tmp[p] # NoFile => tmp[p].content # Torn

\* A file that is not whole holds no entry.
LEMMA TornIsNone == Torn \notin Entry
<1>1. DOMAIN Torn = {"none"}
  BY DEF Torn
<1>2. \A e \in Entry : DOMAIN e = {"key", "version", "expiry"}
  BY DEF Entry
<1>. QED  BY <1>1, <1>2

\* Every step keeps open handles on files that have a name.
LEMMA StepHandles ==
    TypeOK /\ CallState /\ HandlesLinked /\ [Next]_vars => HandlesLinked'
<1>. SUFFICES ASSUME TypeOK, CallState, HandlesLinked, [Next]_vars
              PROVE  HandlesLinked'
  OBVIOUS
<1>. USE DEF TypeOK, HandlesLinked
<1>1. ASSUME NEW t \in Threads, ThreadStep(t)
      PROVE  HandlesLinked'
  <2>. HashOf[key[t]] \in Paths
    BY CacheConstants
  <2>1. CASE EvictRemove(t)
    BY <2>1 DEF EvictRemove, Unlinked, CallState
  <2>2. CASE OpenTmp(t)
    BY <2>2 DEF OpenTmp
  <2>3. CASE WriteTmp(t)
    <3>1. [content |-> Encode(held[t]), mtime |-> clock] # NoFile
      BY DEF NoFile
    <3>. QED  BY <2>3, <3>1 DEF WriteTmp
  <2>4. CASE WriteFails(t)
    BY <2>4 DEF WriteFails
  <2>5. CASE RenameTmp(t)
    <3>. DEFINE p == HashOf[key[t]]
    <3>1. CASE tmp[p] = NoFile
      BY <2>5, <3>1 DEF RenameTmp
    <3>2. CASE tmp[p] # NoFile
      <4>1. disk' = [disk EXCEPT ![p] = tmp[p]] /\ key' = key /\ pc[t] = "rename"
            /\ pc' = [pc EXCEPT ![t] = "insert"]
        BY <2>5, <3>2 DEF RenameTmp
      <4>2. \A u \in Threads : handle'[u] = IF handle[u] = "tmp" /\ HashOf[key[u]] = p
                                        THEN "disk"
                                        ELSE IF handle[u] = "disk" /\ HashOf[key[u]] = p
                                             THEN "gone" ELSE handle[u]
        BY <2>5, <3>2 DEF RenameTmp, Unlinked
      <4>3. \A u \in Threads : HashOf[key[u]] \in Paths
        BY CacheConstants
      <4>. HIDE DEF p
      <4>4. ASSUME NEW u \in Threads
            PROVE  /\ pc'[u] # "write" => handle'[u] = "closed"
                   /\ handle'[u] = "disk" => disk'[HashOf[key'[u]]] # NoFile
        BY <3>2, <4>1, <4>2, <4>3
      <4>. QED  BY <4>4
    <3>. QED  BY <3>1, <3>2
  <2>. QED
    BY <1>1, <2>1, <2>2, <2>3, <2>4, <2>5
       DEF ThreadStep, LookupMap, ReadFile, Refill, EvictScan, PutMap
<1>2. CASE Restart
  BY <1>2 DEF Restart
<1>. QED
  BY <1>1, <1>2 DEF Next, BeginLookup, BeginPut, Tick, vars

\* The count bounds the files alone: where one room is to be made, a put() makes it.
LEMMA RoomBoundsFiles == TypeOK /\ RoomCounted => OverrunCounted
<1>. SUFFICES ASSUME TypeOK, RoomCounted PROVE OverrunCounted
  OBVIOUS
<1>1. /\ Cardinality(EntryFiles) \in Nat
      /\ Cardinality(AtDirectory) \in Nat
      /\ MaxEntries + crowded \in Nat
  BY FS_CardinalityType, CacheConstants DEF RoomCounted, TypeOK
<1>2. CASE RemovalDue
  <2>1. AtDirectory # {}
    BY <1>2 DEF RemovalDue, AtDirectory
  <2>2. Cardinality(AtDirectory) # 0
    BY <2>1, FS_EmptySet DEF RoomCounted
  <2>. QED  BY <1>1, <1>2, <2>2 DEF RoomCounted, OverrunCounted
<1>3. CASE ~RemovalDue
  BY <1>1, <1>3 DEF RoomCounted, OverrunCounted
<1>. QED  BY <1>2, <1>3

\* A put() that leaves the directory makes up for a file more.
LEMMA LeavesDirectory ==
    ASSUME TypeOK, RoomCounted, NEW t \in Threads, pc[t] \in {"open", "write", "rename"},
           pc' = [pc EXCEPT ![t] = "insert"], UNCHANGED <<victim, crowded>>,
           NEW p \in Paths, EntryFiles' \in {EntryFiles, EntryFiles \cup {p}}
    PROVE  RoomCounted'
<1>. USE DEF TypeOK
<1>1. AtDirectory' = AtDirectory \ {t} /\ t \in AtDirectory
  BY DEF AtDirectory
<1>2. /\ IsFiniteSet(AtDirectory \ {t})
      /\ Cardinality(AtDirectory \ {t}) = Cardinality(AtDirectory) - 1
  BY <1>1, FS_RemoveElement DEF RoomCounted
<1>3. IsFiniteSet(EntryFiles') /\ Cardinality(EntryFiles') <= Cardinality(EntryFiles) + 1
  <2>1. CASE EntryFiles' = EntryFiles
    BY <2>1, FS_CardinalityType DEF RoomCounted
  <2>2. CASE EntryFiles' = EntryFiles \cup {p}
    <3>1. /\ IsFiniteSet(EntryFiles \cup {p})
          /\ Cardinality(EntryFiles \cup {p}) <= Cardinality(EntryFiles) + 1
      BY AddElement DEF RoomCounted
    <3>. QED  BY <2>2, <3>1
  <2>. QED  BY <2>1, <2>2
<1>4. RemovalDue => RemovalDue'
  BY DEF RemovalDue
<1>5. /\ Cardinality(EntryFiles) \in Nat
      /\ Cardinality(EntryFiles') \in Nat
      /\ Cardinality(AtDirectory) \in Nat
      /\ MaxEntries + crowded \in Nat
  BY <1>3, FS_CardinalityType, CacheConstants DEF RoomCounted
<1>6. IsFiniteSet(AtDirectory') /\ Cardinality(AtDirectory') = Cardinality(AtDirectory) - 1
  BY <1>1, <1>2
<1>. QED  BY <1>3, <1>4, <1>5, <1>6 DEF RoomCounted

\* Every step keeps the count of rooms.
LEMMA StepRoom ==
    TypeOK /\ CallState /\ HandlesLinked /\ RoomCounted /\ [Next]_vars => RoomCounted'
<1>. SUFFICES ASSUME TypeOK, CallState, HandlesLinked, RoomCounted, [Next]_vars
              PROVE  RoomCounted'
  OBVIOUS
<1>. USE DEF TypeOK
<1>a. /\ Cardinality(EntryFiles) \in Nat
      /\ Cardinality(AtDirectory) \in Nat
      /\ MaxEntries \in Nat
  BY FS_CardinalityType, CacheConstants DEF RoomCounted
<1>1. ASSUME EntryFiles' = EntryFiles, UNCHANGED <<victim, crowded>>,
             \A t \in Threads :
                /\ t \in AtDirectory' <=> t \in AtDirectory
                /\ pc'[t] = "remove" <=> pc[t] = "remove"
      PROVE  RoomCounted'
  <2>1. AtDirectory' = AtDirectory
    BY <1>1 DEF AtDirectory
  <2>2. RemovalDue' <=> RemovalDue
    BY <1>1 DEF RemovalDue
  <2>. QED  BY <1>1, <2>1, <2>2 DEF RoomCounted
<1>2. ASSUME NEW t \in Threads, EvictScan(t)
      PROVE  RoomCounted'
  <2>1. EntryFiles' = EntryFiles
    BY <1>2 DEF EvictScan, EntryFiles
  <2>2. AtDirectory' = AtDirectory \cup {t} /\ t \notin AtDirectory
    BY <1>2 DEF EvictScan, AtDirectory
  <2>3. /\ IsFiniteSet(AtDirectory \cup {t})
        /\ Cardinality(AtDirectory \cup {t}) = Cardinality(AtDirectory) + 1
    BY <2>2, AddNewElement DEF RoomCounted
  <2>4. IsFiniteSet(AtDirectory') /\ Cardinality(AtDirectory') = Cardinality(AtDirectory) + 1
    BY <2>2, <2>3
  <2>5. CASE AtDirectory = {}
    <3>1. Cardinality(EntryFiles) <= MaxEntries + crowded /\ crowded' = crowded
      BY <1>2, <2>5, RoomBoundsFiles DEF EvictScan, OverrunCounted
    <3>2. Cardinality(AtDirectory) = 0
      BY <2>5, FS_EmptySet
    <3>3. Cardinality(EntryFiles) < MaxEntries \/ RemovalDue'
      BY <1>2, <2>1 DEF EvictScan, RemovalDue, OldestFiles
    <3>. QED  BY <1>a, <2>1, <2>4, <3>1, <3>2, <3>3 DEF RoomCounted
  <2>6. CASE AtDirectory # {}
    <3>1. crowded' = crowded + 1
      BY <1>2, <2>6 DEF EvictScan
    <3>2. RemovalDue => RemovalDue'
      BY <1>2, <2>1 DEF EvictScan, RemovalDue
    <3>. QED  BY <1>a, <2>1, <2>4, <3>1, <3>2 DEF RoomCounted
  <2>. QED  BY <2>5, <2>6
<1>3. ASSUME NEW t \in Threads, EvictRemove(t)
      PROVE  RoomCounted'
  <2>1. AtDirectory' = AtDirectory /\ crowded' = crowded
    BY <1>3 DEF EvictRemove, AtDirectory, history
  <2>2. EntryFiles' = EntryFiles \ {victim[t]}
    BY <1>3 DEF EvictRemove, EntryFiles, CallState
  <2>3. CASE victim[t] \in EntryFiles
    <3>1. /\ IsFiniteSet(EntryFiles \ {victim[t]})
          /\ Cardinality(EntryFiles \ {victim[t]}) = Cardinality(EntryFiles) - 1
      BY <2>3, FS_RemoveElement DEF RoomCounted
    <3>2. IsFiniteSet(EntryFiles') /\ Cardinality(EntryFiles') = Cardinality(EntryFiles) - 1
      BY <2>2, <3>1
    <3>. QED  BY <1>a, <2>1, <3>2 DEF RoomCounted
  <2>4. CASE victim[t] \notin EntryFiles
    <3>1. EntryFiles' = EntryFiles
      BY <2>2, <2>4
    <3>2. RemovalDue => RemovalDue'
      <4>. SUFFICES ASSUME RemovalDue PROVE RemovalDue'
        OBVIOUS
      <4>1. PICK u \in Threads : pc[u] = "remove" /\ victim[u] \in EntryFiles
        BY DEF RemovalDue
      <4>2. u # t
        BY <2>4, <4>1
      <4>3. pc'[u] = "remove" /\ victim'[u] \in EntryFiles'
        BY <1>3, <3>1, <4>1, <4>2 DEF EvictRemove
      <4>. QED  BY <4>3 DEF RemovalDue
    <3>. QED  BY <1>a, <2>1, <3>1, <3>2 DEF RoomCounted
  <2>. QED  BY <2>3, <2>4
<1>4. ASSUME NEW t \in Threads, WriteTmp(t)
      PROVE  RoomCounted'
  <2>. DEFINE f == [content |-> Encode(held[t]), mtime |-> clock]
  <2>1. f # NoFile
    BY DEF NoFile
  <2>2. /\ disk' = IF handle[t] = "disk" THEN [disk EXCEPT ![HashOf[key[t]]] = f] ELSE disk
        /\ pc' = [pc EXCEPT ![t] = "rename"]
        /\ pc[t] = "write"
        /\ UNCHANGED <<victim, crowded>>
    BY <1>4 DEF WriteTmp, history
  <2>. HIDE DEF f
  <2>3. EntryFiles' = EntryFiles
    BY <2>1, <2>2, CacheConstants DEF EntryFiles, HandlesLinked
  <2>. QED  BY <1>1, <2>2, <2>3 DEF AtDirectory
<1>5. ASSUME NEW t \in Threads, RenameTmp(t)
      PROVE  RoomCounted'
  <2>. DEFINE p == HashOf[key[t]]
  <2>1. p \in Paths
    BY CacheConstants
  <2>2. EntryFiles' \in {EntryFiles, EntryFiles \cup {p}}
    BY <1>5, <2>1 DEF RenameTmp, EntryFiles
  <2>. HIDE DEF p
  <2>. QED  BY <1>5, <2>1, <2>2, LeavesDirectory DEF RenameTmp, history
<1>6. ASSUME NEW t \in Threads, WriteFails(t)
      PROVE  RoomCounted'
  <2>1. EntryFiles' = EntryFiles
    BY <1>6 DEF WriteFails, EntryFiles
  <2>2. HashOf[key[t]] \in Paths
    BY CacheConstants
  <2>. QED  BY <1>6, <2>1, <2>2, LeavesDirectory DEF WriteFails, history
<1>7. ASSUME NEW t \in Threads, ThreadStep(t)
      PROVE  RoomCounted'
  <2>1. CASE OpenTmp(t)
    BY <1>1, <2>1 DEF OpenTmp, AtDirectory, EntryFiles
  <2>2. CASE LookupMap(t) \/ ReadFile(t) \/ Refill(t) \/ PutMap(t)
    BY <1>1, <2>2
       DEF LookupMap, ReadFile, Refill, PutMap, AtDirectory, EntryFiles, history
  <2>. QED  BY <1>2, <1>3, <1>4, <1>5, <1>6, <1>7, <2>1, <2>2 DEF ThreadStep
<1>8. CASE Restart
  <2>1. EntryFiles' = EntryFiles /\ AtDirectory' = {} /\ crowded' = crowded /\ ~RemovalDue'
    BY <1>8 DEF Restart, EntryFiles, AtDirectory, RemovalDue, history
  <2>2. IsFiniteSet(AtDirectory') /\ Cardinality(AtDirectory') = 0
    BY <2>1, FS_EmptySet
  <2>3. Cardinality(EntryFiles) <= MaxEntries + crowded
    BY RoomBoundsFiles DEF OverrunCounted
  <2>. QED  BY <1>a, <2>1, <2>2, <2>3 DEF RoomCounted
<1>9. CASE \/ \E t \in Threads, k \in Keys : BeginLookup(t, k)
           \/ \E t \in Threads, k \in Keys, ttl \in Ttls : BeginPut(t, k, ttl)
           \/ Tick
           \/ UNCHANGED vars
  BY <1>1, <1>9
     DEF BeginLookup, BeginPut, Tick, vars, history, AtDirectory, EntryFiles
<1>. QED  BY <1>7, <1>8, <1>9 DEF Next

\* Every step keeps half-written files from the names that were never shared.
LEMMA StepWhole ==
    TypeOK /\ CallState /\ HandlesLinked /\ WholeUnlessShared /\ [Next]_vars
        => WholeUnlessShared'
<1>. SUFFICES ASSUME TypeOK, CallState, HandlesLinked, WholeUnlessShared, [Next]_vars,
                     NEW p \in Paths, p \notin shared'
              PROVE  /\ disk'[p] # NoFile => disk'[p].content # Torn
                     /\ \A t, u \in Writers(p)' : t = u
                     /\ \A t \in Writers(p)' :
                           /\ pc'[t] = "write" => handle'[t] = "tmp"
                           /\ pc'[t] = "rename" /\ tmp'[p] # NoFile
                                 => tmp'[p].content # Torn
  BY DEF WholeUnlessShared
<1>. DEFINE Goal == /\ disk'[p] # NoFile => disk'[p].content # Torn
                    /\ \A t, u \in Writers(p)' : t = u
                    /\ \A t \in Writers(p)' :
                          /\ pc'[t] = "write" => handle'[t] = "tmp"
                          /\ pc'[t] = "rename" /\ tmp'[p] # NoFile
                                => tmp'[p].content # Torn
<1>. USE DEF TypeOK, Writers
<1>a. p \notin shared
  <2>. USE DEF history
  <2>1. ASSUME NEW t \in Threads, ThreadStep(t) PROVE p \notin shared
    <3>1. CASE OpenTmp(t)
      <4>1. shared' \in {shared, shared \cup {HashOf[key[t]]}}
        BY <3>1 DEF OpenTmp
      <4>. QED  BY <4>1
    <3>2. CASE ~OpenTmp(t)
      <4>1. shared' = shared
        BY <2>1, <3>2 DEF ThreadStep, LookupMap, ReadFile, Refill, EvictScan, EvictRemove,
                          WriteTmp, WriteFails, RenameTmp, PutMap
      <4>. QED  BY <4>1
    <3>. QED  BY <3>1, <3>2
  <2>2. CASE ~\E t \in Threads : ThreadStep(t)
    <3>1. shared' = shared
      BY <2>2 DEF Next, BeginLookup, BeginPut, Tick, Restart, vars
    <3>. QED  BY <3>1
  <2>. QED  BY <2>1, <2>2
<1>b. /\ disk[p] # NoFile => disk[p].content # Torn
      /\ \A t, u \in Writers(p) : t = u
      /\ \A t \in Writers(p) :
            /\ pc[t] = "write" => handle[t] = "tmp"
            /\ pc[t] = "rename" /\ tmp[p] # NoFile => tmp[p].content # Torn
  BY <1>a DEF WholeUnlessShared
<1>1. ASSUME UNCHANGED tmp, disk'[p] \in {disk[p], NoFile},
             \A t \in Threads :
                \/ pc'[t] \notin {"write", "rename"}
                \/ /\ pc'[t] = pc[t] /\ key'[t] = key[t]
                   /\ handle[t] = "tmp" => handle'[t] = "tmp"
      PROVE  Goal
  BY <1>1, <1>b
<1>2. ASSUME NEW t \in Threads, ThreadStep(t)
      PROVE  Goal
  <2>. HashOf[key[t]] \in Paths
    BY CacheConstants
  <2>1. CASE EvictRemove(t)
    <3>1. victim[t] \in Paths
      BY <2>1 DEF EvictRemove, CallState
    <3>. QED  BY <1>1, <2>1, <3>1 DEF EvictRemove, Unlinked
  <2>2. CASE OpenTmp(t)
    <3>1. CASE HashOf[key[t]] = p
      <4>1. Writers(p) = {}
        BY <2>2, <3>1 DEF OpenTmp
      <4>2. Writers(p)' = {t}
        BY <2>2, <3>1, <4>1 DEF OpenTmp
      <4>3. pc'[t] = "write" /\ handle'[t] = "tmp" /\ disk' = disk
        BY <2>2 DEF OpenTmp
      <4>. QED  BY <1>b, <4>2, <4>3
    <3>2. CASE HashOf[key[t]] # p
      <4>1. /\ Writers(p)' = Writers(p)
            /\ UNCHANGED disk
            /\ tmp'[p] = tmp[p]
            /\ \A u \in Writers(p) : pc'[u] = pc[u] /\ handle'[u] = handle[u]
        BY <2>2, <3>2 DEF OpenTmp
      <4>. QED  BY <1>b, <4>1
    <3>. QED  BY <3>1, <3>2
  <2>3. CASE WriteTmp(t)
    <3>. DEFINE f == [content |-> Encode(held[t]), mtime |-> clock]
    <3>1. Encode(held[t]) # Torn
      BY <2>3, TornIsNone, EncodeShortens DEF WriteTmp, CallState, Locations
    <3>2. f.content # Torn
      BY <3>1
    <3>3. /\ tmp' = IF handle[t] = "tmp" THEN [tmp EXCEPT ![HashOf[key[t]]] = f] ELSE tmp
          /\ disk' = IF handle[t] = "disk" THEN [disk EXCEPT ![HashOf[key[t]]] = f] ELSE disk
          /\ handle' = [handle EXCEPT ![t] = "closed"]
          /\ pc[t] = "write" /\ pc' = [pc EXCEPT ![t] = "rename"] /\ key' = key
      BY <2>3 DEF WriteTmp
    <3>. HIDE DEF f
    <3>4. Writers(p)' = Writers(p)
      BY <3>3
    <3>5. CASE HashOf[key[t]] = p
      <4>1. Writers(p) = {t} /\ handle[t] = "tmp"
        BY <1>b, <3>3, <3>5
      <4>2. disk' = disk /\ tmp'[p] = f /\ pc'[t] = "rename"
        BY <3>3, <3>5, <4>1
      <4>. QED  BY <1>b, <3>2, <3>4, <4>1, <4>2
    <3>6. CASE HashOf[key[t]] # p
      <4>1. /\ disk'[p] = disk[p] /\ tmp'[p] = tmp[p]
            /\ \A u \in Writers(p) : pc'[u] = pc[u] /\ handle'[u] = handle[u]
        BY <3>3, <3>6
      <4>. QED  BY <1>b, <3>4, <4>1
    <3>. QED  BY <3>5, <3>6
  <2>4. CASE WriteFails(t)
    BY <1>1, <2>4 DEF WriteFails
  <2>5. CASE RenameTmp(t)
    <3>1. CASE tmp[HashOf[key[t]]] = NoFile
      BY <1>1, <2>5, <3>1 DEF RenameTmp
    <3>2. CASE tmp[HashOf[key[t]]] # NoFile /\ HashOf[key[t]] = p
      <4>1. Writers(p) = {t}
        BY <1>b, <2>5, <3>2 DEF RenameTmp
      <4>2. Writers(p)' = {}
        BY <2>5, <4>1 DEF RenameTmp
      <4>3. disk'[p] = tmp[p] /\ tmp[p].content # Torn
        BY <1>b, <2>5, <3>2, <4>1 DEF RenameTmp
      <4>. QED  BY <4>2, <4>3
    <3>3. CASE tmp[HashOf[key[t]]] # NoFile /\ HashOf[key[t]] # p
      <4>1. /\ disk'[p] = disk[p] /\ tmp'[p] = tmp[p]
            /\ Writers(p)' = Writers(p)
            /\ \A u \in Writers(p) : pc'[u] = pc[u]
        BY <2>5, <3>3 DEF RenameTmp
      <4>2. \A u \in Writers(p) : handle[u] = "tmp" => handle'[u] = "tmp"
        BY <2>5, <3>3 DEF RenameTmp, Unlinked
      <4>. QED  BY <1>b, <4>1, <4>2
    <3>. QED  BY <3>1, <3>2, <3>3
  <2>. QED
    BY <1>1, <1>2, <2>1, <2>2, <2>3, <2>4, <2>5
       DEF ThreadStep, LookupMap, ReadFile, Refill, EvictScan, PutMap
<1>3. CASE Restart
  BY <1>1, <1>3 DEF Restart
<1>4. CASE \/ \E t \in Threads, k \in Keys : BeginLookup(t, k)
           \/ \E t \in Threads, k \in Keys, ttl \in Ttls : BeginPut(t, k, ttl)
           \/ Tick
           \/ UNCHANGED vars
  BY <1>1, <1>4 DEF BeginLookup, BeginPut, Tick, vars
<1>. QED  BY <1>2, <1>3, <1>4 DEF Next

\* For any number of threads, evict() and the rename that no lock holds together put
\* no more files over max_entries than puts listed the directory in company, across
\* failing writes and restarts at any point.
THEOREM DirectoryOverrunCounted == Spec => []OverrunCounted
<1>1. Init => HandlesLinked /\ RoomCounted
  <2>. SUFFICES ASSUME Init PROVE HandlesLinked /\ RoomCounted
    OBVIOUS
  <2>1. EntryFiles = {} /\ AtDirectory = {} /\ ~RemovalDue /\ crowded = 0
    BY DEF Init, EntryFiles, AtDirectory, RemovalDue
  <2>2. /\ IsFiniteSet(EntryFiles) /\ Cardinality(EntryFiles) = 0
        /\ IsFiniteSet(AtDirectory) /\ Cardinality(AtDirectory) = 0
    BY <2>1, FS_EmptySet
  <2>3. RoomCounted
    BY <2>1, <2>2, CacheConstants DEF RoomCounted
  <2>. QED  BY <2>3 DEF Init, HandlesLinked
<1>. QED  BY <1>1, RoomBoundsFiles, TypesCorrect, StepHandles, StepRoom, PTL DEF Spec

\* For any number of threads, an entry file is half written only under a name whose
\* temporary file two puts had between them: no failing write, leftover or restart
\* makes one.
THEOREM HalfWrittenOnlyIfShared == Spec => []TornOnlyIfShared
<1>1. Init => HandlesLinked /\ WholeUnlessShared
  BY DEF Init, HandlesLinked, WholeUnlessShared, Writers
<1>2. WholeUnlessShared => TornOnlyIfShared
  BY DEF WholeUnlessShared, TornOnlyIfShared, EntryFiles
<1>. QED  BY <1>1, <1>2, TypesCorrect, StepHandles, StepWhole, PTL DEF Spec

-----------------------------------------------------------------------------
(* The refinement: each step of a thread between the one that begins a     *)
(* call and the one that ends it changes nothing a caller sees.            *)

\* The operations of all threads: what the mapping substitutes for `call`.
Operations == [t \in Threads |-> Operation(pc[t])]

\* A thread that goes on to another location changes its own operation only.
LEMMA OperationsStep ==
    ASSUME TypeOK, NEW t \in Threads, NEW l \in Locations, pc' = [pc EXCEPT ![t] = l]
    PROVE  /\ Operations[t] = Operation(pc[t])
           /\ Operations' = [Operations EXCEPT ![t] = Operation(l)]
  BY DEF Operations, TypeOK

\* The entry a lookup() returns is one that was granted, with no more lifetime.
LEMMA GenuineIsGrantedEntry ==
    ASSUME NEW e \in Entry, NEW G \in SUBSET Entry, GrantedBy(G, e)
    PROVE  \E g \in G : /\ g.key = e.key
                        /\ e.expiry \in 0 .. g.expiry
                        /\ e = [g EXCEPT !.expiry = e.expiry]
<1>1. PICK g \in G : g.key = e.key /\ g.version = e.version /\ e.expiry <= g.expiry
  BY DEF GrantedBy
<1>2. g \in Entry /\ g.expiry \in Nat /\ e.expiry \in Nat
  BY DEF Entry
<1>3. e = [g EXCEPT !.expiry = e.expiry]
  BY <1>1, <1>2 DEF Entry
<1>. QED  BY <1>1, <1>2, <1>3

\* The initial states of the cache are initial states of the contract.
LEMMA InitRefines == Init => Contract!Init
<1>. SUFFICES ASSUME Init PROVE Contract!Init
  OBVIOUS
<1>1. key \in [Threads -> Keys]
  BY InitTypes DEF TypeOK
<1>. QED  BY <1>1 DEF Init, Contract!Init, Operation, NoAnswer, NoEntry,
             Contract!NoAnswer, Contract!NoEntry

\* The operation a location belongs to.
LEMMA OperationOf ==
    /\ Operation("idle") = "idle"
    /\ \A l \in {"map", "read", "refill"} : Operation(l) = "lookup"
    /\ \A l \in {"evict", "remove", "open", "write", "rename", "insert"} :
          Operation(l) = "put"
  BY DEF Operation

\* A step that stays within its operation changes nothing the contract speaks of.
LEMMA InnerStep ==
    ASSUME TypeOK, NEW t \in Threads, NEW l \in Locations, pc' = [pc EXCEPT ![t] = l],
           Operation(l) = Operation(pc[t]), UNCHANGED <<clock, granted, key, asked, answer>>
    PROVE  UNCHANGED Contract!vars
<1>1. Operations' = Operations
  BY DEF Operations, TypeOK
<1>. QED  BY <1>1 DEF Operations, Contract!vars

\* A lookup() that ends with a genuine entry of its key, or with a miss, replies.
LEMMA ReplyStep ==
    ASSUME TypeOK, NEW t \in Threads, pc[t] \in {"map", "read", "refill"},
           pc' = [pc EXCEPT ![t] = "idle"], UNCHANGED <<clock, granted, key, asked>>,
           \/ answer' = [answer EXCEPT ![t] = MissAnswer(asked[t])]
           \/ \E e \in Entry :
                 /\ GrantedBy(granted, e)
                 /\ e.key = key[t]
                 /\ answer' = [answer EXCEPT ![t] = LookupAnswer(e, asked[t])]
    PROVE  Contract!Reply(t)
<1>1. Operations[t] = "lookup" /\ Operations' = [Operations EXCEPT ![t] = "idle"]
  <2>. "idle" \in Locations
    BY DEF Locations
  <2>. QED  BY OperationOf, OperationsStep
<1>2. CASE answer' = [answer EXCEPT ![t] = MissAnswer(asked[t])]
  <2>1. MissAnswer(asked[t]) = Contract!Miss(t)
    BY DEF MissAnswer, Contract!Miss, NoEntry, Contract!NoEntry
  <2>. QED  BY <1>1, <1>2, <2>1 DEF Contract!Reply, Operations
<1>3. ASSUME NEW e \in Entry, GrantedBy(granted, e), e.key = key[t],
             answer' = [answer EXCEPT ![t] = LookupAnswer(e, asked[t])]
      PROVE  Contract!Reply(t)
  <2>1. PICK g \in granted : /\ g.key = e.key
                             /\ e.expiry \in 0 .. g.expiry
                             /\ e = [g EXCEPT !.expiry = e.expiry]
    BY <1>3, GenuineIsGrantedEntry DEF TypeOK
  <2>2. LookupAnswer(e, asked[t]) = Contract!Hit(t, g, e.expiry)
    BY <2>1 DEF LookupAnswer, Contract!Hit
  <2>. QED  BY <1>1, <1>3, <2>1, <2>2 DEF Contract!Reply, Operations
<1>. QED  BY <1>2, <1>3

\* Every step of the cache is a step of the contract, or changes nothing in it.
LEMMA StepRefines ==
    TypeOK /\ CallState /\ EntriesGenuine /\ [Next]_vars
        => [Contract!Next]_(Contract!vars)
<1>. SUFFICES ASSUME TypeOK, CallState, EntriesGenuine, [Next]_vars
              PROVE  Contract!Next \/ UNCHANGED Contract!vars
  OBVIOUS
<1>1. ASSUME NEW t \in Threads, NEW k \in Keys, BeginLookup(t, k)
      PROVE  Contract!Ask(t, k)
  <2>1. Operations[t] = "idle" /\ Operations' = [Operations EXCEPT ![t] = "lookup"]
    <3>. "map" \in Locations
      BY DEF Locations
    <3>. QED  BY <1>1, OperationOf, OperationsStep DEF BeginLookup
  <2>2. NoAnswer = Contract!NoAnswer
    BY DEF NoAnswer, NoEntry, Contract!NoAnswer, Contract!NoEntry
  <2>. QED  BY <1>1, <2>1, <2>2 DEF BeginLookup, Operations, Contract!Ask
<1>2. ASSUME NEW t \in Threads, NEW k \in Keys, NEW ttl \in Ttls, BeginPut(t, k, ttl)
      PROVE  Contract!Store(t, k, ttl)
  <2>1. Operations[t] = "idle" /\ Operations' = [Operations EXCEPT ![t] = "put"]
    <3>1. PICK l \in {"evict", "insert"} : pc' = [pc EXCEPT ![t] = l]
      BY <1>2 DEF BeginPut
    <3>2. l \in Locations /\ Operation(l) = "put"
      BY OperationOf DEF Locations
    <3>3. pc[t] = "idle"
      BY <1>2 DEF BeginPut
    <3>4. /\ Operations[t] = Operation(pc[t])
          /\ Operations' = [Operations EXCEPT ![t] = Operation(l)]
      BY <3>1, <3>2, OperationsStep
    <3>. QED  BY <3>2, <3>3, <3>4, OperationOf
  <2>2. NoAnswer = Contract!NoAnswer
    BY DEF NoAnswer, NoEntry, Contract!NoAnswer, Contract!NoEntry
  <2>3. /\ Cardinality(granted) < MaxPuts
        /\ granted' = granted \cup {[key |-> k, version |-> Cardinality(granted) + 1,
                                     expiry |-> clock + ttl]}
        /\ key' = [key EXCEPT ![t] = k]
        /\ answer' = [answer EXCEPT ![t] = NoAnswer]
        /\ UNCHANGED <<clock, asked>>
    BY <1>2 DEF BeginPut
  <2>4. Contract!Cardinality(granted) = Cardinality(granted)
    BY Zenon DEF Cardinality, Contract!Cardinality
  <2>. QED  BY <2>1, <2>2, <2>3, <2>4 DEF Operations, Contract!Store
<1>3. ASSUME NEW t \in Threads, ThreadStep(t)
      PROVE  Contract!Reply(t) \/ Contract!Stored(t) \/ UNCHANGED Contract!vars
  <2>. key[t] \in Keys /\ HashOf[key[t]] \in Paths
    BY CacheConstants DEF TypeOK
  <2>. GenuineMemory /\ GenuineHeld
    BY GenuineParts
  <2>1. CASE LookupMap(t)
    <3>1. CASE memory[key[t]] # NoEntry
      <4>1. /\ memory[key[t]] \in Entry
            /\ GrantedBy(granted, memory[key[t]])
            /\ memory[key[t]].key = key[t]
        BY <3>1 DEF GenuineMemory, TypeOK
      <4>. QED  BY <2>1, <3>1, <4>1, ReplyStep DEF LookupMap
    <3>2. CASE memory[key[t]] = NoEntry
      BY <2>1, <3>2, InnerStep, OperationOf DEF LookupMap, Locations
    <3>. QED  BY <3>1, <3>2
  <2>2. CASE ReadFile(t)
    <3>1. CASE Decodes(disk[HashOf[key[t]]], key[t])
      BY <2>2, <3>1, InnerStep, OperationOf DEF ReadFile, Locations
    <3>2. CASE ~Decodes(disk[HashOf[key[t]]], key[t])
      BY <2>2, <3>2, ReplyStep DEF ReadFile
    <3>. QED  BY <3>1, <3>2
  <2>3. CASE Refill(t)
    <3>1. held[t] \in Entry /\ held[t] # NoEntry
      BY <2>3, NoEntryIsNone DEF Refill, CallState, Locations
    <3>2. GrantedBy(granted, held[t]) /\ held[t].key = key[t]
      BY <3>1 DEF GenuineHeld
    <3>. QED  BY <2>3, <3>1, <3>2, ReplyStep DEF Refill
  <2>4. CASE PutMap(t)
    <3>1. Operations[t] = "put" /\ Operations' = [Operations EXCEPT ![t] = "idle"]
      <4>. "idle" \in Locations
        BY DEF Locations
      <4>. QED  BY <2>4, OperationOf, OperationsStep DEF PutMap
    <3>. QED  BY <2>4, <3>1 DEF PutMap, Operations, Contract!Stored
  <2>5. CASE \/ EvictScan(t) \/ EvictRemove(t) \/ OpenTmp(t) \/ WriteTmp(t)
             \/ WriteFails(t) \/ RenameTmp(t)
    <3>1. PICK l \in {"remove", "open", "write", "rename", "insert"} :
             pc' = [pc EXCEPT ![t] = l]
      BY <2>5 DEF EvictScan, EvictRemove, OpenTmp, WriteTmp, WriteFails, RenameTmp
    <3>2. /\ pc[t] \in {"evict", "remove", "open", "write", "rename", "insert"}
          /\ UNCHANGED <<clock, granted, key, asked, answer>>
      BY <2>5 DEF EvictScan, EvictRemove, OpenTmp, WriteTmp, WriteFails, RenameTmp
    <3>3. l \in Locations /\ Operation(l) = Operation(pc[t])
      BY <3>1, <3>2, OperationOf DEF Locations
    <3>. QED  BY <3>1, <3>2, <3>3, InnerStep
  <2>. QED  BY <1>3, <2>1, <2>2, <2>3, <2>4, <2>5 DEF ThreadStep
<1>4. CASE Tick
  BY <1>4 DEF Tick, Contract!Tick, Contract!Next
<1>5. CASE Restart
  <2>1. Operations' = [t \in Threads |-> "idle"]
    BY <1>5, OperationOf DEF Restart, Operations
  <2>2. NoAnswer = Contract!NoAnswer
    BY DEF NoAnswer, NoEntry, Contract!NoAnswer, Contract!NoEntry
  <2>. QED  BY <1>5, <2>1, <2>2 DEF Restart, Operations, Contract!Restart, Contract!Next
<1>6. CASE UNCHANGED vars
  BY <1>6 DEF vars, Contract!vars
<1>. QED
  BY <1>1, <1>2, <1>3, <1>4, <1>5, <1>6 DEF Next, Contract!Next

\* Callers of lookup() and put() of cache.rs see no more than the contract allows:
\* whatever threads, colliding file names, failing writes and restarts do, a lookup()
\* returns none or a response that was stored for its key, and calls it fresh only
\* within the lifetime it was granted.
THEOREM CacheImplementsContract == Spec => ImplementsContract
  BY InitRefines, StepRefines, TypesCorrect, EntriesStayGenuine, PTL
     DEF Spec, ImplementsContract, Contract!Spec
=============================================================================

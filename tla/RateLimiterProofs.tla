------------------------- MODULE RateLimiterProofs -------------------------
(***************************************************************************)
(* Proofs about RateLimiter for any number of requests and clients, any    *)
(* window and any limit: however late readings of the clock reach check(), *)
(* a client is admitted at most max times per window begun, and is refused *)
(* only after max admissions within a window's length.                     *)
(***************************************************************************)
EXTENDS RateLimiter, SequenceTheorems, TLAPS

\* No reading is from the future: neither one on its way to check() nor the one
\* that opened a client's window.
ReadingsPast ==
    /\ \A r \in Requests : call[r].now_ms <= clock
    /\ \A c \in Clients : windows[c] # NoWindow => windows[c].start_ms <= clock

\* Window w counts the last admissions of a log, all of them made after the reading
\* that opened the window.
Counts(w, admissions) ==
    LET n == Len(admissions) IN
    /\ w.count <= n
    /\ \A i \in n - w.count + 1 .. n : admissions[i].at >= w.start_ms

WindowsCount ==
    \A c \in Clients : windows[c] # NoWindow => Counts(windows[c], log[c])

\* The inductive invariant for refusals.
RefusalInv == TypeOK /\ ReadingsPast /\ WindowsCount /\ RefusedJustly

\* Window w is the begun-th or a later one of a client: each of the ones before it
\* has let MaxEvents events pass at most, and was over when the next was opened.
Begun(w, length, first, begun) ==
    /\ length <= MaxEvents * (begun - 1) + w.count
    /\ first + (begun - 1) * WindowMs <= w.start_ms

WindowsBegun ==
    \A c \in Clients :
       /\ (log[c] = <<>>) <=> (windows[c] = NoWindow)
       /\ log[c] # <<>> =>
             \E begun \in Nat \ {0} :
                Begun(windows[c], Len(log[c]), log[c][1].now_ms, begun)

-----------------------------------------------------------------------------
(* Lemmas about the operators.                                             *)

\* w is a new window of client c, which had none or one that has ended.
Opened(c, now, w) ==
    /\ w = [start_ms |-> now, count |-> 0]
    /\ windows[c] = NoWindow \/ now - windows[c].start_ms >= WindowMs

\* What check() works with after it has looked at the time.
LEMMA RolledWindow ==
    ASSUME TypeOK, ReadingsPast, NEW r \in Requests
    PROVE  LET now == call[r].now_ms
               w == Rolled(Entry(call[r].key, now), now)
           IN /\ w \in Window
              /\ w.start_ms <= clock
              /\ now - w.start_ms < WindowMs
              /\ \/ w = windows[call[r].key]
                 \/ Opened(call[r].key, now, w)
<1>. DEFINE c == call[r].key
            now == call[r].now_ms
            e == Entry(c, now)
<1>1. c \in Clients /\ now \in Time /\ now <= clock /\ clock \in Time
  BY DEF TypeOK, Call, ReadingsPast
<1>2. [start_ms |-> now, count |-> 0] \in Window
  BY <1>1, LimiterConstants DEF Window, Time
<1>3. CASE windows[c] = NoWindow
  BY <1>1, <1>2, <1>3, LimiterConstants DEF Entry, Rolled, Opened, Time
<1>4. CASE windows[c] # NoWindow
  <2>1. /\ windows[c] \in Window /\ windows[c].start_ms <= clock
        /\ windows[c].start_ms \in Time
    BY <1>1, <1>4 DEF TypeOK, ReadingsPast, Window
  <2>. QED  BY <1>1, <1>2, <1>4, <2>1, LimiterConstants DEF Entry, Rolled, Opened, Time
<1>. QED  BY <1>3, <1>4

\* check() counts an event in window w, or refuses one that w has no room for.
Admits(c, now, w) ==
    /\ w.count < MaxEvents
    /\ windows' = [windows EXCEPT ![c] = [w EXCEPT !.count = @ + 1]]
    /\ log' = [log EXCEPT ![c] = Append(log[c], [at |-> clock, now_ms |-> now])]
    /\ refused' = refused

Refuses(c, now, w) ==
    /\ w.count = MaxEvents
    /\ windows[c] = w
    /\ windows' = windows
    /\ refused' = [refused EXCEPT ![c] = now]
    /\ log' = log

\* The window of a call of check(), and what is known of it.
WindowOf(r) == Rolled(Entry(call[r].key, call[r].now_ms), call[r].now_ms)

Fits(c, now, w) ==
    /\ c \in Clients /\ now \in Time /\ now <= clock
    /\ w \in Window /\ w.start_ms <= clock /\ now - w.start_ms < WindowMs
    /\ w = windows[c] \/ Opened(c, now, w)

CallsAfter ==
    /\ call' \in [Requests -> Call]
    /\ \A q \in Requests : call'[q].now_ms \in {0, call[q].now_ms}

\* check() does one or the other.
LEMMA CheckOutcome ==
    ASSUME TypeOK, ReadingsPast, NEW r \in Requests, Check(r)
    PROVE  /\ Fits(call[r].key, call[r].now_ms, WindowOf(r))
           /\ CallsAfter
           /\ clock' = clock
           /\ \/ Admits(call[r].key, call[r].now_ms, WindowOf(r))
              \/ Refuses(call[r].key, call[r].now_ms, WindowOf(r))
<1>. DEFINE c == call[r].key
            now == call[r].now_ms
            w == WindowOf(r)
<1>1. c \in Clients /\ now \in Time /\ now <= clock
  BY DEF TypeOK, Call, ReadingsPast
<1>2. /\ w \in Window /\ w.start_ms <= clock /\ now - w.start_ms < WindowMs
      /\ w = windows[c] \/ Opened(c, now, w)
  BY RolledWindow DEF WindowOf
<1>3. w.count \in 0 .. MaxEvents
  BY <1>2 DEF Window
<1>4. call' = [call EXCEPT ![r].stage = "idle", ![r].now_ms = 0] /\ clock' = clock
  BY DEF Check
<1>5. CallsAfter
  <2>1. call \in [Requests -> Call] /\ 0 \in Time
    BY LimiterConstants DEF TypeOK, Time
  <2>2. call' \in [Requests -> Call]
    BY <1>4, <2>1 DEF Call
  <2>3. \A q \in Requests : call'[q].now_ms \in {0, call[q].now_ms}
    BY <1>4, <2>1 DEF Call
  <2>. QED  BY <2>2, <2>3 DEF CallsAfter
<1>6. ASSUME w.count < MaxEvents
      PROVE  Admits(c, now, w)
  <2>1. /\ windows' = [windows EXCEPT ![c] = [w EXCEPT !.count = @ + 1]]
        /\ log' = [log EXCEPT ![c] = Append(@, [at |-> clock, now_ms |-> now])]
        /\ refused' = refused
    BY <1>6, Zenon DEF Check, Within, WindowOf
  <2>. QED  BY <1>6, <2>1, Zenon DEF Admits
<1>7. ASSUME ~(w.count < MaxEvents)
      PROVE  Refuses(c, now, w)
  <2>1. w.count = MaxEvents /\ w = windows[c]
    BY <1>2, <1>3, <1>7, LimiterConstants DEF Opened
  <2>2. /\ windows' = [windows EXCEPT ![c] = w]
        /\ refused' = [refused EXCEPT ![c] = now]
        /\ log' = log
    BY <1>7, Zenon DEF Check, Within, WindowOf
  <2>3. windows' = windows
    BY <1>1, <2>1, <2>2 DEF TypeOK
  <2>. QED  BY <2>1, <2>2, <2>3, Zenon DEF Refuses
<1>8. Fits(c, now, w)
  BY <1>1, <1>2 DEF Fits
<1>. QED  BY <1>4, <1>5, <1>6, <1>7, <1>8, Zenon

-----------------------------------------------------------------------------
(* Types.                                                                  *)

\* Every step keeps the types, and no reading gets into the future.
LEMMA StepTypes ==
    TypeOK /\ ReadingsPast /\ [Next]_vars => TypeOK' /\ ReadingsPast'
<1>. SUFFICES ASSUME TypeOK, ReadingsPast, [Next]_vars
              PROVE  TypeOK' /\ ReadingsPast'
  OBVIOUS
<1>1. ASSUME NEW r \in Requests, NEW c \in Clients, ReadClock(r, c)
      PROVE  TypeOK' /\ ReadingsPast'
  BY <1>1 DEF ReadClock, TypeOK, ReadingsPast, Call, Time
<1>2. ASSUME NEW r \in Requests, Check(r)
      PROVE  TypeOK' /\ ReadingsPast'
  <2>. DEFINE c == call[r].key
              now == call[r].now_ms
              w == WindowOf(r)
  <2>1. /\ Fits(c, now, w)
        /\ CallsAfter
        /\ clock' = clock
        /\ Admits(c, now, w) \/ Refuses(c, now, w)
    BY <1>2, CheckOutcome
  <2>. HIDE DEF c, now, w
  <2>2. /\ c \in Clients /\ now \in Time /\ now <= clock /\ clock \in Time
        /\ w \in Window /\ w.start_ms <= clock
        /\ w.start_ms \in Time /\ w.count \in 0 .. MaxEvents
    BY <2>1 DEF Fits, Window, TypeOK
  <2>3. call' \in [Requests -> Call]
    BY <2>1 DEF CallsAfter
  <2>4. \A q \in Requests : call'[q].now_ms <= clock'
    <3>1. \A q \in Requests : call'[q].now_ms \in {0, call[q].now_ms}
      BY <2>1 DEF CallsAfter
    <3>2. \A q \in Requests : call[q].now_ms <= clock
      BY DEF ReadingsPast
    <3>3. clock \in Nat /\ 0 <= clock
      BY <2>2 DEF Time
    <3>. QED  BY <2>1, <3>1, <3>2, <3>3
  <2>5. CASE Admits(c, now, w)
    <3>1. /\ [w EXCEPT !.count = @ + 1] \in Window
          /\ [w EXCEPT !.count = @ + 1].start_ms = w.start_ms
      BY <2>2, <2>5, LimiterConstants DEF Admits, Window
    <3>2. windows' \in [Clients -> Window \cup {NoWindow}]
      BY <2>5, <3>1 DEF Admits, TypeOK
    <3>3. \A d \in Clients : windows'[d] # NoWindow => windows'[d].start_ms <= clock'
      BY <2>1, <2>2, <2>5, <3>1 DEF Admits, TypeOK, ReadingsPast
    <3>4. [at |-> clock, now_ms |-> now] \in Admission
      BY <2>2 DEF Admission
    <3>5. Append(log[c], [at |-> clock, now_ms |-> now]) \in Seq(Admission)
      BY <2>2, <3>4, AppendProperties DEF TypeOK
    <3>6. log' \in [Clients -> Seq(Admission)]
      BY <2>5, <3>5 DEF Admits, TypeOK
    <3>. QED  BY <2>1, <2>3, <2>4, <2>5, <3>2, <3>3, <3>6
              DEF TypeOK, ReadingsPast, Admits
  <2>6. CASE Refuses(c, now, w)
    <3>1. refused' \in [Clients -> -1 .. MaxTime]
      BY <2>2, <2>6, LimiterConstants DEF Refuses, TypeOK, Time
    <3>. QED  BY <2>1, <2>3, <2>4, <2>6, <3>1 DEF TypeOK, ReadingsPast, Refuses
  <2>. QED  BY <2>1, <2>5, <2>6
<1>3. CASE Tick
  BY <1>3, LimiterConstants DEF Tick, TypeOK, ReadingsPast, Time, Call, Window
<1>4. CASE UNCHANGED vars
  BY <1>4 DEF vars, TypeOK, ReadingsPast
<1>. QED  BY <1>1, <1>2, <1>3, <1>4 DEF Next

\* The initial state has the types.
LEMMA InitTypes == Init => TypeOK /\ ReadingsPast
  BY LimiterConstants DEF Init, TypeOK, ReadingsPast, Time, Call

\* The types are right in every reachable state, and no reading is from the future.
THEOREM TypesCorrect == Spec => [](TypeOK /\ ReadingsPast)
  BY InitTypes, StepTypes, PTL DEF Spec

-----------------------------------------------------------------------------
(* Refusals.                                                               *)

\* What an admission does to the log of its client.
LEMMA LogAppended ==
    ASSUME TypeOK, NEW c \in Clients, NEW now \in Time, NEW w \in Window,
           Admits(c, now, w)
    PROVE  /\ Len(log[c]) \in Nat
           /\ Len(log'[c]) = Len(log[c]) + 1
           /\ \A i \in 1 .. Len(log[c]) : log'[c][i] = log[c][i]
           /\ log'[c][Len(log[c]) + 1] = [at |-> clock, now_ms |-> now]
           /\ \A d \in Clients \ {c} : log'[d] = log[d] /\ windows'[d] = windows[d]
           /\ windows'[c] = [w EXCEPT !.count = @ + 1]
<1>. DEFINE a == [at |-> clock, now_ms |-> now]
<1>1. log[c] \in Seq(Admission) /\ a \in Admission
  BY DEF TypeOK, Admission
<1>2. log'[c] = Append(log[c], a)
  BY DEF Admits, TypeOK
<1>3. \A d \in Clients \ {c} : log'[d] = log[d] /\ windows'[d] = windows[d]
  BY DEF Admits, TypeOK
<1>4. windows'[c] = [w EXCEPT !.count = @ + 1]
  BY DEF Admits, TypeOK
<1>. HIDE DEF a
<1>5. /\ Len(log[c]) \in Nat
      /\ Len(log'[c]) = Len(log[c]) + 1
      /\ \A i \in 1 .. Len(log[c]) : log'[c][i] = log[c][i]
      /\ log'[c][Len(log[c]) + 1] = a
  BY <1>1, <1>2, AppendProperties
<1>. QED  BY <1>3, <1>4, <1>5 DEF a

\* The new entry of the log and the new count of a window.
LEMMA CountedWindow ==
    ASSUME NEW w \in Window
    PROVE  /\ [w EXCEPT !.count = @ + 1].count = w.count + 1
           /\ [w EXCEPT !.count = @ + 1].start_ms = w.start_ms
           /\ w.count \in Nat /\ w.start_ms \in Nat
           /\ w # NoWindow
  BY LimiterConstants DEF Window, Time

\* check() keeps the windows' counts true to the log.
LEMMA StepCounts ==
    TypeOK /\ ReadingsPast /\ WindowsCount /\ [Next]_vars => WindowsCount'
<1>. SUFFICES ASSUME TypeOK, ReadingsPast, WindowsCount, [Next]_vars
              PROVE  WindowsCount'
  OBVIOUS
<1>1. ASSUME UNCHANGED <<windows, log>>
      PROVE  WindowsCount'
  BY <1>1 DEF WindowsCount
<1>2. ASSUME NEW r \in Requests, Check(r)
      PROVE  WindowsCount'
  <2>. DEFINE c == call[r].key
              now == call[r].now_ms
              w == WindowOf(r)
  <2>1. Fits(c, now, w) /\ (Admits(c, now, w) \/ Refuses(c, now, w))
    BY <1>2, CheckOutcome
  <2>. HIDE DEF c, now, w
  <2>2. CASE Refuses(c, now, w)
    BY <2>2, <1>1 DEF Refuses
  <2>3. CASE Admits(c, now, w)
    <3>. DEFINE v == [w EXCEPT !.count = @ + 1]
                n == Len(log[c])
    <3>1. /\ c \in Clients /\ now \in Time /\ w \in Window
          /\ clock \in Nat /\ w.start_ms <= clock
      BY <2>1 DEF Fits, TypeOK, Time
    <3>2. /\ n \in Nat /\ Len(log'[c]) = n + 1
          /\ \A i \in 1 .. n : log'[c][i] = log[c][i]
          /\ log'[c][n + 1] = [at |-> clock, now_ms |-> now]
          /\ \A d \in Clients \ {c} : log'[d] = log[d] /\ windows'[d] = windows[d]
          /\ windows'[c] = v
      BY <2>3, <3>1, LogAppended
    <3>3. /\ v.count = w.count + 1 /\ v.start_ms = w.start_ms
          /\ w.count \in Nat /\ w.start_ms \in Nat /\ w # NoWindow
      BY <3>1, CountedWindow
    <3>. HIDE DEF v
    <3>4. Counts(w, log[c])
      <4>1. CASE w = windows[c]
        BY <3>1, <3>3, <4>1 DEF WindowsCount
      <4>2. CASE w.count = 0
        BY <3>2, <4>2 DEF Counts
      <4>. QED  BY <2>1, <4>1, <4>2 DEF Fits, Opened
    <3>5. Counts(v, log'[c])
      <4>1. v.count <= n + 1
        BY <3>2, <3>3, <3>4 DEF Counts
      <4>2. ASSUME NEW i \in n + 1 - v.count + 1 .. n + 1
            PROVE  log'[c][i].at >= v.start_ms
        <5>1. CASE i = n + 1
          BY <3>1, <3>2, <3>3, <5>1
        <5>2. CASE i # n + 1
          <6>1. w.count <= n /\ n \in Nat /\ w.count \in Nat /\ v.count = w.count + 1
            BY <3>2, <3>3, <3>4 DEF Counts
          <6>. HIDE DEF n
          <6>2. i \in n - w.count + 1 .. n /\ i \in 1 .. n
            BY <4>2, <5>2, <6>1
          <6>3. log[c][i].at >= w.start_ms
            BY <3>4, <6>2 DEF Counts, n
          <6>. QED  BY <3>2, <3>3, <6>2, <6>3
        <5>. QED  BY <5>1, <5>2
      <4>3. Len(log'[c]) = n + 1 /\ n \in Nat /\ v.count \in Nat
        BY <3>2, <3>3
      <4>. HIDE DEF n
      <4>. QED  BY <4>1, <4>2, <4>3 DEF Counts
    <3>6. ASSUME NEW d \in Clients, windows'[d] # NoWindow
          PROVE  Counts(windows'[d], log'[d])
      <4>1. CASE d = c
        BY <3>2, <3>5, <4>1
      <4>2. CASE d # c
        <5>1. log'[d] = log[d] /\ windows'[d] = windows[d]
          BY <3>2, <4>2
        <5>. QED  BY <3>6, <5>1 DEF WindowsCount
      <4>. QED  BY <4>1, <4>2
    <3>. QED  BY <3>6 DEF WindowsCount
  <2>. QED  BY <2>1, <2>2, <2>3
<1>. QED  BY <1>1, <1>2 DEF Next, ReadClock, Tick, vars

\* What RefusedJustly says of one client.
Justly(reading, admissions) ==
    \E n \in DOMAIN admissions :
       /\ n >= MaxEvents
       /\ \A i \in n - MaxEvents + 1 .. n : admissions[i].at > reading - WindowMs

\* An admission adds to the log and leaves the refusals; a refusal is one of a full
\* window.
LEMMA StepRefusals ==
    RefusalInv /\ [Next]_vars => RefusedJustly'
<1>. SUFFICES ASSUME RefusalInv, [Next]_vars
              PROVE  RefusedJustly'
  OBVIOUS
<1>. USE DEF RefusalInv
<1>1. ASSUME UNCHANGED <<refused, log>>
      PROVE  RefusedJustly'
  BY <1>1 DEF RefusedJustly
<1>2. ASSUME NEW r \in Requests, Check(r)
      PROVE  RefusedJustly'
  <2>. DEFINE c == call[r].key
              now == call[r].now_ms
              w == WindowOf(r)
  <2>1. Fits(c, now, w) /\ (Admits(c, now, w) \/ Refuses(c, now, w))
    BY <1>2, CheckOutcome
  <2>. HIDE DEF c, now, w
  <2>2. /\ c \in Clients /\ now \in Time /\ w \in Window
        /\ now - w.start_ms < WindowMs
        /\ w.start_ms \in Nat /\ w # NoWindow
    BY <2>1, CountedWindow DEF Fits
  <2>3. SUFFICES ASSUME NEW d \in Clients, refused'[d] >= 0
                 PROVE  Justly(refused'[d], log'[d])
    BY DEF RefusedJustly, Justly
  <2>4. refused[d] >= 0 => Justly(refused[d], log[d])
    BY DEF RefusedJustly, Justly
  <2>5. CASE Admits(c, now, w)
    <3>1. refused'[d] = refused[d] /\ Justly(refused[d], log[d])
      BY <2>3, <2>4, <2>5 DEF Admits
    <3>2. CASE d # c
      <4>1. log'[d] = log[d]
        BY <2>2, <2>5, <3>2 DEF Admits, TypeOK
      <4>. QED  BY <3>1, <4>1
    <3>3. CASE d = c
      <4>1. /\ Len(log[d]) \in Nat /\ Len(log'[d]) = Len(log[d]) + 1
            /\ \A i \in 1 .. Len(log[d]) : log'[d][i] = log[d][i]
            /\ log[d] \in Seq(Admission) /\ log'[d] \in Seq(Admission)
        BY <2>2, <2>5, <3>3, LogAppended, StepTypes DEF TypeOK
      <4>2. PICK n \in DOMAIN log[d] :
               /\ n >= MaxEvents
               /\ \A i \in n - MaxEvents + 1 .. n : log[d][i].at > refused[d] - WindowMs
        BY <3>1 DEF Justly
      <4>3. n \in 1 .. Len(log[d]) /\ n \in DOMAIN log'[d]
        BY <4>1
      <4>4. ASSUME NEW i \in n - MaxEvents + 1 .. n
            PROVE  log'[d][i].at > refused[d] - WindowMs
        <5>1. i \in 1 .. Len(log[d])
          BY <4>1, <4>2, <4>3, LimiterConstants
        <5>2. log'[d][i] = log[d][i]
          BY <4>1, <5>1
        <5>. QED  BY <4>2, <5>2
      <4>. QED  BY <3>1, <4>2, <4>3, <4>4 DEF Justly
    <3>. QED  BY <3>2, <3>3
  <2>6. CASE Refuses(c, now, w)
    <3>1. CASE d # c
      <4>1. refused'[d] = refused[d] /\ log'[d] = log[d]
        BY <2>2, <2>6, <3>1 DEF Refuses, TypeOK
      <4>. QED  BY <2>3, <2>4, <4>1
    <3>2. CASE d = c
      <4>1. refused'[d] = now /\ log'[d] = log[d] /\ windows[c] = w /\ w.count = MaxEvents
        BY <2>2, <2>6, <3>2 DEF Refuses, TypeOK
      <4>2. Counts(w, log[d])
        BY <2>2, <3>2, <4>1 DEF WindowsCount
      <4>3. log[d] \in Seq(Admission) /\ Len(log[d]) \in Nat
        BY DEF TypeOK
      <4>4. Len(log[d]) \in DOMAIN log[d] /\ Len(log[d]) >= MaxEvents
        BY <4>1, <4>2, <4>3, LimiterConstants DEF Counts
      <4>5. ASSUME NEW i \in Len(log[d]) - MaxEvents + 1 .. Len(log[d])
            PROVE  log[d][i].at > now - WindowMs
        <5>1. i \in DOMAIN log[d]
          BY <4>3, <4>4, LimiterConstants
        <5>2. log[d][i].at \in Nat
          <6>1. log[d][i] \in Admission
            BY <4>3, <5>1
          <6>. QED  BY <6>1 DEF Admission, Time
        <5>3. log[d][i].at >= w.start_ms
          <6>. DEFINE n == Len(log[d])
          <6>1. \A j \in n - w.count + 1 .. n : log[d][j].at >= w.start_ms
            BY <4>2, Zenon DEF Counts
          <6>. QED  BY <4>1, <6>1
        <5>. QED  BY <2>2, <5>2, <5>3, LimiterConstants DEF Time
      <4>. QED  BY <4>1, <4>4, <4>5 DEF Justly
    <3>. QED  BY <3>1, <3>2
  <2>. QED  BY <2>1, <2>5, <2>6
<1>. QED  BY <1>1, <1>2 DEF Next, ReadClock, Tick, vars

\* A client is refused only after MaxEvents admissions within a window's length of
\* the reading that is refused, however many requests wait for the mutex with
\* readings however old.
THEOREM RefusalsJust == Spec => []RefusedJustly
<1>1. Init => RefusalInv
  BY InitTypes DEF Init, RefusalInv, WindowsCount, RefusedJustly
<1>2. RefusalInv /\ [Next]_vars => RefusalInv'
  BY StepTypes, StepCounts, StepRefusals DEF RefusalInv
<1>3. RefusalInv => RefusedJustly
  BY DEF RefusalInv
<1>. QED  BY <1>1, <1>2, <1>3, PTL DEF Spec

-----------------------------------------------------------------------------
(* Admissions.                                                             *)

\* The products in Begun: the least a number of windows takes ...
LEMMA Products ==
    ASSUME NEW b \in Nat \ {0}
    PROVE  /\ MaxEvents * (b - 1) \in Nat /\ (b - 1) * WindowMs \in Nat
           /\ MaxEvents * b = MaxEvents * (b - 1) + MaxEvents
           /\ b - 1 <= (b - 1) * WindowMs
<1>1. PICK k \in Nat : b = k + 1
  BY DEF Nat
<1>2. b - 1 = k
  BY <1>1
<1>3. MaxEvents * k \in Nat /\ k * WindowMs \in Nat
  BY LimiterConstants
<1>4. MaxEvents * (k + 1) = MaxEvents * k + MaxEvents
  BY LimiterConstants
<1>5. k <= k * WindowMs
  BY LimiterConstants
<1>. QED  BY <1>1, <1>2, <1>3, <1>4, <1>5

\* ... and one more window.
LEMMA OneMoreWindow ==
    ASSUME NEW b \in Nat \ {0}
    PROVE  /\ MaxEvents * ((b + 1) - 1) = MaxEvents * (b - 1) + MaxEvents
           /\ ((b + 1) - 1) * WindowMs = (b - 1) * WindowMs + WindowMs
<1>1. PICK k \in Nat : b = k + 1
  BY DEF Nat
<1>2. b - 1 = k /\ (b + 1) - 1 = k + 1
  BY <1>1
<1>3. MaxEvents * (k + 1) = MaxEvents * k + MaxEvents
  BY LimiterConstants
<1>4. (k + 1) * WindowMs = k * WindowMs + WindowMs
  BY LimiterConstants
<1>. QED  BY <1>2, <1>3, <1>4

\* An event counted in the window in which it comes.
LEMMA BegunSame ==
    ASSUME NEW b \in Nat \ {0}, NEW w, NEW v, NEW n \in Nat, NEW first \in Nat,
           w.count \in Nat, w.start_ms \in Nat,
           v.count = w.count + 1, v.start_ms = w.start_ms,
           Begun(w, n, first, b)
    PROVE  Begun(v, n + 1, first, b)
<1>. DEFINE P == MaxEvents * (b - 1)
            Q == (b - 1) * WindowMs
<1>1. P \in Nat /\ Q \in Nat
  BY Products
<1>2. n <= P + w.count /\ first + Q <= w.start_ms
  BY DEF Begun
<1>3. (n + 1 <= P + v.count /\ first + Q <= v.start_ms) => Begun(v, n + 1, first, b)
  BY Zenon DEF Begun
<1>. HIDE DEF P, Q
<1>. QED  BY <1>1, <1>2, <1>3

\* The first event of the window opened after the end of window w.
LEMMA BegunNext ==
    ASSUME NEW b \in Nat \ {0}, NEW w, NEW v, NEW n \in Nat, NEW first \in Nat,
           w.count \in 0 .. MaxEvents, w.start_ms \in Nat,
           v.count = 1, v.start_ms \in Nat, v.start_ms - w.start_ms >= WindowMs,
           Begun(w, n, first, b)
    PROVE  Begun(v, n + 1, first, b + 1)
<1>. DEFINE P == MaxEvents * (b - 1)
            Q == (b - 1) * WindowMs
            R == MaxEvents * ((b + 1) - 1)
            S == ((b + 1) - 1) * WindowMs
<1>1. P \in Nat /\ Q \in Nat
  BY Products
<1>2. R = P + MaxEvents /\ S = Q + WindowMs
  BY OneMoreWindow
<1>3. n <= P + w.count /\ first + Q <= w.start_ms
  BY DEF Begun
<1>4. (n + 1 <= R + v.count /\ first + S <= v.start_ms) => Begun(v, n + 1, first, b + 1)
  BY Zenon DEF Begun
<1>. HIDE DEF P, Q, R, S
<1>. QED  BY <1>1, <1>2, <1>3, <1>4, LimiterConstants

\* The very first event of a client.
LEMMA BegunFirst ==
    ASSUME NEW v, NEW first \in Nat, v.count = 1, v.start_ms = first
    PROVE  Begun(v, 1, first, 1)
<1>1. MaxEvents * (1 - 1) = 0 /\ (1 - 1) * WindowMs = 0
  BY LimiterConstants
<1>2. 1 <= 0 + v.count /\ first + 0 <= v.start_ms
  OBVIOUS
<1>. QED  BY <1>1, <1>2 DEF Begun

\* check() opens a new window only when the last one has ended.
LEMMA StepBegun ==
    TypeOK /\ ReadingsPast /\ WindowsBegun /\ [Next]_vars => WindowsBegun'
<1>. SUFFICES ASSUME TypeOK, ReadingsPast, WindowsBegun, [Next]_vars
              PROVE  WindowsBegun'
  OBVIOUS
<1>1. ASSUME UNCHANGED <<windows, log>>
      PROVE  WindowsBegun'
  BY <1>1 DEF WindowsBegun
<1>2. ASSUME NEW r \in Requests, Check(r)
      PROVE  WindowsBegun'
  <2>. DEFINE c == call[r].key
              now == call[r].now_ms
              w == WindowOf(r)
  <2>1. Fits(c, now, w) /\ (Admits(c, now, w) \/ Refuses(c, now, w))
    BY <1>2, CheckOutcome
  <2>. HIDE DEF c, now, w
  <2>2. CASE Refuses(c, now, w)
    BY <2>2, <1>1 DEF Refuses
  <2>3. CASE Admits(c, now, w)
    <3>. DEFINE v == [w EXCEPT !.count = @ + 1]
                n == Len(log[c])
    <3>1. /\ c \in Clients /\ now \in Nat /\ w \in Window /\ now \in Time
          /\ w = windows[c] \/ Opened(c, now, w)
      BY <2>1 DEF Fits, Time
    <3>2. /\ n \in Nat /\ Len(log'[c]) = n + 1
          /\ \A i \in 1 .. n : log'[c][i] = log[c][i]
          /\ log'[c][n + 1] = [at |-> clock, now_ms |-> now]
          /\ \A d \in Clients \ {c} : log'[d] = log[d] /\ windows'[d] = windows[d]
          /\ windows'[c] = v
      BY <2>3, <3>1, LogAppended
    <3>3. /\ v.count = w.count + 1 /\ v.start_ms = w.start_ms
          /\ w.count \in Nat /\ w.start_ms \in Nat /\ w # NoWindow
      BY <3>1, CountedWindow
    <3>4. v # NoWindow
      <4>1. v \in [start_ms : Nat, count : Nat]
        BY <3>1 DEF Window, Time
      <4>. QED  BY <4>1, LimiterConstants
    <3>. HIDE DEF v
    <3>5. log'[c] # <<>> /\ log[c] \in Seq(Admission) /\ (n = 0 <=> log[c] = <<>>)
      BY <3>1, <3>2 DEF TypeOK
    <3>. HIDE DEF n
    <3>6. \E b \in Nat \ {0} : Begun(v, n + 1, log'[c][1].now_ms, b)
      <4>1. CASE log[c] = <<>>
        <5>1. w.count = 0 /\ w.start_ms = now
          BY <3>1, <3>3, <4>1 DEF WindowsBegun, Opened
        <5>2. log'[c][1].now_ms = now /\ n = 0
          BY <3>2, <3>5, <4>1
        <5>3. v.count = 1 /\ v.start_ms = now
          BY <3>3, <5>1
        <5>4. Begun(v, 1, now, 1)
          BY <3>1, <5>3, BegunFirst
        <5>. QED  BY <5>2, <5>4
      <4>2. CASE log[c] # <<>>
        <5>. DEFINE first == log[c][1].now_ms
        <5>1. PICK b \in Nat \ {0} : Begun(windows[c], n, first, b)
          BY <3>1, <4>2 DEF WindowsBegun, n
        <5>2. /\ windows[c] \in Window /\ windows[c].count \in 0 .. MaxEvents
              /\ windows[c].start_ms \in Nat
          BY <3>1, <4>2 DEF WindowsBegun, TypeOK, Window, Time
        <5>3. log'[c][1] = log[c][1]
          BY <3>2, <3>5, <4>2
        <5>4. first \in Nat
          <6>1. log[c][1] \in Admission
            BY <3>5, <4>2
          <6>. QED  BY <6>1 DEF Admission, Time
        <5>. HIDE DEF first
        <5>5. CASE w = windows[c]
          <6>1. Begun(v, n + 1, first, b)
            BY <3>2, <3>3, <5>1, <5>4, <5>5, BegunSame
          <6>. QED  BY <5>3, <6>1 DEF first
        <5>6. CASE Opened(c, now, w)
          <6>1. w.count = 0 /\ w.start_ms = now /\ now - windows[c].start_ms >= WindowMs
            BY <3>1, <4>2, <5>6 DEF WindowsBegun, Opened
          <6>2. v.count = 1 /\ v.start_ms = now
            BY <3>3, <6>1
          <6>3. Begun(v, n + 1, first, b + 1)
            BY <3>1, <3>2, <5>1, <5>2, <5>4, <6>1, <6>2, BegunNext
          <6>4. b + 1 \in Nat \ {0}
            OBVIOUS
          <6>. QED  BY <5>3, <6>3, <6>4 DEF first
        <5>. QED  BY <3>1, <5>5, <5>6
      <4>. QED  BY <4>1, <4>2
    <3>7. \E b \in Nat \ {0} : Begun(windows'[c], Len(log'[c]), log'[c][1].now_ms, b)
      BY <3>2, <3>6
    <3>8. ASSUME NEW d \in Clients
          PROVE  /\ (log'[d] = <<>>) <=> (windows'[d] = NoWindow)
                 /\ log'[d] # <<>> =>
                       \E b \in Nat \ {0} :
                          Begun(windows'[d], Len(log'[d]), log'[d][1].now_ms, b)
      <4>1. CASE d = c
        BY <3>2, <3>4, <3>5, <3>7, <4>1
      <4>2. CASE d # c
        <5>1. log'[d] = log[d] /\ windows'[d] = windows[d]
          BY <3>2, <4>2
        <5>. QED  BY <5>1 DEF WindowsBegun
      <4>. QED  BY <4>1, <4>2
    <3>. QED  BY <3>8 DEF WindowsBegun
  <2>. QED  BY <2>1, <2>2, <2>3
<1>. QED  BY <1>1, <1>2 DEF Next, ReadClock, Tick, vars

\* The admissions of a client never outrun its limit: at most MaxEvents for each
\* window's length begun since its first reading, in whatever order readings of the
\* clock reach check().
THEOREM AdmissionsBounded == Spec => []RateSustained
<1>. DEFINE Inv == TypeOK /\ ReadingsPast /\ WindowsBegun
<1>1. Init => Inv
  BY InitTypes DEF Init, WindowsBegun
<1>2. Inv /\ [Next]_vars => Inv'
  BY StepTypes, StepBegun
<1>3. Inv => RateSustained
  <2>. SUFFICES ASSUME Inv, NEW c \in Clients, log[c] # <<>>
                PROVE  \E begun \in 1 .. clock + 1 :
                          /\ Len(log[c]) <= MaxEvents * begun
                          /\ log[c][1].now_ms + (begun - 1) * WindowMs <= clock
    BY DEF RateSustained
  <2>1. PICK b \in Nat \ {0} : Begun(windows[c], Len(log[c]), log[c][1].now_ms, b)
    BY DEF WindowsBegun
  <2>2. /\ clock \in Nat /\ windows[c] \in Window /\ windows[c].start_ms <= clock
        /\ windows[c].count \in 0 .. MaxEvents /\ windows[c].start_ms \in Nat
    BY DEF TypeOK, ReadingsPast, WindowsBegun, Window, Time
  <2>3. log[c][1].now_ms \in Nat /\ Len(log[c]) \in Nat
    <3>1. log[c] \in Seq(Admission) /\ 1 \in DOMAIN log[c]
      BY DEF TypeOK
    <3>2. log[c][1] \in Admission
      BY <3>1
    <3>. QED  BY <3>1, <3>2 DEF Admission, Time
  <2>. DEFINE P == MaxEvents * (b - 1)
              Q == (b - 1) * WindowMs
  <2>4. /\ P \in Nat /\ Q \in Nat /\ MaxEvents * b = P + MaxEvents /\ b - 1 <= Q
        /\ Len(log[c]) <= P + windows[c].count
        /\ log[c][1].now_ms + Q <= windows[c].start_ms
    BY <2>1, Products DEF Begun
  <2>5. log[c][1].now_ms + Q <= clock => log[c][1].now_ms + (b - 1) * WindowMs <= clock
    OBVIOUS
  <2>. HIDE DEF P, Q
  <2>6. Len(log[c]) <= MaxEvents * b
    BY <2>2, <2>3, <2>4, LimiterConstants
  <2>7. log[c][1].now_ms + Q <= clock /\ b \in 1 .. clock + 1
    BY <2>2, <2>3, <2>4
  <2>. QED  BY <2>5, <2>6, <2>7, Zenon
<1>. QED  BY <1>1, <1>2, <1>3, PTL DEF Spec
-----------------------------------------------------------------------------
(* What a step may never do.                                               *)

\* The window of a client is kept, and takes back none of what it has counted unless
\* the next one begins a window's length after it or later.
WindowForward(c) ==
    windows[c] # NoWindow =>
       /\ windows'[c] # NoWindow
       /\ \/ /\ windows'[c].start_ms = windows[c].start_ms
             /\ windows'[c].count >= windows[c].count
          \/ windows'[c].start_ms >= windows[c].start_ms + WindowMs

\* No reading that comes late to check(), after one that opened a later window, sets
\* the window of its client back or clears its count, which a difference of unsigned
\* readings that does not saturate would do.
THEOREM WindowsMoveForward == Spec => [][\A c \in Clients : WindowForward(c)]_vars
<1>1. TypeOK /\ ReadingsPast /\ [Next]_vars => [\A c \in Clients : WindowForward(c)]_vars
  <2>. SUFFICES ASSUME TypeOK, ReadingsPast, Next, NEW d \in Clients,
                       windows[d] # NoWindow
                PROVE  /\ windows'[d] # NoWindow
                       /\ \/ /\ windows'[d].start_ms = windows[d].start_ms
                             /\ windows'[d].count >= windows[d].count
                          \/ windows'[d].start_ms >= windows[d].start_ms + WindowMs
    BY DEF WindowForward
  <2>1. /\ windows[d] \in Window /\ windows[d].start_ms \in Nat /\ windows[d].count \in Nat
        /\ windows \in [Clients -> Window \cup {NoWindow}]
    BY LimiterConstants DEF TypeOK, Window, Time
  <2>2. CASE windows' = windows
    BY <2>1, <2>2
  <2>3. ASSUME NEW r \in Requests, Check(r), windows' # windows
        PROVE  /\ windows'[d] # NoWindow
               /\ \/ /\ windows'[d].start_ms = windows[d].start_ms
                     /\ windows'[d].count >= windows[d].count
                  \/ windows'[d].start_ms >= windows[d].start_ms + WindowMs
    <3>. DEFINE c == call[r].key
                now == call[r].now_ms
                w == WindowOf(r)
    <3>1. Fits(c, now, w) /\ Admits(c, now, w)
      BY <2>3, CheckOutcome DEF Refuses
    <3>. HIDE DEF c, now, w
    <3>2. c \in Clients /\ now \in Nat /\ w \in Window /\ w.start_ms \in Nat /\ w.count \in Nat
      BY <3>1, LimiterConstants DEF Fits, Window, Time
    <3>. DEFINE v == [w EXCEPT !.count = @ + 1]
    <3>3. v.start_ms = w.start_ms /\ v.count = w.count + 1 /\ v # NoWindow
      BY <3>2, LimiterConstants DEF Window
    <3>4. windows' = [windows EXCEPT ![c] = v]
      BY <3>1 DEF Admits
    <3>. HIDE DEF v
    <3>5. CASE d # c
      BY <2>1, <3>4, <3>5
    <3>6. CASE d = c /\ w = windows[c]
      BY <2>1, <3>2, <3>3, <3>4, <3>6
    <3>7. CASE d = c /\ Opened(c, now, w)
      <4>1. w.start_ms = now /\ now - windows[d].start_ms >= WindowMs
        BY <3>7 DEF Opened
      <4>2. windows'[d].start_ms = now /\ windows'[d] # NoWindow
        BY <2>1, <3>3, <3>4, <3>7, <4>1
      <4>. QED  BY <2>1, <3>2, <4>1, <4>2, LimiterConstants
    <3>. QED  BY <3>1, <3>5, <3>6, <3>7 DEF Fits
  <2>. QED  BY <2>2, <2>3 DEF Next, ReadClock, Tick
<1>. QED  BY <1>1, InitTypes, StepTypes, PTL DEF Spec
=============================================================================

------------------------- MODULE LoadBalancerProofs -------------------------
(***************************************************************************)
(* Proofs about LoadBalancer for any number of targets, of calls that      *)
(* share the counter and any wrap-around of it.                            *)
(***************************************************************************)
EXTENDS LoadBalancer, Integers, TLAPS

-----------------------------------------------------------------------------
(* Remainders.                                                             *)

\* A remainder is known by the multiple it leaves.
LEMMA Remainder ==
    ASSUME NEW n \in Nat \ {0}, NEW q \in Nat, NEW r \in 0 .. n - 1
    PROVE  (n * q + r) % n = r
<1>. DEFINE a == n * q + r
            s == a % n
            p == a \div n
<1>1. a \in Nat /\ n * q \in Nat
  OBVIOUS
<1>. HIDE DEF a
<1>2. s \in 0 .. n - 1 /\ p \in Nat /\ a = n * p + s
  BY <1>1
<1>. HIDE DEF s, p
<1>3. ASSUME NEW i \in Nat, NEW j \in Nat, i < j
      PROVE  n * i + n <= n * j
  <2>1. PICK k \in Nat : j = i + 1 + k
    BY <1>3 
  <2>2. n * (i + 1 + k) = n * i + n + n * k /\ n * k \in Nat /\ n * i \in Nat
    OBVIOUS
  <2>. QED  BY <2>1, <2>2
<1>4. n * q \in Nat /\ n * p \in Nat
  BY <1>2
<1>5. ~(p < q)
  BY <1>2, <1>3, <1>4 DEF a
<1>6. ~(q < p)
  BY <1>2, <1>3, <1>4 DEF a
<1>7. p = q
  BY <1>2, <1>5, <1>6
<1>. QED  BY <1>2, <1>4, <1>7 DEF a, s

\* Any n consecutive numbers leave every remainder.
LEMMA EveryRemainder ==
    ASSUME NEW n \in Nat \ {0}, NEW a \in Nat, NEW t \in 0 .. n - 1
    PROVE  \E v \in a .. a + n - 1 : v % n = t
<1>1. PICK q \in Nat, r \in 0 .. n - 1 : a = n * q + r
  <2>1. a % n \in 0 .. n - 1 /\ a \div n \in Nat /\ a = n * (a \div n) + (a % n)
    OBVIOUS
  <2>. QED  BY <2>1
<1>2. n * q \in Nat /\ n * (q + 1) = n * q + n /\ n * (q + 1) \in Nat
  OBVIOUS
<1>3. CASE t >= r
  <2>1. n * q + t \in a .. a + n - 1
    BY <1>1, <1>2, <1>3
  <2>2. (n * q + t) % n = t
    BY Remainder
  <2>. QED  BY <2>1, <2>2
<1>4. CASE t < r
  <2>1. n * (q + 1) + t \in a .. a + n - 1
    BY <1>1, <1>2, <1>4
  <2>2. (n * (q + 1) + t) % n = t
    BY Remainder
  <2>. QED  BY <2>1, <2>2
<1>. QED  BY <1>3, <1>4

\* A target whose flag was set throughout the call has its flag set.
SteadyHealthy ==
    \A c \in Callers : \A t \in call[c].steady : healthy[t]

\* The numbers drawn since a call began at s, while the counter has come to n: as many
\* as the call made rounds, or more, and each gives a target that another call drew,
\* whose flag was clear at some time, or that the call is looking at.
DrawnSince(k, s, n) ==
    /\ s + k.tries + (IF k.stage = "check" THEN 1 ELSE 0) <= n
    /\ \A v \in s .. n - 1 :
          \/ v % Count \in k.taken
          \/ v % Count \notin k.steady
          \/ k.stage = "check" /\ v % Count = k.index

\* What a state of a call says of its scan, while the counter is at n.
ScanOf(k, n) ==
    /\ k.stage \in {"scan", "check"} /\ ~k.wrapped => \E s \in Nat : DrawnSince(k, s, n)
    /\ k.stage = "fallback" /\ ~k.wrapped => k.steady \subseteq k.taken

ScanInv == \A c \in Callers : ScanOf(call[c], next)

-----------------------------------------------------------------------------
(* Types.                                                                  *)

\* The counter stays below Wrap, and a remainder of it is a target.
LEMMA CounterTypes ==
    ASSUME NEW n \in 0 .. Wrap - 1
    PROVE  (n + 1) % Wrap \in 0 .. Wrap - 1 /\ n % Count \in Targets
  BY BalancerConstants DEF Targets

\* A call that draws a target.
LEMMA DrawnCall ==
    ASSUME NEW k \in Call, NEW s \in {"check", "fallback"}, NEW t \in Targets
    PROVE  /\ Drawn(k, s, t) \in Call
           /\ Drawn(k, s, t).stage = s /\ Drawn(k, s, t).index = t
           /\ Drawn(k, s, t).tries = k.tries /\ Drawn(k, s, t).steady = k.steady
           /\ Drawn(k, s, t).taken = k.taken
           /\ Drawn(k, s, t).wrapped = (k.wrapped \/ next = Wrap - 1)
<1>. DEFINE w == k.wrapped \/ next = Wrap - 1
<1>1. w \in BOOLEAN
  OBVIOUS
<1>. HIDE DEF w
<1>2. Drawn(k, s, t) = [k EXCEPT !.stage = s, !.index = t, !.wrapped = w]
  BY DEF Drawn, w
<1>3. /\ Drawn(k, s, t) \in Call
      /\ Drawn(k, s, t).stage = s /\ Drawn(k, s, t).index = t
      /\ Drawn(k, s, t).tries = k.tries /\ Drawn(k, s, t).steady = k.steady
      /\ Drawn(k, s, t).taken = k.taken /\ Drawn(k, s, t).wrapped = w
  BY <1>1, <1>2 DEF Call
<1>. QED  BY <1>3 DEF w

\* A call that is overtaken.
LEMMA OvertakenCall ==
    ASSUME NEW k \in Call, NEW t \in Targets
    PROVE  /\ Overtaken(k, t) \in Call
           /\ Overtaken(k, t).stage = k.stage /\ Overtaken(k, t).index = k.index
           /\ Overtaken(k, t).tries = k.tries /\ Overtaken(k, t).steady = k.steady
           /\ k.stage \in {"scan", "check"} =>
                 /\ Overtaken(k, t).taken = k.taken \cup {t}
                 /\ Overtaken(k, t).wrapped = (k.wrapped \/ next = Wrap - 1)
           /\ k.stage \notin {"scan", "check"} => Overtaken(k, t) = k
<1>. DEFINE w == k.wrapped \/ next = Wrap - 1
            T == k.taken \cup {t}
<1>1. w \in BOOLEAN /\ T \in SUBSET Targets
  BY DEF Call
<1>2. CASE k.stage \in {"scan", "check"}
  <2>. HIDE DEF w, T
  <2>1. Overtaken(k, t) = [k EXCEPT !.taken = T, !.wrapped = w]
    BY <1>2 DEF Overtaken, w, T
  <2>2. /\ Overtaken(k, t) \in Call
        /\ Overtaken(k, t).stage = k.stage /\ Overtaken(k, t).index = k.index
        /\ Overtaken(k, t).tries = k.tries /\ Overtaken(k, t).steady = k.steady
        /\ Overtaken(k, t).taken = T /\ Overtaken(k, t).wrapped = w
    BY <1>1, <2>1 DEF Call
  <2>. QED  BY <1>2, <2>2 DEF w, T
<1>3. CASE k.stage \notin {"scan", "check"}
  BY <1>3 DEF Overtaken
<1>. QED  BY <1>2, <1>3

\* fetch_add() gives the call the target at the counter, and overtakes the others.
LEMMA FetchEffect ==
    ASSUME TypeOK, NEW c \in Callers, NEW s \in {"check", "fallback"}, FetchAdd(c, s)
    PROVE  /\ call' \in [Callers -> Call]
           /\ next' \in 0 .. Wrap - 1
           /\ next % Count \in Targets
           /\ call'[c] = Drawn(call[c], s, next % Count)
           /\ \A d \in Callers \ {c} : call'[d] = Overtaken(call[d], next % Count)
<1>1. call \in [Callers -> Call] /\ next \in 0 .. Wrap - 1
  BY DEF TypeOK
<1>. DEFINE i == next % Count
<1>2. i \in Targets /\ (next + 1) % Wrap \in 0 .. Wrap - 1
  BY <1>1, CounterTypes
<1>3. /\ call' = [d \in Callers |-> IF d = c THEN Drawn(call[c], s, i)
                                   ELSE Overtaken(call[d], i)]
      /\ next' = (next + 1) % Wrap
  BY DEF FetchAdd
<1>. HIDE DEF i
<1>4. Drawn(call[c], s, i) \in Call /\ \A d \in Callers : Overtaken(call[d], i) \in Call
  BY <1>1, <1>2, DrawnCall, OvertakenCall
<1>5. /\ call' \in [Callers -> Call]
      /\ call'[c] = Drawn(call[c], s, i)
      /\ \A d \in Callers \ {c} : call'[d] = Overtaken(call[d], i)
  BY <1>3, <1>4
<1>. QED  BY <1>2, <1>3, <1>5 DEF i

\* A call takes the target it looks at, or goes on to the next round.
LEMMA CheckEffect ==
    ASSUME TypeOK, NEW c \in Callers, Check(c), call[c].tries < Count
    PROVE  /\ call' \in [Callers -> Call]
           /\ \/ call'[c].stage = "healthy" /\ call'[c].steady = {}
              \/ /\ call'[c].stage = "scan" /\ ~healthy[call[c].index]
                 /\ call'[c].tries = call[c].tries + 1
                 /\ call'[c].steady = call[c].steady
                 /\ call'[c].taken = call[c].taken
                 /\ call'[c].wrapped = call[c].wrapped
<1>1. call \in [Callers -> Call] /\ call[c] \in Call
  BY DEF TypeOK
<1>2. call[c].tries + 1 \in 0 .. Count
  BY <1>1, BalancerConstants DEF Call
<1>3. CASE call' = [call EXCEPT ![c] = Chosen(call[c])]
  <2>1. /\ Chosen(call[c]) \in Call /\ Chosen(call[c]).stage = "healthy"
        /\ Chosen(call[c]).steady = {}
    BY <1>1 DEF Chosen, Call
  <2>. QED  BY <1>1, <1>3, <2>1
<1>4. CASE /\ ~healthy[call[c].index]
           /\ call' = [call EXCEPT ![c].stage = "scan", ![c].tries = call[c].tries + 1]
  <2>. DEFINE n == call[c].tries + 1
  <2>1. call' = [call EXCEPT ![c].stage = "scan", ![c].tries = n] /\ n \in 0 .. Count
    BY <1>2, <1>4
  <2>. HIDE DEF n
  <2>2. call' \in [Callers -> Call]
    BY <1>1, <2>1 DEF Call
  <2>3. /\ call'[c].stage = "scan" /\ call'[c].tries = n
        /\ call'[c].steady = call[c].steady /\ call'[c].taken = call[c].taken
        /\ call'[c].wrapped = call[c].wrapped
    BY <1>1, <2>1 DEF Call
  <2>. QED  BY <1>4, <2>2, <2>3 DEF n
<1>. QED  BY <1>3, <1>4 DEF Check

\* No more rounds of the loop than there are targets.
RoundsBounded == \A c \in Callers : call[c].stage = "check" => call[c].tries < Count

TypeInv == TypeOK /\ RoundsBounded

\* A step of a call leaves the other calls alone but for what it overtakes.
LEMMA OtherCalls ==
    ASSUME TypeOK, NEW c \in Callers, Begin(c) \/ CallStep(c)
    PROVE  \A d \in Callers \ {c} :
              /\ call'[d].stage = call[d].stage /\ call'[d].tries = call[d].tries
              /\ call'[d].steady = call[d].steady
<1>1. CASE Begin(c) \/ Check(c)
  BY <1>1 DEF Begin, Check, TypeOK
<1>2. ASSUME NEW s \in {"check", "fallback"}, FetchAdd(c, s), NEW d \in Callers \ {c}
      PROVE  /\ call'[d].stage = call[d].stage /\ call'[d].tries = call[d].tries
             /\ call'[d].steady = call[d].steady
  <2>1. call'[d] = Overtaken(call[d], next % Count) /\ next % Count \in Targets
    BY <1>2, FetchEffect
  <2>2. call[d] \in Call
    BY DEF TypeOK
  <2>. QED  BY <2>1, <2>2, OvertakenCall
<1>. QED  BY <1>1, <1>2 DEF CallStep, Scan, Fallback

\* A call that begins.
LEMMA BeginEffect ==
    ASSUME TypeOK, NEW c \in Callers, Begin(c)
    PROVE  /\ call' \in [Callers -> Call]
           /\ call'[c].stage = "scan" /\ call'[c].tries = 0
           /\ call'[c].steady = HealthyTargets
           /\ \A d \in Callers \ {c} : call'[d] = call[d]
<1>1. [stage |-> "scan", tries |-> 0, index |-> 0, steady |-> HealthyTargets,
       taken |-> {}, wrapped |-> FALSE] \in Call
  BY BalancerConstants DEF Call, Targets, HealthyTargets
<1>. QED  BY <1>1 DEF Begin, TypeOK

\* What the prober's store does to the calls: a target whose flag is cleared is steady
\* no more.
LEMMA StoreEffect ==
    ASSUME TypeOK, StoreHealth
    PROVE  /\ call' \in [Callers -> Call]
           /\ \A c \in Callers :
                 /\ call'[c].stage = call[c].stage /\ call'[c].tries = call[c].tries
                 /\ call'[c].index = call[c].index /\ call'[c].taken = call[c].taken
                 /\ call'[c].wrapped = call[c].wrapped
                 /\ call'[c].steady = IF probed = "down" THEN call[c].steady \ {at}
                                      ELSE call[c].steady
<1>1. \A c \in Callers : call[c] \in Call
  BY DEF TypeOK
<1>2. CASE probed = "down"
  <2>. DEFINE after(c) == [call[c] EXCEPT !.steady = call[c].steady \ {at}]
  <2>1. ASSUME NEW c \in Callers
        PROVE  /\ after(c) \in Call
               /\ after(c).stage = call[c].stage /\ after(c).tries = call[c].tries
               /\ after(c).index = call[c].index /\ after(c).taken = call[c].taken
               /\ after(c).wrapped = call[c].wrapped
               /\ after(c).steady = call[c].steady \ {at}
    <3>1. call[c].steady \ {at} \in SUBSET Targets
      BY <1>1 DEF Call
    <3>. QED  BY <1>1, <3>1 DEF Call
  <2>2. call' = [c \in Callers |-> after(c)]
    BY <1>2 DEF StoreHealth
  <2>. HIDE DEF after
  <2>. QED  BY <1>2, <2>1, <2>2
<1>3. CASE probed # "down"
  <2>1. call' = [c \in Callers |-> call[c]]
    BY <1>3 DEF StoreHealth
  <2>. QED  BY <1>1, <1>3, <2>1
<1>. QED  BY <1>2, <1>3

\* Every step keeps the types.
LEMMA StepTypes == TypeInv /\ [Next]_vars => TypeInv'
<1>. SUFFICES ASSUME TypeInv, [Next]_vars
              PROVE  TypeInv'
  OBVIOUS
<1>. USE DEF TypeInv
<1>1. ASSUME NEW c \in Callers, Begin(c) \/ CallStep(c),
             call' \in [Callers -> Call], next' \in 0 .. Wrap - 1,
             call'[c].stage = "check" => call'[c].tries < Count
      PROVE  TypeInv'
  <2>1. UNCHANGED <<healthy, up, at, probed>>
    BY <1>1 DEF Begin, CallStep, Scan, Check, Fallback
  <2>2. RoundsBounded'
    BY <1>1, OtherCalls DEF RoundsBounded
  <2>. QED  BY <1>1, <2>1, <2>2 DEF TypeOK
<1>2. ASSUME NEW c \in Callers, Begin(c)
      PROVE  TypeInv'
  BY <1>1, <1>2, BeginEffect DEF Begin, TypeOK
<1>3. ASSUME NEW c \in Callers, Scan(c)
      PROVE  TypeInv'
  <2>1. call[c] \in Call /\ call[c].tries < Count /\ FetchAdd(c, "check")
    BY <1>3 DEF Scan, TypeOK
  <2>2. call'[c].tries < Count
    BY <2>1, FetchEffect, DrawnCall
  <2>. QED  BY <1>1, <1>3, <2>1, <2>2, FetchEffect DEF CallStep
<1>4. ASSUME NEW c \in Callers, Check(c)
      PROVE  TypeInv'
  <2>1. call[c].tries < Count
    BY <1>4 DEF Check, RoundsBounded
  <2>. QED  BY <1>1, <1>4, <2>1, CheckEffect DEF Check, CallStep, TypeOK
<1>5. ASSUME NEW c \in Callers, Fallback(c)
      PROVE  TypeInv'
  <2>1. call[c] \in Call /\ FetchAdd(c, "fallback")
    BY <1>5 DEF Fallback, TypeOK
  <2>2. call'[c].stage = "fallback"
    BY <2>1, FetchEffect, DrawnCall
  <2>. QED  BY <1>1, <1>5, <2>1, <2>2, FetchEffect DEF CallStep
<1>6. CASE Probe
  BY <1>6 DEF Probe, TypeOK, RoundsBounded
<1>7. CASE StoreHealth
  <2>1. at' \in Targets
    BY <1>7, BalancerConstants DEF StoreHealth, TypeOK, Targets
  <2>2. healthy' \in [Targets -> BOOLEAN]
    BY <1>7 DEF StoreHealth, TypeOK
  <2>3. call' \in [Callers -> Call] /\ RoundsBounded'
    BY <1>7, StoreEffect DEF RoundsBounded
  <2>. QED  BY <1>7, <2>1, <2>2, <2>3 DEF StoreHealth, TypeOK
<1>8. ASSUME NEW t \in Targets, Flip(t)
      PROVE  TypeInv'
  <2>1. up' \in [Targets -> BOOLEAN]
    BY <1>8 DEF Flip, TypeOK
  <2>. QED  BY <1>8, <2>1 DEF Flip, TypeOK, RoundsBounded
<1>9. CASE UNCHANGED vars
  BY <1>9 DEF vars, TypeOK, RoundsBounded
<1>. QED
  BY <1>2, <1>3, <1>4, <1>5, <1>6, <1>7, <1>8, <1>9 DEF Next, CallStep

\* The initial state has the types.
LEMMA InitTypes == Init => TypeInv
  BY BalancerConstants DEF Init, TypeInv, TypeOK, RoundsBounded, Targets, Call

\* The types are right in every reachable state, with any number of callers, and no
\* call makes more rounds than there are targets.
THEOREM TypesCorrect == Spec => [](TypeOK /\ RoundsBounded)
  BY InitTypes, StepTypes, PTL DEF Spec, TypeInv

-----------------------------------------------------------------------------
(* The choice of a target.                                                 *)

\* Every step keeps the flags of the steady targets set.
LEMMA StepSteady ==
    ASSUME TypeInv, SteadyHealthy, [Next]_vars
    PROVE  SteadyHealthy'
<1>. USE DEF TypeInv
<1>1. ASSUME healthy' = healthy,
             \A c \in Callers : call'[c].steady \in {call[c].steady, HealthyTargets, {}}
      PROVE  SteadyHealthy'
  BY <1>1 DEF SteadyHealthy, HealthyTargets
<1>2. ASSUME NEW c \in Callers, Begin(c)
      PROVE  SteadyHealthy'
  BY <1>1, <1>2, BeginEffect, OtherCalls DEF Begin
<1>3. ASSUME NEW c \in Callers, CallStep(c)
      PROVE  SteadyHealthy'
  <2>1. ASSUME NEW s \in {"check", "fallback"}, FetchAdd(c, s)
        PROVE  call'[c].steady = call[c].steady
    <3>1. call[c] \in Call
      BY DEF TypeOK
    <3>. QED  BY <2>1, <3>1, FetchEffect, DrawnCall
  <2>2. CASE Check(c)
    <3>1. call[c].tries < Count
      BY <2>2 DEF Check, RoundsBounded
    <3>. QED  BY <1>1, <1>3, <2>2, <3>1, CheckEffect, OtherCalls DEF Check
  <2>3. CASE Scan(c) \/ Fallback(c)
    <3>1. call'[c].steady = call[c].steady /\ healthy' = healthy
      BY <2>1, <2>3 DEF Scan, Fallback
    <3>. QED  BY <1>1, <1>3, <3>1, OtherCalls
  <2>. QED  BY <1>3, <2>2, <2>3 DEF CallStep
<1>4. CASE StoreHealth
  <2>1. /\ at \in Targets /\ probed \in {"up", "down"}
        /\ healthy' = [healthy EXCEPT ![at] = (probed = "up")]
    BY <1>4 DEF StoreHealth, TypeOK
  <2>2. \A t \in Targets : t # at => healthy'[t] = healthy[t]
    BY <2>1 DEF TypeOK
  <2>3. probed = "up" => healthy'[at]
    BY <2>1 DEF TypeOK
  <2>4. ASSUME NEW c \in Callers, NEW t \in call'[c].steady
        PROVE  healthy'[t]
    <3>1. call[c].steady \in SUBSET Targets
      BY DEF TypeOK, Call
    <3>2. t \in call[c].steady /\ (t = at => probed # "down")
      BY <1>4, StoreEffect
    <3>3. t \in Targets /\ healthy[t]
      BY <3>1, <3>2 DEF SteadyHealthy
    <3>. QED  BY <2>1, <2>2, <2>3, <3>2, <3>3
  <2>. QED  BY <2>4 DEF SteadyHealthy
<1>5. CASE Probe \/ (\E t \in Targets : Flip(t)) \/ UNCHANGED vars
  BY <1>1, <1>5 DEF Probe, Flip, vars
<1>. QED  BY <1>2, <1>3, <1>4, <1>5 DEF Next

\* fetch_add() moves the counter on by one, unless it starts over.
LEMMA CounterMoves ==
    ASSUME NEW n \in 0 .. Wrap - 1, n # Wrap - 1
    PROVE  (n + 1) % Wrap = n + 1
<1>1. n + 1 = Wrap * 0 + (n + 1) /\ n + 1 \in 0 .. Wrap - 1
  BY BalancerConstants
<1>2. (Wrap * 0 + (n + 1)) % Wrap = n + 1
  BY <1>1, Remainder, BalancerConstants
<1>. QED  BY <1>1, <1>2

\* A number more is drawn: what was drawn before stays as it was.
LEMMA OneMoreDrawn ==
    ASSUME NEW k \in Call, NEW j \in Call, NEW s \in Nat, NEW n \in Nat,
           DrawnSince(k, s, n),
           k.stage \in {"scan", "check"}, j.steady = k.steady, k.taken \subseteq j.taken,
           j.tries = k.tries,
           \/ j.stage = k.stage /\ j.index = k.index /\ n % Count \in j.taken
           \/ j.stage = "check" /\ k.stage = "scan" /\ j.index = n % Count
    PROVE  DrawnSince(j, s, n + 1)
<1>1. k.tries \in Nat
  BY BalancerConstants DEF Call
<1>2. s + j.tries + (IF j.stage = "check" THEN 1 ELSE 0) <= n + 1
  BY <1>1 DEF DrawnSince
<1>3. ASSUME NEW v \in s .. (n + 1) - 1
      PROVE  \/ v % Count \in j.taken
             \/ v % Count \notin j.steady
             \/ j.stage = "check" /\ v % Count = j.index
  <2>1. CASE v = n
    BY <2>1
  <2>2. CASE v # n
    <3>1. v \in s .. n - 1
      BY <1>3, <2>2
    <3>. QED  BY <3>1 DEF DrawnSince
  <2>. QED  BY <2>1, <2>2
<1>. QED  BY <1>2, <1>3 DEF DrawnSince

\* A call that draws a target, or is overtaken, while it scans.
LEMMA FetchKeepsScan ==
    ASSUME TypeInv, ScanInv, NEW c \in Callers, NEW s \in {"check", "fallback"},
           FetchAdd(c, s), call[c].stage = "scan",
           s = "fallback" => call[c].tries = Count, NEW d \in Callers
    PROVE  ScanOf(call'[d], next')
<1>. DEFINE k == call[d]
            j == call'[d]
            i == next % Count
<1>. SUFFICES ScanOf(j, next')
  OBVIOUS
<1>1. next \in 0 .. Wrap - 1 /\ next \in Nat /\ k \in Call /\ call[c] \in Call
  BY BalancerConstants DEF TypeInv, TypeOK
<1>2. /\ j \in Call /\ i \in Targets /\ next' = (next + 1) % Wrap
      /\ d = c => j = Drawn(k, s, i)
      /\ d # c => j = Overtaken(k, i)
  BY FetchEffect DEF FetchAdd, TypeInv
<1>3. ScanOf(k, next)
  BY DEF ScanInv
<1>4. next # Wrap - 1 => next' = next + 1
  BY <1>1, <1>2, CounterMoves
<1>. HIDE DEF k, j, i
<1>5. CASE d = c
  <2>1. /\ j.stage = s /\ j.index = i /\ j.tries = k.tries /\ j.steady = k.steady
        /\ j.taken = k.taken /\ j.wrapped = (k.wrapped \/ next = Wrap - 1)
        /\ k.stage = "scan"
    BY <1>1, <1>2, <1>5, DrawnCall DEF k
  <2>2. CASE ~j.wrapped
    <3>1. ~k.wrapped /\ next' = next + 1
      BY <1>4, <2>1, <2>2
    <3>2. PICK a \in Nat : DrawnSince(k, a, next)
      BY <1>3, <2>1, <3>1 DEF ScanOf
    <3>3. CASE s = "check"
      <4>1. DrawnSince(j, a, next + 1)
        BY <1>1, <1>2, <2>1, <3>2, <3>3, OneMoreDrawn DEF i
      <4>. QED  BY <2>1, <3>1, <3>3, <4>1 DEF ScanOf
    <3>4. CASE s = "fallback"
      <4>1. k.tries = Count /\ k.steady \subseteq Targets
        BY <1>1, <1>5, <3>4 DEF k, Call
      <4>2. a + Count <= next
        BY <2>1, <3>2, <4>1, BalancerConstants DEF DrawnSince
      <4>3. ASSUME NEW t \in k.steady PROVE t \in k.taken
        <5>1. t \in 0 .. Count - 1
          BY <4>1 DEF Targets
        <5>2. PICK v \in a .. a + Count - 1 : v % Count = t
          BY <5>1, EveryRemainder, BalancerConstants
        <5>3. v \in a .. next - 1
          BY <1>1, <4>2, BalancerConstants
        <5>. QED  BY <2>1, <3>2, <5>2, <5>3 DEF DrawnSince
      <4>. QED  BY <2>1, <3>4, <4>3 DEF ScanOf
    <3>. QED  BY <3>3, <3>4
  <2>3. CASE j.wrapped
    BY <2>3 DEF ScanOf
  <2>. QED  BY <2>2, <2>3
<1>6. CASE d # c
  <2>1. CASE k.stage \in {"scan", "check"}
    <3>1. /\ j.stage = k.stage /\ j.index = k.index /\ j.tries = k.tries
          /\ j.steady = k.steady /\ j.taken = k.taken \cup {i}
          /\ j.wrapped = (k.wrapped \/ next = Wrap - 1)
      BY <1>1, <1>2, <1>6, <2>1, OvertakenCall
    <3>2. CASE ~j.wrapped
      <4>1. ~k.wrapped /\ next' = next + 1
        BY <1>4, <3>1, <3>2
      <4>2. PICK a \in Nat : DrawnSince(k, a, next)
        BY <1>3, <2>1, <4>1 DEF ScanOf
      <4>3. DrawnSince(j, a, next + 1)
        BY <1>1, <1>2, <2>1, <3>1, <4>2, OneMoreDrawn DEF i
      <4>. QED  BY <2>1, <3>1, <4>1, <4>3 DEF ScanOf
    <3>3. CASE j.wrapped
      BY <3>3 DEF ScanOf
    <3>. QED  BY <3>2, <3>3
  <2>2. CASE k.stage \notin {"scan", "check"}
    <3>1. j = k
      BY <1>1, <1>2, <1>6, <2>2, OvertakenCall
    <3>. QED  BY <1>3, <2>2, <3>1 DEF ScanOf
  <2>. QED  BY <2>1, <2>2
<1>. QED  BY <1>5, <1>6

\* A target that is not healthy is not steady.
LEMMA CheckKeepsScan ==
    ASSUME TypeInv, ScanInv, SteadyHealthy, NEW c \in Callers, Check(c), NEW d \in Callers
    PROVE  ScanOf(call'[d], next')
<1>1. next' = next /\ ScanOf(call[d], next)
  BY DEF Check, ScanInv
<1>2. CASE d # c
  BY <1>1, <1>2 DEF Check, TypeInv, TypeOK
<1>3. CASE d = c
  <2>. DEFINE k == call[d]
              j == call'[d]
  <2>1. k.stage = "check" /\ k.tries < Count /\ k \in Call
    BY <1>3 DEF Check, TypeInv, RoundsBounded, TypeOK
  <2>2. \/ j.stage = "healthy"
        \/ /\ j.stage = "scan" /\ ~healthy[k.index] /\ j.tries = k.tries + 1
           /\ j.steady = k.steady /\ j.taken = k.taken /\ j.wrapped = k.wrapped
    BY <1>3, <2>1, CheckEffect DEF TypeInv
  <2>3. k.index \notin k.steady \/ healthy[k.index]
    BY DEF SteadyHealthy
  <2>. HIDE DEF k, j
  <2>4. CASE j.stage = "healthy"
    BY <2>4 DEF ScanOf, j
  <2>5. CASE j.stage # "healthy" /\ ~j.wrapped
    <3>1. PICK s \in Nat : DrawnSince(k, s, next)
      BY <1>1, <2>1, <2>2, <2>5 DEF ScanOf, k
    <3>2. k.tries \in Nat
      BY <2>1, BalancerConstants DEF Call
    <3>3. DrawnSince(j, s, next)
      BY <2>1, <2>2, <2>3, <2>5, <3>1, <3>2 DEF DrawnSince
    <3>. QED  BY <1>1, <2>2, <2>5, <3>3 DEF ScanOf, j
  <2>6. CASE j.wrapped
    BY <2>6 DEF ScanOf, j
  <2>. QED  BY <2>4, <2>5, <2>6
<1>. QED  BY <1>2, <1>3

\* Every step keeps what a state says of the scans of all calls.
LEMMA StepScan ==
    ASSUME TypeInv, ScanInv, SteadyHealthy, [Next]_vars
    PROVE  ScanInv'
<1>1. SUFFICES ASSUME NEW d \in Callers
               PROVE  ScanOf(call'[d], next')
  BY DEF ScanInv
<1>2. ScanOf(call[d], next)
  BY DEF ScanInv
<1>3. ASSUME NEW c \in Callers, Begin(c)
      PROVE  ScanOf(call'[d], next')
  <2>1. next' = next /\ next \in Nat
    BY <1>3, BalancerConstants DEF Begin, TypeInv, TypeOK
  <2>2. CASE d = c
    <3>1. call'[d].stage = "scan" /\ call'[d].tries = 0
      BY <1>3, <2>2, BeginEffect DEF TypeInv
    <3>2. DrawnSince(call'[d], next, next)
      BY <2>1, <3>1 DEF DrawnSince
    <3>. QED  BY <2>1, <3>1, <3>2 DEF ScanOf
  <2>3. CASE d # c
    BY <1>2, <1>3, <2>1, <2>3, BeginEffect DEF TypeInv
  <2>. QED  BY <2>2, <2>3
<1>4. ASSUME NEW c \in Callers, CallStep(c)
      PROVE  ScanOf(call'[d], next')
  BY <1>4, FetchKeepsScan, CheckKeepsScan DEF CallStep, Scan, Fallback
<1>5. CASE StoreHealth
  <2>1. /\ call'[d].stage = call[d].stage /\ call'[d].tries = call[d].tries
        /\ call'[d].index = call[d].index /\ call'[d].steady \subseteq call[d].steady
        /\ call'[d].taken = call[d].taken /\ call'[d].wrapped = call[d].wrapped
        /\ next' = next
    BY <1>5, StoreEffect DEF TypeInv, StoreHealth
  <2>2. \A s \in Nat : DrawnSince(call[d], s, next) => DrawnSince(call'[d], s, next)
    BY <2>1 DEF DrawnSince
  <2>. QED  BY <1>2, <2>1, <2>2 DEF ScanOf
<1>6. CASE Probe \/ (\E t \in Targets : Flip(t)) \/ UNCHANGED vars
  BY <1>2, <1>6 DEF Probe, Flip, vars
<1>. QED  BY <1>3, <1>4, <1>5, <1>6 DEF Next

\* With any number of calls that share the counter, next_target() falls back only when
\* every target whose flag was set throughout the call was drawn by another call, or
\* when the counter started over.
THEOREM FallbackOnlyIfOvertaken == Spec => []FallbackExcused
<1>. DEFINE Inv == TypeInv /\ SteadyHealthy /\ ScanInv
<1>1. Init => Inv
  BY InitTypes DEF Init, SteadyHealthy, ScanInv, ScanOf
<1>2. Inv /\ [Next]_vars => Inv'
  BY StepTypes, StepSteady, StepScan
<1>3. Inv => FallbackExcused
  BY DEF ScanInv, ScanOf, FallbackExcused
<1>. HIDE DEF Inv
<1>. QED  BY <1>1, <1>2, <1>3, PTL DEF Spec

\* So a call that no other overlaps prefers healthy targets (router.rs: "if none are
\* healthy, fall back"), until the counter starts over.
COROLLARY AlonePrefersHealthy ==
    Spec => [](\A c \in Callers :
                  call[c].stage = "fallback" /\ ~call[c].wrapped /\ call[c].taken = {}
                     => call[c].steady = {})
<1>. DEFINE Alone == \A c \in Callers :
                        call[c].stage = "fallback" /\ ~call[c].wrapped /\ call[c].taken = {}
                           => call[c].steady = {}
<1>1. FallbackExcused => Alone
  BY DEF FallbackExcused
<1>2. Spec => []Alone
  BY <1>1, FallbackOnlyIfOvertaken, PTL
<1>. QED  BY <1>2
=============================================================================

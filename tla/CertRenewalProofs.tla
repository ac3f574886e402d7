------------------------- MODULE CertRenewalProofs -------------------------
(***************************************************************************)
(* Proofs about CertRenewal for any number of handshakes, orders, failures *)
(* and crashes, and whether or not modification times tell a file that was *)
(* truncated from the one that was written.                                *)
(***************************************************************************)
EXTENDS CertRenewal, TLAPS

-----------------------------------------------------------------------------
(* Types.                                                                  *)

\* Steps of the handshakes, which change hs and the caches only.
Untouched == UNCHANGED <<cert, key, mtime, due, issued, failures, runner, serving,
                         tokens, ready, missed, front, spoiled>>

\* The records the model starts with are of the types it uses.
LEMMA IdleTypes ==
    /\ NoFile \in File /\ NoPair \in Pair /\ IdleHandshake \in Handshake
    /\ NoPair.at = 0 /\ IdleHandshake.pair.at = 0 /\ IdleHandshake.floor = 0
    /\ ~NoPair.some /\ IdleHandshake.stage = "idle" /\ NoFile.order = 0
  BY DEF NoFile, File, NoPair, Pair, IdleHandshake, Handshake

\* The caches and the handshakes of a process that starts.
LEMMA EmptyTypes ==
    /\ [l \in {"h1", "h3"} |-> NoPair] \in [{"h1", "h3"} -> Pair]
    /\ [h \in Handshakes |-> IdleHandshake] \in [Handshakes -> Handshake]
  BY IdleTypes

\* A handshake that starts has the type of one.
LEMMA StatTypes ==
    ASSUME NEW n \in Nat, NEW m \in Nat
    PROVE  [stage |-> "compare", floor |-> n, pair |-> [NoPair EXCEPT !.at = m]]
              \in Handshake
<1>1. [NoPair EXCEPT !.at = m] \in Pair
  BY DEF NoPair, Pair
<1>. QED  BY <1>1 DEF Handshake

\* Every step of a handshake keeps the types.
LEMMA HandshakeTypes ==
    ASSUME TypeOK, NEW h \in Handshakes, Stat(h) \/ HandshakeStep(h)
    PROVE  TypeOK'
<1>1. /\ ListenerOf[h] \in {"h1", "h3"} /\ cached[ListenerOf[h]] \in Pair
      /\ hs \in [Handshakes -> Handshake] /\ hs[h] \in Handshake /\ hs[h].pair \in Pair
      /\ cached \in [{"h1", "h3"} -> Pair]
      /\ cert.order \in Nat /\ key.order \in Nat /\ mtime \in Nat
  BY CertConstants DEF TypeOK, Handshake, File
<1>2. SUFFICES hs' \in [Handshakes -> Handshake] /\ cached' \in [{"h1", "h3"} -> Pair]
               /\ Untouched
  BY DEF TypeOK, Untouched
<1>3. CASE Stat(h)
  <2>1. hs' = [hs EXCEPT ![h] = [stage |-> "compare", floor |-> cert.order,
                                 pair |-> [NoPair EXCEPT !.at = mtime]]]
    BY <1>3 DEF Stat
  <2>2. hs' \in [Handshakes -> Handshake]
    BY <1>1, <2>1, StatTypes
  <2>. QED  BY <1>1, <1>3, <2>2 DEF Stat, Untouched
<1>4. CASE Compare(h)
  <2>1. hs' \in [Handshakes -> Handshake]
    BY <1>1, <1>4 DEF Compare, Handshake
  <2>. QED  BY <1>1, <1>4, <2>1 DEF Compare, Untouched
<1>5. CASE ReadCert(h)
  <2>1. [hs[h].pair EXCEPT !.cert = cert.order] \in Pair
    BY <1>1 DEF Pair
  <2>2. [hs EXCEPT ![h].stage = "key", ![h].pair.cert = cert.order]
           \in [Handshakes -> Handshake]
    BY <1>1, <2>1 DEF Handshake
  <2>3. [hs EXCEPT ![h] = IdleHandshake] \in [Handshakes -> Handshake]
    BY <1>1, IdleTypes
  <2>. QED  BY <1>1, <1>5, <2>2, <2>3 DEF ReadCert, Abort, Untouched
<1>6. CASE ReadKey(h)
  <2>1. [hs[h].pair EXCEPT !.key = key.order] \in Pair
    BY <1>1 DEF Pair
  <2>2. [hs EXCEPT ![h].stage = "store", ![h].pair.key = key.order]
           \in [Handshakes -> Handshake]
    BY <1>1, <2>1 DEF Handshake
  <2>3. [hs EXCEPT ![h] = IdleHandshake] \in [Handshakes -> Handshake]
    BY <1>1, IdleTypes
  <2>. QED  BY <1>1, <1>6, <2>2, <2>3 DEF ReadKey, Abort, Untouched
<1>7. CASE StoreCached(h)
  <2>. DEFINE p == [hs[h].pair EXCEPT !.some = TRUE]
  <2>1. p \in Pair
    BY <1>1 DEF Pair
  <2>2. /\ cached' = [cached EXCEPT ![ListenerOf[h]] = p]
        /\ hs' = [hs EXCEPT ![h].stage = "served", ![h].pair = p]
    BY <1>7 DEF StoreCached
  <2>. HIDE DEF p
  <2>3. hs' \in [Handshakes -> Handshake]
    BY <1>1, <2>1, <2>2 DEF Handshake
  <2>4. cached' \in [{"h1", "h3"} -> Pair]
    BY <1>1, <2>1, <2>2
  <2>. QED  BY <1>7, <2>3, <2>4 DEF StoreCached, Untouched
<1>. QED  BY <1>3, <1>4, <1>5, <1>6, <1>7 DEF HandshakeStep

\* Every step of the runner and of its environment keeps the types.
LEMMA RunnerTypes ==
    ASSUME TypeOK, RunnerStep \/ ObtainFails \/ BindFront \/ FrontFails \/ Ages \/ Crash
                   \/ (\E o \in 1 .. MaxOrders : CaFetches(o))
    PROVE  TypeOK'
<1>1. CASE SpawnFront
  BY <1>1 DEF SpawnFront, TypeOK, RunnerStates, FrontStates
<1>2. CASE WaitBound
  BY <1>2 DEF WaitBound, TypeOK, RunnerStates
<1>3. CASE Start
  BY <1>3 DEF Start, TypeOK, RunnerStates
<1>4. CASE WakeAndRenew
  BY <1>4 DEF WakeAndRenew, TypeOK, RunnerStates
<1>5. CASE NewOrder
  BY <1>5 DEF NewOrder, TypeOK, RunnerStates
<1>6. CASE InsertToken
  BY <1>6 DEF InsertToken, TypeOK, RunnerStates, Order
<1>7. CASE SetReady
  BY <1>7 DEF SetReady, TypeOK, RunnerStates, Order
<1>8. CASE Issue
  BY <1>8 DEF Issue, TypeOK, RunnerStates, Order
<1>9. CASE OpenCert
  BY <1>9 DEF OpenCert, TypeOK, RunnerStates, File
<1>10. CASE WriteCert
  <2>1. mtime' \in Nat
    BY <1>10, CertConstants DEF WriteCert, TypeOK
  <2>. QED  BY <1>10, <2>1 DEF WriteCert, TypeOK, RunnerStates, File
<1>11. CASE OpenKey
  BY <1>11 DEF OpenKey, TypeOK, RunnerStates, File
<1>12. CASE WriteKey
  BY <1>12 DEF WriteKey, TypeOK, RunnerStates, File
<1>13. ASSUME GiveUp, failures' \in Nat
       PROVE  TypeOK'
  BY <1>13 DEF GiveUp, TypeOK, RunnerStates, FrontStates
<1>14. CASE OrderInvalid
  BY <1>13, <1>14 DEF OrderInvalid, TypeOK
<1>15. CASE ObtainFails
  BY <1>13, <1>15 DEF ObtainFails, TypeOK
<1>16. CASE BindFront \/ FrontFails
  BY <1>16 DEF BindFront, FrontFails, TypeOK, FrontStates
<1>17. CASE \E o \in 1 .. MaxOrders : CaFetches(o)
  <2>1. spoiled' \in BOOLEAN /\ missed' \in BOOLEAN
    BY <1>17, Zenon DEF CaFetches
  <2>. QED  BY <1>17, <2>1 DEF CaFetches, TypeOK
<1>18. CASE Ages
  BY <1>18 DEF Ages, TypeOK
<1>19. CASE Crash
  <2>1. failures' \in Nat
    BY <1>19 DEF Crash, TypeOK
  <2>. QED  BY <1>19, <2>1, EmptyTypes DEF Crash, TypeOK, RunnerStates, FrontStates
<1>. QED
  BY <1>1, <1>2, <1>3, <1>4, <1>5, <1>6, <1>7, <1>8, <1>9, <1>10, <1>11, <1>12, <1>14,
     <1>15, <1>16, <1>17, <1>18, <1>19 DEF RunnerStep

\* Every step keeps the types.
LEMMA StepTypes == TypeOK /\ [Next]_vars => TypeOK'
<1>1. TypeOK /\ UNCHANGED vars => TypeOK'
  BY DEF TypeOK, vars
<1>. QED  BY <1>1, HandshakeTypes, RunnerTypes DEF Next

\* The initial state has the types.
LEMMA InitTypes == Init => TypeOK
<1>. SUFFICES ASSUME Init PROVE TypeOK
  OBVIOUS
<1>1. cert \in File /\ key \in File
  BY IdleTypes DEF Init
<1>2. cached \in [{"h1", "h3"} -> Pair] /\ hs \in [Handshakes -> Handshake]
  BY EmptyTypes, Zenon DEF Init
<1>3. mtime \in Nat /\ issued \in Nat /\ failures \in Nat
  BY DEF Init
<1>4. runner \in RunnerStates /\ front \in FrontStates
  BY DEF Init, RunnerStates, FrontStates
<1>5. due \in BOOLEAN /\ serving \in BOOLEAN /\ missed \in BOOLEAN /\ spoiled \in BOOLEAN
  BY DEF Init
<1>6. tokens \subseteq Nat /\ ready \subseteq Nat
  BY DEF Init
<1>. QED  BY <1>1, <1>2, <1>3, <1>4, <1>5, <1>6 DEF TypeOK

\* The types are right in every reachable state.
THEOREM TypesCorrect == Spec => []TypeOK
  BY InitTypes, StepTypes, PTL DEF Spec

-----------------------------------------------------------------------------
(* Challenges.                                                             *)

\* The CA is told of the order in progress only, and of that one after its token was
\* stored; the tokens are dropped only together with the order.
TokensReady ==
    /\ ready \subseteq {Order}
    /\ ready \subseteq tokens
    /\ runner = "set_ready" => Order \in tokens

\* The inductive invariant for challenges.
ChallengeInv == TypeOK /\ TokensReady /\ ChallengeAnswered

\* Every step of the runner keeps the tokens ahead of the CA.
LEMMA StepTokens ==
    ASSUME TypeOK, TokensReady, [Next]_vars
    PROVE  TokensReady'
<1>. USE DEF TokensReady, Order
<1>1. ASSUME UNCHANGED <<issued, tokens, ready>>, runner' # "set_ready" \/ runner' = runner
      PROVE  TokensReady'
  BY <1>1
<1>2. CASE InsertToken
  BY <1>2 DEF InsertToken
<1>3. CASE SetReady
  BY <1>3 DEF SetReady
<1>4. CASE Issue
  BY <1>4 DEF Issue
<1>5. CASE GiveUp
  BY <1>5 DEF GiveUp
<1>6. CASE OrderInvalid \/ ObtainFails
  BY <1>5, <1>6 DEF OrderInvalid, ObtainFails
<1>7. CASE \E o \in 1 .. MaxOrders : CaFetches(o)
  BY <1>7 DEF CaFetches
<1>8. CASE Crash
  BY <1>8 DEF Crash
<1>9. CASE SpawnFront \/ WaitBound \/ Start \/ WakeAndRenew \/ NewOrder
  BY <1>1, <1>9 DEF SpawnFront, WaitBound, Start, WakeAndRenew, NewOrder
<1>10. CASE OpenCert \/ WriteCert \/ OpenKey \/ WriteKey
  BY <1>1, <1>10 DEF OpenCert, WriteCert, OpenKey, WriteKey
<1>11. CASE BindFront \/ FrontFails \/ Ages
  BY <1>1, <1>11 DEF BindFront, FrontFails, Ages
<1>12. CASE \E h \in Handshakes : Stat(h) \/ HandshakeStep(h)
  BY <1>1, <1>12
     DEF HandshakeStep, Stat, Compare, ReadCert, ReadKey, StoreCached
<1>13. CASE UNCHANGED vars
  BY <1>1, <1>13 DEF vars
<1>. QED
  BY <1>2, <1>3, <1>4, <1>6, <1>7, <1>8, <1>9, <1>10, <1>11, <1>12, <1>13
     DEF Next, RunnerStep

\* Only the CA's request for a token that is not there is recorded as missed.
LEMMA StepMissed ==
    ASSUME TypeOK, TokensReady, ChallengeAnswered, [Next]_vars
    PROVE  ChallengeAnswered'
<1>. USE DEF ChallengeAnswered
<1>1. CASE \E o \in 1 .. MaxOrders : CaFetches(o)
  BY <1>1 DEF CaFetches, Responds, TokensReady
<1>2. CASE SpawnFront \/ WaitBound \/ Start \/ WakeAndRenew \/ NewOrder \/ InsertToken
  BY <1>2 DEF SpawnFront, WaitBound, Start, WakeAndRenew, NewOrder, InsertToken
<1>3. CASE SetReady \/ Issue \/ OpenCert \/ WriteCert \/ OpenKey \/ WriteKey
  BY <1>3 DEF SetReady, Issue, OpenCert, WriteCert, OpenKey, WriteKey
<1>4. CASE OrderInvalid \/ ObtainFails
  BY <1>4 DEF OrderInvalid, ObtainFails, GiveUp
<1>5. CASE BindFront \/ FrontFails \/ Ages \/ Crash
  BY <1>5 DEF BindFront, FrontFails, Ages, Crash
<1>6. CASE \E h \in Handshakes : Stat(h) \/ HandshakeStep(h)
  BY <1>6 DEF HandshakeStep, Stat, Compare, ReadCert, ReadKey, StoreCached
<1>7. CASE UNCHANGED vars
  BY <1>7 DEF vars
<1>. QED  BY <1>1, <1>2, <1>3, <1>4, <1>5, <1>6, <1>7 DEF Next, RunnerStep

\* Whenever the CA asks the listening front for the token of an order in progress,
\* the token is in the store: across failed orders, renewals and restarts.
THEOREM ChallengesAnswered == Spec => []ChallengeAnswered
<1>1. Init => ChallengeInv
  BY InitTypes DEF Init, ChallengeInv, TokensReady, ChallengeAnswered
<1>2. ChallengeInv /\ [Next]_vars => ChallengeInv'
  BY StepTypes, StepTokens, StepMissed DEF ChallengeInv
<1>3. ChallengeInv => ChallengeAnswered
  BY DEF ChallengeInv
<1>. QED  BY <1>1, <1>2, <1>3, PTL DEF Spec

-----------------------------------------------------------------------------
(* Renewals take effect.                                                   *)

\* The file holds the last certificate that was written or, while it is truncated,
\* none; no handshake began with a later one than it holds, or at a later time.
FileCurrent ==
    /\ cert.order <= issued
    /\ runner = "cert_write" => cert.order = 0
    /\ \A h \in Handshakes :
          /\ hs[h].pair.at <= mtime
          /\ hs[h].floor <= issued
          /\ cert.order > 0 => hs[h].floor <= cert.order

\* A certificate read by a handshake that began at modification time t: it is not
\* older than what any handshake that began at t found on disk.
Current(t, c) ==
    /\ c > 0
    /\ t <= mtime
    /\ t = mtime => c = cert.order
    /\ \A h \in Handshakes : hs[h].pair.at = t => hs[h].floor <= c

\* What listener l holds is current, or the empty chain that HTTP/3 reads from a
\* truncated file.
Holds(l, t, c) == (l = "h3" /\ c = 0) \/ Current(t, c)

CachedCurrent ==
    \A l \in {"h1", "h3"} : cached[l].some => Holds(l, cached[l].at, cached[l].cert)

\* A handshake that holds a certificate.
Loaded(h) == hs[h].stage \in {"key", "store", "served"}

LoadedCurrent ==
    \A h \in Handshakes :
       Loaded(h) => Holds(ListenerOf[h], hs[h].pair.at, hs[h].pair.cert)

\* The inductive invariant for what handshakes serve.
ServedInv == TypeOK /\ FileCurrent /\ CachedCurrent /\ LoadedCurrent

\* Numbers are numbers.
LEMMA HandshakeNumbers ==
    ASSUME TypeOK
    PROVE  /\ mtime \in Nat /\ issued \in Nat /\ cert.order \in Nat
           /\ \A h \in Handshakes : /\ hs[h].pair.at \in Nat /\ hs[h].pair.cert \in Nat
                                   /\ hs[h].floor \in Nat
           /\ \A l \in {"h1", "h3"} : cached[l].at \in Nat /\ cached[l].cert \in Nat
<1>1. (\A l \in {"h1", "h3"} : cached[l] \in Pair) /\ \A h \in Handshakes : hs[h] \in Handshake
  BY DEF TypeOK
<1>2. \A h \in Handshakes : hs[h].pair \in Pair /\ hs[h].floor \in Nat
  BY <1>1 DEF Handshake
<1>. QED  BY <1>1, <1>2 DEF TypeOK, File, Pair

\* Writing the certificate leaves what handshakes hold current.
LEMMA FileStepCurrent ==
    ASSUME TypeOK, FileCurrent, UNCHANGED <<cached, hs>>,
           OpenCert \/ WriteCert, NEW t \in Nat, NEW c \in Nat, Current(t, c)
    PROVE  Current(t, c)'
<1>1. mtime \in Nat /\ cert.order \in Nat /\ issued \in Nat
  BY HandshakeNumbers
<1>2. c > 0 /\ t <= mtime
      /\ \A h \in Handshakes : hs'[h].pair.at = t => hs'[h].floor <= c
  BY DEF Current
<1>3. CASE OpenCert
  <2>1. mtime' = mtime + 1
    BY <1>3 DEF OpenCert
  <2>2. t <= mtime' /\ t # mtime'
    BY <1>1, <1>2, <2>1
  <2>. QED  BY <1>2, <2>2 DEF Current
<1>4. CASE WriteCert
  <2>1. /\ cert.order = 0 /\ cert'.order = issued
        /\ mtime' = IF MtimeTies THEN mtime ELSE mtime + 1
    BY <1>4 DEF WriteCert, FileCurrent
  <2>2. t # mtime
    BY <1>2, <2>1 DEF Current
  <2>3. t <= mtime' /\ t # mtime'
    BY <1>1, <1>2, <2>1, <2>2, CertConstants
  <2>. QED  BY <1>2, <2>3 DEF Current
<1>. QED  BY <1>3, <1>4

\* Writing the certificate.
LEMMA FileStep ==
    ASSUME ServedInv, OpenCert \/ WriteCert
    PROVE  FileCurrent' /\ CachedCurrent' /\ LoadedCurrent'
<1>. USE DEF ServedInv
<1>1. UNCHANGED <<cached, hs, issued>>
  BY DEF OpenCert, WriteCert
<1>2. /\ mtime \in Nat /\ issued \in Nat /\ cert.order \in Nat
      /\ \A h \in Handshakes : /\ hs[h].pair.at \in Nat /\ hs[h].pair.cert \in Nat
                              /\ hs[h].floor \in Nat
      /\ \A l \in {"h1", "h3"} : cached[l].at \in Nat /\ cached[l].cert \in Nat
  BY HandshakeNumbers
<1>3. mtime' \in Nat /\ mtime <= mtime'
  BY <1>2, CertConstants DEF OpenCert, WriteCert
<1>4. FileCurrent'
  <2>1. CASE OpenCert
    <3>1. cert'.order = 0 /\ runner' = "cert_write"
      BY <2>1 DEF OpenCert
    <3>. QED  BY <1>1, <1>2, <1>3, <3>1 DEF FileCurrent
  <2>2. CASE WriteCert
    <3>1. cert'.order = issued /\ runner' = "key_open"
      BY <2>2 DEF WriteCert
    <3>. QED  BY <1>1, <1>2, <1>3, <3>1 DEF FileCurrent
  <2>. QED  BY <2>1, <2>2
<1>5. \A t, c \in Nat : Current(t, c) => Current(t, c)'
  BY <1>1, FileStepCurrent
<1>6. CachedCurrent'
  BY <1>1, <1>2, <1>5 DEF CachedCurrent, Holds
<1>7. LoadedCurrent'
  BY <1>1, <1>2, <1>5 DEF LoadedCurrent, Loaded, Holds
<1>. QED  BY <1>4, <1>6, <1>7

\* The other steps of the runner, and of the front, the CA and the calendar, leave
\* the files and the handshakes alone.
LEMMA OtherStep ==
    ASSUME ServedInv, UNCHANGED <<cert, mtime, cached, hs>>,
           issued' = issued \/ issued' = issued + 1,
           runner' # "cert_write" \/ runner' = runner
    PROVE  FileCurrent' /\ CachedCurrent' /\ LoadedCurrent'
<1>1. /\ issued \in Nat /\ cert.order \in Nat /\ \A h \in Handshakes : hs[h].floor \in Nat
  BY HandshakeNumbers DEF ServedInv
<1>2. FileCurrent'
  BY <1>1 DEF ServedInv, FileCurrent
<1>3. \A t, c : Current(t, c) => Current(t, c)'
  BY DEF Current
<1>. QED  BY <1>2, <1>3 DEF ServedInv, CachedCurrent, LoadedCurrent, Loaded, Holds

\* What a step of the handshakes does to the floor of handshake q: nothing, or q has
\* ended, or q has begun.
FloorStep(q) ==
    \/ hs'[q].pair.at = hs[q].pair.at /\ hs'[q].floor = hs[q].floor
    \/ hs'[q].pair.at = 0 /\ hs'[q].floor = 0
    \/ hs'[q].pair.at = mtime /\ hs'[q].floor = cert.order

\* A step of the handshakes leaves what is current current.
LEMMA FloorsCurrent ==
    ASSUME TypeOK, FileCurrent, Untouched, \A q \in Handshakes : FloorStep(q)
    PROVE  /\ FileCurrent'
           /\ \A t, c \in Nat : Current(t, c) => Current(t, c)'
<1>1. /\ mtime \in Nat /\ issued \in Nat /\ cert.order \in Nat
      /\ \A h \in Handshakes : hs[h].pair.at \in Nat /\ hs[h].floor \in Nat
  BY HandshakeNumbers
<1>2. cert' = cert /\ mtime' = mtime /\ issued' = issued /\ runner' = runner
  BY DEF Untouched
<1>3. FileCurrent'
  BY <1>1, <1>2 DEF FileCurrent, FloorStep
<1>4. ASSUME NEW t \in Nat, NEW c \in Nat, Current(t, c)
      PROVE  Current(t, c)'
  <2>1. ASSUME NEW q \in Handshakes, hs'[q].pair.at = t
        PROVE  hs'[q].floor <= c
    BY <1>1, <1>4, <2>1 DEF Current, FloorStep
  <2>. QED  BY <1>2, <1>4, <2>1 DEF Current
<1>. QED  BY <1>3, <1>4

\* Stat notes the modification time and the certificate on disk.
LEMMA StatEffect ==
    ASSUME TypeOK, NEW h \in Handshakes, Stat(h)
    PROVE  /\ Untouched /\ cached' = cached
           /\ \A q \in Handshakes \ {h} : hs'[q] = hs[q]
           /\ hs'[h].stage = "compare" /\ hs'[h].floor = cert.order
           /\ hs'[h].pair.at = mtime
<1>1. hs' = [hs EXCEPT ![h] = [stage |-> "compare", floor |-> cert.order,
                               pair |-> [NoPair EXCEPT !.at = mtime]]]
  BY DEF Stat
<1>2. [NoPair EXCEPT !.at = mtime].at = mtime
  BY DEF NoPair
<1>3. hs'[h] = [stage |-> "compare", floor |-> cert.order,
                pair |-> [NoPair EXCEPT !.at = mtime]]
      /\ \A q \in Handshakes \ {h} : hs'[q] = hs[q]
  BY <1>1 DEF TypeOK
<1>. QED  BY <1>2, <1>3 DEF Stat, Untouched

\* Compare serves the cached pair that is filed under its time, or goes on to load.
LEMMA CompareEffect ==
    ASSUME TypeOK, NEW h \in Handshakes, Compare(h)
    PROVE  /\ Untouched /\ cached' = cached
           /\ \A q \in Handshakes \ {h} : hs'[q] = hs[q]
           /\ hs'[h].floor = hs[h].floor /\ hs'[h].pair.at = hs[h].pair.at
           /\ \/ hs'[h].stage = "cert"
              \/ cached[ListenerOf[h]].some /\ hs'[h].pair = cached[ListenerOf[h]]
<1>1. hs \in [Handshakes -> Handshake] /\ hs[h] \in Handshake
  BY DEF TypeOK
<1>2. CASE hs' = [hs EXCEPT ![h].stage = "cert"]
  <2>1. \A q \in Handshakes \ {h} : hs'[q] = hs[q]
    BY <1>1, <1>2
  <2>2. /\ hs'[h].floor = hs[h].floor /\ hs'[h].pair = hs[h].pair
        /\ hs'[h].stage = "cert"
    BY <1>1, <1>2 DEF Handshake
  <2>. QED  BY <2>1, <2>2 DEF Compare, Untouched
<1>3. CASE /\ cached[ListenerOf[h]].some
           /\ cached[ListenerOf[h]].at = hs[h].pair.at
           /\ hs' = [hs EXCEPT ![h].stage = "served", ![h].pair = cached[ListenerOf[h]]]
  <2>1. \A q \in Handshakes \ {h} : hs'[q] = hs[q]
    BY <1>1, <1>3
  <2>2. /\ hs'[h].floor = hs[h].floor /\ hs'[h].pair = cached[ListenerOf[h]]
    BY <1>1, <1>3 DEF Handshake
  <2>. QED  BY <1>3, <2>1, <2>2 DEF Compare, Untouched
<1>. QED  BY <1>2, <1>3 DEF Compare

\* ReadCert gives up or takes the certificate; over TCP it takes none from an empty file.
LEMMA ReadCertEffect ==
    ASSUME TypeOK, NEW h \in Handshakes, ReadCert(h)
    PROVE  /\ Untouched /\ cached' = cached
           /\ \A q \in Handshakes \ {h} : hs'[q] = hs[q]
           /\ \/ hs'[h] = IdleHandshake
              \/ /\ cert.order > 0 \/ ListenerOf[h] = "h3"
                 /\ hs'[h].floor = hs[h].floor /\ hs'[h].pair.at = hs[h].pair.at
                 /\ hs'[h].pair.cert = cert.order
<1>1. /\ hs \in [Handshakes -> Handshake] /\ hs[h] \in Handshake
      /\ hs[h].pair \in Pair
  BY DEF TypeOK, Handshake
<1>2. CASE hs' = [hs EXCEPT ![h] = IdleHandshake]
  BY <1>1, <1>2 DEF ReadCert, Untouched
<1>3. CASE /\ cert.order > 0 \/ ListenerOf[h] = "h3"
           /\ hs' = [hs EXCEPT ![h].stage = "key", ![h].pair.cert = cert.order]
  <2>1. \A q \in Handshakes \ {h} : hs'[q] = hs[q]
    BY <1>1, <1>3
  <2>2. /\ hs'[h].floor = hs[h].floor
        /\ hs'[h].pair = [hs[h].pair EXCEPT !.cert = cert.order]
    BY <1>1, <1>3 DEF Handshake
  <2>3. hs'[h].pair.at = hs[h].pair.at /\ hs'[h].pair.cert = cert.order
    BY <1>1, <2>2 DEF Pair
  <2>. QED  BY <1>3, <2>1, <2>2, <2>3 DEF ReadCert, Untouched
<1>. QED  BY <1>2, <1>3 DEF ReadCert, Abort

\* ReadKey gives up or leaves the certificate that was read as it is.
LEMMA ReadKeyEffect ==
    ASSUME TypeOK, NEW h \in Handshakes, ReadKey(h)
    PROVE  /\ Untouched /\ cached' = cached /\ hs[h].stage = "key"
           /\ \A q \in Handshakes \ {h} : hs'[q] = hs[q]
           /\ \/ hs'[h] = IdleHandshake
              \/ /\ hs'[h].floor = hs[h].floor /\ hs'[h].pair.at = hs[h].pair.at
                 /\ hs'[h].pair.cert = hs[h].pair.cert
<1>1. /\ hs \in [Handshakes -> Handshake] /\ hs[h] \in Handshake
      /\ hs[h].pair \in Pair
  BY DEF TypeOK, Handshake
<1>2. CASE hs' = [hs EXCEPT ![h] = IdleHandshake]
  BY <1>1, <1>2 DEF ReadKey, Untouched
<1>3. CASE hs' = [hs EXCEPT ![h].stage = "store", ![h].pair.key = key.order]
  <2>1. \A q \in Handshakes \ {h} : hs'[q] = hs[q]
    BY <1>1, <1>3
  <2>2. /\ hs'[h].floor = hs[h].floor
        /\ hs'[h].pair = [hs[h].pair EXCEPT !.key = key.order]
    BY <1>1, <1>3 DEF Handshake
  <2>3. hs'[h].pair.at = hs[h].pair.at /\ hs'[h].pair.cert = hs[h].pair.cert
    BY <1>1, <2>2 DEF Pair
  <2>. QED  BY <2>1, <2>2, <2>3 DEF ReadKey, Untouched
<1>. QED  BY <1>2, <1>3 DEF ReadKey, Abort

\* StoreCached files the certificate that was read in the cache of its listener.
LEMMA StoreEffect ==
    ASSUME TypeOK, NEW h \in Handshakes, StoreCached(h)
    PROVE  /\ Untouched /\ hs[h].stage = "store"
           /\ \A q \in Handshakes \ {h} : hs'[q] = hs[q]
           /\ hs'[h].floor = hs[h].floor /\ hs'[h].pair.at = hs[h].pair.at
           /\ hs'[h].pair.cert = hs[h].pair.cert
           /\ \A l \in {"h1", "h3"} :
                 cached'[l] = IF l = ListenerOf[h] THEN hs'[h].pair ELSE cached[l]
<1>. DEFINE p == [hs[h].pair EXCEPT !.some = TRUE]
<1>1. /\ hs \in [Handshakes -> Handshake] /\ hs[h] \in Handshake
      /\ hs[h].pair \in Pair /\ ListenerOf[h] \in {"h1", "h3"}
      /\ cached \in [{"h1", "h3"} -> Pair]
  BY CertConstants DEF TypeOK, Handshake
<1>2. /\ cached' = [cached EXCEPT ![ListenerOf[h]] = p]
      /\ hs' = [hs EXCEPT ![h].stage = "served", ![h].pair = p]
      /\ hs[h].stage = "store" /\ Untouched
  BY DEF StoreCached, Untouched
<1>3. p.at = hs[h].pair.at /\ p.cert = hs[h].pair.cert
  BY <1>1 DEF Pair
<1>. HIDE DEF p
<1>4. \A q \in Handshakes \ {h} : hs'[q] = hs[q]
  BY <1>1, <1>2
<1>5. hs'[h].floor = hs[h].floor /\ hs'[h].pair = p
  BY <1>1, <1>2 DEF Handshake
<1>6. \A l \in {"h1", "h3"} : cached'[l] = IF l = ListenerOf[h] THEN p ELSE cached[l]
  BY <1>1, <1>2
<1>. QED  BY <1>2, <1>3, <1>4, <1>5, <1>6

\* Current after the step.
Stays(t, c) ==
    /\ c > 0
    /\ t <= mtime'
    /\ t = mtime' => c = cert'.order
    /\ \A h \in Handshakes : hs'[h].pair.at = t => hs'[h].floor <= c

\* What listener l holds is so after the step.
StillHolds(l, t, c) == (l = "h3" /\ c = 0) \/ Stays(t, c)

\* A step of a handshake keeps what is held current: a certificate that is read is at
\* least as new as what any handshake has found, and one that is served from the
\* cache is as new as what was found at the same time.
LEMMA HandshakesCurrent ==
    ASSUME ServedInv, NEW h \in Handshakes, Stat(h) \/ HandshakeStep(h)
    PROVE  FileCurrent' /\ CachedCurrent' /\ LoadedCurrent'
<1>. USE DEF ServedInv
<1>1. /\ mtime \in Nat /\ issued \in Nat /\ cert.order \in Nat
      /\ \A q \in Handshakes : /\ hs[q].pair.at \in Nat /\ hs[q].pair.cert \in Nat
                              /\ hs[q].floor \in Nat
      /\ \A l \in {"h1", "h3"} : cached[l].at \in Nat /\ cached[l].cert \in Nat
  BY HandshakeNumbers
<1>2. Untouched /\ \A q \in Handshakes \ {h} : hs'[q] = hs[q]
  BY StatEffect, CompareEffect, ReadCertEffect, ReadKeyEffect, StoreEffect
     DEF HandshakeStep
<1>3. FloorStep(h)
  <2>1. CASE Stat(h)
    BY <2>1, StatEffect DEF FloorStep
  <2>2. CASE Compare(h)
    BY <2>2, CompareEffect DEF FloorStep
  <2>3. CASE ReadCert(h)
    BY <2>3, ReadCertEffect, IdleTypes DEF FloorStep
  <2>4. CASE ReadKey(h)
    BY <2>4, ReadKeyEffect, IdleTypes DEF FloorStep
  <2>5. CASE StoreCached(h)
    BY <2>5, StoreEffect DEF FloorStep
  <2>. QED  BY <2>1, <2>2, <2>3, <2>4, <2>5 DEF HandshakeStep
<1>4. \A q \in Handshakes : FloorStep(q)
  BY <1>2, <1>3 DEF FloorStep
<1>5. FileCurrent' /\ \A t, c \in Nat : Current(t, c) => Stays(t, c)
  BY <1>2, <1>4, FloorsCurrent DEF Current, Stays
<1>. DEFINE mine == ListenerOf[h]
            Kept == StillHolds(mine, hs'[h].pair.at, hs'[h].pair.cert)
<1>6. mine \in {"h1", "h3"} /\ \A l, t, c : Holds(l, t, c)' <=> StillHolds(l, t, c)
  BY CertConstants DEF Holds, StillHolds, Current, Stays
<1>7. \A l : \A t, c \in Nat : Holds(l, t, c) => StillHolds(l, t, c)
  BY <1>5 DEF Holds, StillHolds
<1>8. SUFFICES CachedCurrent' /\ (Loaded(h)' => Kept)
  <2>1. ASSUME NEW q \in Handshakes \ {h}, Loaded(q)'
        PROVE  StillHolds(ListenerOf[q], hs'[q].pair.at, hs'[q].pair.cert)
    <3>1. hs'[q] = hs[q]
      BY <1>2
    <3>2. Holds(ListenerOf[q], hs[q].pair.at, hs[q].pair.cert)
      BY <2>1, <3>1 DEF Loaded, LoadedCurrent
    <3>. QED  BY <1>1, <1>7, <3>1, <3>2
  <2>2. \A q \in Handshakes :
           Loaded(q)' => StillHolds(ListenerOf[q], hs'[q].pair.at, hs'[q].pair.cert)
    BY <1>8, <2>1
  <2>. QED  BY <1>5, <1>8, <2>2 DEF LoadedCurrent, Holds, StillHolds, Current, Stays
<1>9. ASSUME NEW l \in {"h1", "h3"}, cached'[l] = cached[l]
      PROVE  cached'[l].some => StillHolds(l, cached'[l].at, cached'[l].cert)
  BY <1>1, <1>7, <1>9 DEF CachedCurrent
<1>10. ASSUME cached' = cached
       PROVE  CachedCurrent'
  BY <1>9, <1>10 DEF CachedCurrent, Holds, StillHolds, Current, Stays
<1>11. CASE Stat(h)
  BY <1>10, <1>11, StatEffect DEF Loaded
<1>12. CASE Compare(h)
  <2>1. CASE hs'[h].stage = "cert"
    BY <1>10, <1>12, <2>1, CompareEffect DEF Loaded
  <2>2. CASE cached[ListenerOf[h]].some /\ hs'[h].pair = cached[ListenerOf[h]]
    <3>1. CachedCurrent'
      BY <1>10, <1>12, CompareEffect
    <3>2. ASSUME Loaded(h)'
          PROVE  Kept
      <4>1. Holds(mine, cached[mine].at, cached[mine].cert)
        BY <1>6, <2>2 DEF CachedCurrent
      <4>. QED  BY <1>1, <1>6, <1>7, <2>2, <4>1
    <3>. QED  BY <3>1, <3>2
  <2>. QED  BY <1>12, <2>1, <2>2, CompareEffect
<1>13. CASE ReadCert(h)
  <2>1. CachedCurrent'
    BY <1>10, <1>13, ReadCertEffect
  <2>2. ASSUME Loaded(h)'
        PROVE  Kept
    <3>1. hs'[h] # IdleHandshake
      BY <2>2, IdleTypes DEF Loaded
    <3>2. /\ cert.order > 0 \/ mine = "h3"
          /\ hs'[h].pair.at = hs[h].pair.at /\ hs'[h].pair.cert = cert.order
      BY <1>13, <3>1, ReadCertEffect
    <3>3. cert' = cert /\ mtime' = mtime
      BY <1>2 DEF Untouched
    <3>4. cert.order > 0 => \A q \in Handshakes : hs'[q].floor <= cert.order
      BY <1>5, <3>3 DEF FileCurrent
    <3>5. hs[h].pair.at <= mtime
      BY DEF FileCurrent
    <3>. QED  BY <1>1, <3>2, <3>3, <3>4, <3>5 DEF Stays, StillHolds
  <2>. QED  BY <2>1, <2>2
<1>14. CASE ReadKey(h)
  <2>1. CachedCurrent'
    BY <1>10, <1>14, ReadKeyEffect
  <2>2. ASSUME Loaded(h)'
        PROVE  Kept
    <3>1. hs'[h] # IdleHandshake
      BY <2>2, IdleTypes DEF Loaded
    <3>2. /\ hs'[h].pair.at = hs[h].pair.at /\ hs'[h].pair.cert = hs[h].pair.cert
          /\ Loaded(h)
      BY <1>14, <3>1, ReadKeyEffect DEF Loaded
    <3>. QED  BY <1>1, <1>7, <3>2 DEF LoadedCurrent
  <2>. QED  BY <2>1, <2>2
<1>15. CASE StoreCached(h)
  <2>1. /\ hs'[h].pair.at = hs[h].pair.at /\ hs'[h].pair.cert = hs[h].pair.cert
        /\ hs[h].stage = "store"
    BY <1>15, StoreEffect
  <2>2. Kept
    BY <1>1, <1>7, <2>1 DEF LoadedCurrent, Loaded
  <2>3. ASSUME NEW l \in {"h1", "h3"}
        PROVE  cached'[l].some => StillHolds(l, cached'[l].at, cached'[l].cert)
    <3>1. cached'[l] = IF l = mine THEN hs'[h].pair ELSE cached[l]
      BY <1>15, StoreEffect
    <3>2. CASE l = mine
      BY <2>2, <3>1, <3>2
    <3>3. CASE l # mine
      BY <1>9, <3>1, <3>3
    <3>. QED  BY <3>2, <3>3
  <2>4. CachedCurrent'
    BY <2>3 DEF CachedCurrent, Holds, StillHolds, Current, Stays
  <2>. QED  BY <2>2, <2>4
<1>. QED  BY <1>11, <1>12, <1>13, <1>14, <1>15 DEF HandshakeStep

\* Every step keeps what handshakes serve current.
LEMMA StepServed == ServedInv /\ [Next]_vars => ServedInv'
<1>. SUFFICES ASSUME ServedInv, [Next]_vars
              PROVE  FileCurrent' /\ CachedCurrent' /\ LoadedCurrent'
  BY StepTypes DEF ServedInv
<1>1. CASE OpenCert \/ WriteCert
  BY <1>1, FileStep
<1>2. CASE \E h \in Handshakes : Stat(h) \/ HandshakeStep(h)
  BY <1>2, HandshakesCurrent
<1>3. CASE SpawnFront \/ WaitBound \/ Start \/ WakeAndRenew \/ NewOrder \/ InsertToken
  BY <1>3, OtherStep
     DEF SpawnFront, WaitBound, Start, WakeAndRenew, NewOrder, InsertToken
<1>4. CASE SetReady \/ Issue \/ OpenKey \/ WriteKey
  BY <1>4, OtherStep DEF SetReady, Issue, OpenKey, WriteKey, Order
<1>5. CASE OrderInvalid \/ ObtainFails
  BY <1>5, OtherStep DEF OrderInvalid, ObtainFails, GiveUp
<1>6. CASE BindFront \/ FrontFails \/ Ages \/ \E o \in 1 .. MaxOrders : CaFetches(o)
  BY <1>6, OtherStep DEF BindFront, FrontFails, Ages, CaFetches
<1>7. CASE Crash
  <2>1. /\ cert' = cert /\ mtime' = mtime /\ issued' = issued /\ runner' = "down"
        /\ \A l \in {"h1", "h3"} : cached'[l] = NoPair
        /\ \A h \in Handshakes : hs'[h] = IdleHandshake
    BY <1>7 DEF Crash
  <2>2. mtime \in Nat /\ issued \in Nat /\ cert.order \in Nat
    BY HandshakeNumbers DEF ServedInv
  <2>3. FileCurrent'
    BY <2>1, <2>2, IdleTypes DEF FileCurrent, ServedInv
  <2>. QED  BY <2>1, <2>3, IdleTypes DEF CachedCurrent, LoadedCurrent, Loaded
<1>8. CASE UNCHANGED vars
  BY <1>8, OtherStep DEF vars
<1>. QED
  BY <1>1, <1>2, <1>3, <1>4, <1>5, <1>6, <1>7, <1>8 DEF Next, RunnerStep

\* The invariant holds at the start.
LEMMA InitServed == Init => ServedInv
<1>. SUFFICES ASSUME Init PROVE FileCurrent /\ CachedCurrent /\ LoadedCurrent
  BY InitTypes DEF ServedInv
<1>1. /\ cert.order = 0 /\ issued = 0 /\ mtime = 0 /\ runner = "down"
      /\ \A l \in {"h1", "h3"} : cached[l] = NoPair
      /\ \A h \in Handshakes : hs[h] = IdleHandshake
  BY IdleTypes DEF Init
<1>. QED  BY <1>1, IdleTypes DEF FileCurrent, CachedCurrent, LoadedCurrent, Loaded

\* A handshake serves a certificate that is not older than the whole one on disk when
\* it began, except for the empty chain that load_certs() of http3.rs makes of a
\* truncated file, whatever handshakes on either listener run beside it.
THEOREM ServesCurrent ==
    Spec => [](\A h \in Handshakes :
                  hs[h].stage = "served" =>
                     \/ hs[h].pair.cert >= hs[h].floor
                     \/ ListenerOf[h] = "h3" /\ hs[h].pair.cert = 0)
<1>. DEFINE Served == \A h \in Handshakes :
                         hs[h].stage = "served" =>
                            \/ hs[h].pair.cert >= hs[h].floor
                            \/ ListenerOf[h] = "h3" /\ hs[h].pair.cert = 0
<1>1. ServedInv => Served
  <2>. SUFFICES ASSUME ServedInv, NEW h \in Handshakes, hs[h].stage = "served",
                       ~(ListenerOf[h] = "h3" /\ hs[h].pair.cert = 0)
                PROVE  hs[h].pair.cert >= hs[h].floor
    OBVIOUS
  <2>1. hs[h].floor <= hs[h].pair.cert
    BY DEF ServedInv, LoadedCurrent, Loaded, Holds, Current
  <2>2. hs[h].pair.cert \in Nat /\ hs[h].floor \in Nat
    BY HandshakeNumbers DEF ServedInv
  <2>. QED  BY <2>1, <2>2
<1>. QED  BY <1>1, InitServed, StepServed, PTL DEF Spec

\* So no handshake serves an old certificate where all of them are over TCP, which is
\* how the proxy runs without HTTP/3.
THEOREM NoOldCertOverTcp ==
    ASSUME \A h \in Handshakes : ListenerOf[h] = "h1"
    PROVE  Spec => []NoOldCertServed
<1>. DEFINE Served == \A h \in Handshakes :
                         hs[h].stage = "served" =>
                            \/ hs[h].pair.cert >= hs[h].floor
                            \/ ListenerOf[h] = "h3" /\ hs[h].pair.cert = 0
<1>1. Served => NoOldCertServed
  BY DEF NoOldCertServed
<1>2. Spec => []Served
  BY ServesCurrent
<1>. QED  BY <1>1, <1>2, PTL
-----------------------------------------------------------------------------
(* The files.                                                              *)

\* run_order() holds a certificate that was issued, and writes it to the files.
Writing == runner \in {"cert_open", "cert_write", "key_open", "key_write"}

\* obtain() is at work.
Obtaining == Writing \/ runner \in {"order", "insert", "set_ready", "validate"}

\* While obtain() is at work, what start() or needs_renewal() found is still so: there
\* is no good pair, or it is due.  The key on disk is of an order the CA has issued, and
\* of an earlier one while a new pair is written.
PairInv ==
    /\ TypeOK
    /\ key.order <= issued
    /\ Writing => key.order < issued
    /\ Obtaining => due \/ ~Usable(cert, key)

\* A pair on disk whose certificate and key belong together is replaced only if it is
\* due and the CA has issued the certificate that is to take its place.
GoodPairKept ==
    Usable(cert, key) /\ <<cert, key>>' # <<cert, key>>
       => due /\ cert.order < issued

\* Every step keeps the pair's invariant, and a good pair.
LEMMA StepPair ==
    ASSUME PairInv, [Next]_vars
    PROVE  PairInv' /\ (GoodPairKept \/ UNCHANGED vars)
<1>. USE DEF PairInv, GoodPairKept, Obtaining, Writing
<1>1. TypeOK'
  BY StepTypes
<1>2. /\ issued \in Nat /\ key.order \in Nat /\ cert.order \in Nat /\ due \in BOOLEAN
      /\ runner \in RunnerStates
  BY DEF TypeOK, File
<1>3. ASSUME UNCHANGED <<cert, key, issued>>, due' = due \/ due' = TRUE,
             runner' = runner \/ ~Obtaining'
      PROVE  PairInv' /\ GoodPairKept
  BY <1>1, <1>2, <1>3 DEF Usable
<1>4. CASE Start \/ WakeAndRenew
  BY <1>1, <1>2, <1>4 DEF Start, WakeAndRenew, NeedsRenewal, Usable
<1>5. CASE NewOrder \/ InsertToken \/ SetReady
  BY <1>1, <1>2, <1>5 DEF NewOrder, InsertToken, SetReady, Usable
<1>6. CASE Issue
  BY <1>1, <1>2, <1>6 DEF Issue, Order, Usable
<1>7. CASE OpenCert
  BY <1>1, <1>2, <1>7 DEF OpenCert, Usable
<1>8. CASE WriteCert
  BY <1>1, <1>2, <1>8 DEF WriteCert, Usable
<1>9. CASE OpenKey
  BY <1>1, <1>2, <1>9 DEF OpenKey, Usable
<1>10. CASE WriteKey
  BY <1>1, <1>2, <1>10 DEF WriteKey, Usable
<1>11. CASE OrderInvalid \/ ObtainFails
  BY <1>3, <1>11 DEF OrderInvalid, ObtainFails, GiveUp
<1>12. CASE SpawnFront \/ WaitBound \/ BindFront \/ FrontFails \/ Ages \/ Crash
  BY <1>3, <1>12 DEF SpawnFront, WaitBound, BindFront, FrontFails, Ages, Crash
<1>13. CASE \E o \in 1 .. MaxOrders : CaFetches(o)
  BY <1>3, <1>13 DEF CaFetches
<1>14. CASE \E h \in Handshakes : Stat(h) \/ HandshakeStep(h)
  BY <1>3, <1>14
     DEF HandshakeStep, Stat, Compare, ReadCert, ReadKey, StoreCached
<1>15. CASE UNCHANGED vars
  BY <1>3, <1>15 DEF vars
<1>. QED
  BY <1>4, <1>5, <1>6, <1>7, <1>8, <1>9, <1>10, <1>11, <1>12, <1>13, <1>14, <1>15
     DEF Next, RunnerStep

\* A certificate and a key on disk that belong together stay as they are until they are
\* due and there is a new certificate to write, whatever orders fail and wherever the
\* process dies: what start() and needs_renewal() looked at some steps before
\* run_order() opens the files still holds when it does.
THEOREM GoodPairsKept == Spec => [][GoodPairKept]_vars
<1>1. Init => PairInv
  <2>. SUFFICES ASSUME Init PROVE PairInv
    OBVIOUS
  <2>1. TypeOK /\ key.order = 0 /\ issued = 0 /\ runner = "down"
    BY InitTypes, IdleTypes DEF Init
  <2>. QED  BY <2>1 DEF PairInv, Obtaining, Writing
<1>2. PairInv /\ [Next]_vars => PairInv'
  BY StepPair
<1>3. PairInv /\ [Next]_vars => [GoodPairKept]_vars
  BY StepPair
<1>. QED  BY <1>1, <1>2, <1>3, PTL DEF Spec
=============================================================================

------------------------- MODULE PluginChainProofs -------------------------
(***************************************************************************)
(* Theorems about PluginChain, for any number of requests, routes, plugins *)
(* and threads, any deadline and any limit on bodies.                      *)
(***************************************************************************)
EXTENDS PluginChain, Integers, SequenceTheorems, FiniteSetTheorems, TLAPS

-----------------------------------------------------------------------------
(* Chains and their nesting.                                               *)

\* A chain is a sequence of plugins.
LEMMA ChainIs ==
    ASSUME NEW t \in Routes
    PROVE  ChainOf(t) \in Seq(Plugin) /\ Len(ChainOf(t)) \in Nat
<1>1. Global \in Seq(Plugin)
  <2>1. Range(Global) \subseteq Plugin
    BY DEF Plugin
  <2>. QED  BY <2>1, PluginConstants, SeqMonotonic
<1>2. Own[t] \in Seq(Plugin)
  <2>1. Range(Own[t]) \subseteq Plugin
    BY DEF Plugin
  <2>. QED  BY <2>1, PluginConstants, SeqMonotonic
<1>3. ChainOf(t) \in Seq(Plugin)
  BY <1>1, <1>2, ConcatProperties DEF ChainOf
<1>. QED  BY <1>3, LenProperties

\* A function on 1 .. n is a sequence of length n.
LEMMA FunctionSeq ==
    ASSUME NEW n \in Nat, NEW S, NEW f \in [1 .. n -> S]
    PROVE  f \in Seq(S) /\ Len(f) = n
<1>1. f \in Seq(S)
  BY SeqDef
<1>2. DOMAIN f = 1 .. n /\ DOMAIN f = 1 .. Len(f) /\ Len(f) \in Nat
  BY <1>1, LenProperties
<1>. QED  BY <1>1, <1>2

\* The elements of two sequences put together.
LEMMA Joined ==
    ASSUME NEW u \in Seq(Events), NEW w \in Seq(Events)
    PROVE  /\ u \o w \in Seq(Events) /\ Len(u \o w) = Len(u) + Len(w)
           /\ \A i \in 1 .. Len(u) : (u \o w)[i] = u[i]
           /\ \A i \in 1 .. Len(w) : (u \o w)[Len(u) + i] = w[i]
<1>. DEFINE v == u \o w
            m == Len(u)
            k == Len(w)
<1>1. v \in Seq(Events) /\ Len(v) = m + k /\ m \in Nat /\ k \in Nat
  BY ConcatProperties, LenProperties
<1>2. \A i \in 1 .. m + k : v[i] = IF i <= m THEN u[i] ELSE w[i - m]
  BY ConcatProperties
<1>. HIDE DEF v, m, k
<1>3. \A i \in 1 .. m : v[i] = u[i]
  BY <1>1, <1>2
<1>4. ASSUME NEW i \in 1 .. k PROVE v[m + i] = w[i]
  <2>1. m + i \in 1 .. m + k /\ ~(m + i <= m) /\ (m + i) - m = i
    BY <1>1
  <2>. QED  BY <1>2, <2>1
<1>. QED  BY <1>1, <1>3, <1>4 DEF v, m, k

\* The beginning of a sequence.
LEMMA Beginning ==
    ASSUME NEW u \in Seq(Events), NEW l \in Nat, l <= Len(u)
    PROVE  /\ SubSeq(u, 1, l) \in Seq(Events) /\ Len(SubSeq(u, 1, l)) = l
           /\ \A i \in 1 .. l : SubSeq(u, 1, l)[i] = u[i]
<1>. DEFINE v == SubSeq(u, 1, l)
            m == Len(u)
<1>1. m \in Nat /\ l <= m
  BY LenProperties
<1>. HIDE DEF m
<1>2. 1 \in 1 .. m + 1 /\ l \in 1 - 1 .. m
  BY <1>1
<1>3. /\ v \in Seq(Events)
      /\ Len(v) = IF 1 <= l THEN l - 1 + 1 ELSE 0
      /\ \A i \in 1 .. l - 1 + 1 : v[i] = u[1 + i - 1]
  BY <1>2, SubSeqProperties DEF m
<1>. HIDE DEF v
<1>4. l - 1 + 1 = l /\ \A i \in 1 .. l : 1 + i - 1 = i
  OBVIOUS
<1>5. Len(v) = l
  BY <1>3
<1>6. \A i \in 1 .. l : v[i] = u[i]
  BY <1>3, <1>4
<1>. QED  BY <1>3, <1>5, <1>6 DEF v

\* The nesting of a chain of n plugins: they see the request in their order, then
\* it is the upstream's turn, then they see the response in the reverse order.
LEMMA NestingIs ==
    ASSUME NEW t \in Routes
    PROVE  LET c == ChainOf(t)
               n == Len(c)
           IN /\ Nesting(t) \in Seq(Events) /\ Len(Nesting(t)) = n + n + 1
              /\ \A i \in 1 .. n : Nesting(t)[i] = [what |-> "request", by |-> c[i]]
              /\ Nesting(t)[n + 1] = Origin
              /\ \A i \in 1 .. n : Nesting(t)[n + 1 + i] =
                    [what |-> "response", by |-> c[n + 1 - i]]
<1>. DEFINE c == ChainOf(t)
            n == Len(c)
            fore == [i \in DOMAIN c |-> [what |-> "request", by |-> c[i]]]
            b == Reverse(c)
            back == [i \in DOMAIN b |-> [what |-> "response", by |-> b[i]]]
<1>1. c \in Seq(Plugin) /\ n \in Nat /\ DOMAIN c = 1 .. n /\ c \in [1 .. n -> Plugin]
  BY ChainIs, LenProperties
<1>2. Nesting(t) = fore \o <<Origin>> \o back
  BY DEF Nesting, ChainOf
<1>. HIDE DEF c
<1>. HIDE DEF n
<1>3. \A x \in Plugin : [what |-> "request", by |-> x] \in Events
                        /\ [what |-> "response", by |-> x] \in Events
  BY DEF Events
<1>4. fore \in Seq(Events) /\ Len(fore) = n
      /\ \A i \in 1 .. n : fore[i] = [what |-> "request", by |-> c[i]]
  <2>1. fore \in [1 .. n -> Events]
    BY <1>1, <1>3
  <2>. QED  BY <1>1, <2>1, FunctionSeq
<1>5. b = [i \in 1 .. n |-> c[(n - i) + 1]]
  BY DEF Reverse, n
<1>6. b \in [1 .. n -> Plugin] /\ \A i \in 1 .. n : b[i] = c[n + 1 - i]
  <2>1. \A i \in 1 .. n : (n - i) + 1 \in 1 .. n /\ (n - i) + 1 = n + 1 - i
    BY <1>1
  <2>. QED  BY <1>1, <1>5, <2>1
<1>. HIDE DEF b
<1>7. back \in Seq(Events) /\ Len(back) = n
      /\ \A i \in 1 .. n : back[i] = [what |-> "response", by |-> c[n + 1 - i]]
  <2>1. DOMAIN b = 1 .. n
    BY <1>6
  <2>2. back \in [1 .. n -> Events]
    BY <1>3, <1>6, <2>1
  <2>. QED  BY <1>1, <1>6, <2>1, <2>2, FunctionSeq
<1>. HIDE DEF fore, back
<1>8. <<Origin>> \in Seq(Events) /\ Len(<<Origin>>) = 1 /\ <<Origin>>[1] = Origin
  BY DEF Events, Origin
<1>. DEFINE mid == <<Origin>>
<1>9. mid \in Seq(Events) /\ Len(mid) = 1 /\ mid[1] = Origin
  BY <1>8
<1>10. Nesting(t) = fore \o mid \o back
  BY <1>2
<1>. HIDE DEF mid
<1>. DEFINE half == fore \o mid
<1>11. /\ half \in Seq(Events) /\ Len(half) = n + 1
       /\ \A i \in 1 .. n : half[i] = fore[i]
       /\ half[n + 1] = Origin
  <2>1. /\ half \in Seq(Events) /\ Len(half) = Len(fore) + Len(mid)
        /\ \A i \in 1 .. Len(fore) : half[i] = fore[i]
        /\ \A i \in 1 .. Len(mid) : half[Len(fore) + i] = mid[i]
    <3>1. fore \in Seq(Events) /\ mid \in Seq(Events)
      BY <1>4, <1>9
    <3>. QED  BY <3>1, Joined, Zenon
  <2>. HIDE DEF half
  <2>2. half[n + 1] = mid[1]
    BY <1>4, <1>9, <2>1
  <2>. QED  BY <1>4, <1>9, <2>1, <2>2
<1>12. Nesting(t) = half \o back
  BY <1>10
<1>. HIDE DEF half
<1>13. /\ Nesting(t) \in Seq(Events) /\ Len(Nesting(t)) = n + 1 + n
       /\ \A i \in 1 .. n + 1 : Nesting(t)[i] = half[i]
       /\ \A i \in 1 .. n : Nesting(t)[n + 1 + i] = back[i]
  <2>1. half \in Seq(Events) /\ back \in Seq(Events)
    BY <1>7, <1>11
  <2>2. /\ half \o back \in Seq(Events) /\ Len(half \o back) = Len(half) + Len(back)
        /\ \A i \in 1 .. Len(half) : (half \o back)[i] = half[i]
        /\ \A i \in 1 .. Len(back) : (half \o back)[Len(half) + i] = back[i]
    BY <2>1, Joined, Zenon
  <2>. QED  BY <1>7, <1>11, <1>12, <2>2, Zenon
<1>14. Len(Nesting(t)) = n + n + 1
  BY <1>1, <1>13
<1>15. \A i \in 1 .. n : Nesting(t)[i] = [what |-> "request", by |-> c[i]]
  BY <1>1, <1>4, <1>11, <1>13
<1>16. Nesting(t)[n + 1] = Origin
  BY <1>1, <1>11, <1>13
<1>17. \A i \in 1 .. n : Nesting(t)[n + 1 + i] = [what |-> "response", by |-> c[n + 1 - i]]
  BY <1>7, <1>13
<1>. QED  BY <1>13, <1>14, <1>15, <1>16, <1>17 DEF c, n

-----------------------------------------------------------------------------
(* The invariant.                                                          *)

\* How far the message of a request has come, told from the place the request is
\* at: s is its stage, run whether a thread runs its phase, h the hook, m the length
\* of its trace, o its outcome, n the length of its chain.
Placed(s, run, h, m, o, n) ==
    /\ s \in {"idle", "buffer"} => ~run /\ m = 0
    /\ s = "request" => IF run THEN h \in 1 .. n /\ m = h - 1 ELSE m = 0
    /\ s \in {"head", "collect"} => ~run /\ m = n
    /\ s = "response" => IF run THEN h \in 1 .. n /\ m = n + h ELSE m = n + 1
    /\ s = "done" => ~run
    /\ s # "done" => o = "none"
    /\ o = "answered" => m = n + n + 1
    /\ o = "responded" => m <= n

PlacedAt(q) ==
    Placed(q.stage, q.running, q.hook, Len(q.trace), q.outcome, Len(ChainOf(q.route)))

\* What has happened to a message is the beginning of its nesting.
Follows(trace, t) ==
    /\ Len(trace) <= Len(Nesting(t))
    /\ \A i \in 1 .. Len(trace) : trace[i] = Nesting(t)[i]

\* The body is whole once the request is past the buffer, on HTTP/1 and HTTP/2.
WholeBody(q) ==
    q.front = "h1" /\ (\/ q.stage \in {"request", "head", "collect", "response"}
                       \/ q.trace # <<>>)
       => q.got = q.length

Sound(q) == PlacedAt(q) /\ Follows(q.trace, q.route) /\ WholeBody(q)

\* The chains are built before requests arrive, and only requests whose route has
\* plugins stay on this path.
Built ==
    /\ host = "ready" => \A t \in Routes : chains[t] = ChainOf(t)
    /\ host # "ready" => \A t \in Routes : chains[t] = <<>>
    /\ host = "building" => \A r \in Requests : req[r].stage = "idle"
    /\ \A r \in Requests : req[r].stage \notin {"idle", "done"} =>
          host = "ready" /\ Len(ChainOf(req[r].route)) > 0

\* The phases that wait for a thread: each once, none of them running.
InLine(q) == q.stage \in {"request", "response"} /\ ~q.running

Queued ==
    /\ \A i \in 1 .. Len(queue) : InLine(req[queue[i]])
    /\ \A i, j \in 1 .. Len(queue) : queue[i] = queue[j] => i = j

PluginInv == TypeOK /\ Built /\ Queued /\ \A r \in Requests : Sound(req[r])

-----------------------------------------------------------------------------
(* Traces and queues.                                                      *)

\* A trace that is continued with what comes next in the nesting.
LEMMA TraceGrows ==
    ASSUME NEW t \in Routes, NEW trace \in Seq(Events), NEW e \in Events,
           Follows(trace, t), Len(trace) < Len(Nesting(t)),
           Nesting(t)[Len(trace) + 1] = e
    PROVE  /\ Append(trace, e) \in Seq(Events) /\ Append(trace, e) # <<>>
           /\ Len(Append(trace, e)) = Len(trace) + 1
           /\ Follows(Append(trace, e), t)
<1>. DEFINE u == Append(trace, e)
            m == Len(trace)
            k == Len(Nesting(t))
<1>1. /\ u \in Seq(Events) /\ Len(u) = m + 1 /\ m \in Nat /\ u # <<>>
      /\ \A i \in 1 .. m : u[i] = trace[i]
      /\ u[m + 1] = e
  BY AppendProperties, LenProperties
<1>2. k \in Nat /\ m < k /\ \A i \in 1 .. m : trace[i] = Nesting(t)[i]
  BY NestingIs, LenProperties DEF Follows
<1>3. Nesting(t)[m + 1] = e
  OBVIOUS
<1>. HIDE DEF u, m, k
<1>4. m + 1 <= k
  BY <1>1, <1>2
<1>5. ASSUME NEW i \in 1 .. m + 1 PROVE u[i] = Nesting(t)[i]
  <2>1. i \in 1 .. m \/ i = m + 1
    BY <1>1
  <2>. QED  BY <1>1, <1>2, <1>3, <2>1
<1>6. Follows(u, t)
  BY <1>1, <1>4, <1>5 DEF Follows, k
<1>. QED  BY <1>1, <1>6 DEF u, m

\* A request that does not wait for a thread is not in the queue: whatever happens
\* to it leaves the queue sound.
LEMMA QueueKept ==
    ASSUME TypeOK, Queued, NEW r \in Requests, ~InLine(req[r]), queue' = queue,
           \A x \in Requests : x # r => req'[x] = req[x]
    PROVE  Queued'
<1>1. \A i \in 1 .. Len(queue) : queue[i] \in Requests /\ InLine(req[queue[i]])
  BY ElementOfSeq DEF TypeOK, Queued
<1>2. \A i \in 1 .. Len(queue) : req'[queue[i]] = req[queue[i]]
  BY <1>1
<1>3. \A i \in 1 .. Len(queue) : InLine(req'[queue[i]])
  BY <1>1, <1>2
<1>. QED  BY <1>3 DEF Queued, InLine

\* A phase is queued.
LEMMA QueueGrows ==
    ASSUME TypeOK, Queued, NEW r \in Requests, ~InLine(req[r]),
           queue' = Append(queue, r), InLine(req'[r]),
           \A x \in Requests : x # r => req'[x] = req[x]
    PROVE  Queued' /\ queue' \in Seq(Requests)
<1>. DEFINE m == Len(queue)
<1>1. \A i \in 1 .. m : queue[i] \in Requests /\ InLine(req[queue[i]])
  BY ElementOfSeq DEF TypeOK, Queued
<1>2. \A i, j \in 1 .. m : queue[i] = queue[j] => i = j
  BY DEF Queued
<1>3. \A i \in 1 .. m : req'[queue[i]] = req[queue[i]] /\ queue[i] # r
  BY <1>1
<1>4. /\ queue' \in Seq(Requests) /\ Len(queue') = m + 1 /\ m \in Nat
      /\ \A i \in 1 .. m : queue'[i] = queue[i]
      /\ queue'[m + 1] = r
  BY AppendProperties, LenProperties DEF TypeOK
<1>. HIDE DEF m
<1>5. ASSUME NEW i \in 1 .. m + 1 PROVE InLine(req'[queue'[i]])
  <2>1. i \in 1 .. m \/ i = m + 1
    BY <1>4
  <2>. QED  BY <1>1, <1>3, <1>4, <2>1
<1>6. ASSUME NEW i \in 1 .. m + 1, NEW j \in 1 .. m + 1, queue'[i] = queue'[j]
      PROVE  i = j
  <2>1. (i \in 1 .. m \/ i = m + 1) /\ (j \in 1 .. m \/ j = m + 1)
    BY <1>4
  <2>. QED  BY <1>2, <1>3, <1>4, <1>6, <2>1
<1>7. Len(queue') = m + 1
  BY <1>4
<1>8. \A i \in 1 .. Len(queue') : InLine(req'[queue'[i]])
  BY <1>5, <1>7
<1>9. \A i, j \in 1 .. Len(queue') : queue'[i] = queue'[j] => i = j
  BY <1>6, <1>7
<1>. QED  BY <1>4, <1>8, <1>9 DEF Queued, InLine

\* The first phase of the queue gets a thread.
LEMMA QueueShrinks ==
    ASSUME TypeOK, Queued, queue # <<>>, queue' = Tail(queue),
           \A x \in Requests : x # Head(queue) => req'[x] = req[x]
    PROVE  /\ Queued' /\ queue' \in Seq(Requests)
           /\ Head(queue) \in Requests /\ InLine(req[Head(queue)])
<1>. DEFINE m == Len(queue)
<1>1. \A i \in 1 .. m : queue[i] \in Requests /\ InLine(req[queue[i]])
  BY ElementOfSeq DEF TypeOK, Queued
<1>2. \A i, j \in 1 .. m : queue[i] = queue[j] => i = j
  BY DEF Queued
<1>3. /\ m \in Nat /\ m > 0 /\ Head(queue) = queue[1]
      /\ queue' \in Seq(Requests) /\ Len(queue') = m - 1
      /\ \A i \in 1 .. m - 1 : queue'[i] = queue[i + 1]
  BY HeadTailProperties, LenProperties, EmptySeq DEF TypeOK
<1>. HIDE DEF m
<1>4. ASSUME NEW i \in 1 .. m - 1
      PROVE  InLine(req'[queue'[i]])
  <2>1. i + 1 \in 1 .. m /\ 1 \in 1 .. m /\ i + 1 # 1
    BY <1>3
  <2>2. queue[i + 1] # queue[1] /\ queue[i + 1] \in Requests
    BY <1>1, <1>2, <2>1
  <2>. QED  BY <1>1, <1>3, <2>1, <2>2
<1>5. ASSUME NEW i \in 1 .. m - 1, NEW j \in 1 .. m - 1, queue'[i] = queue'[j]
      PROVE  i = j
  <2>1. i + 1 \in 1 .. m /\ j + 1 \in 1 .. m
    BY <1>3
  <2>2. i + 1 = j + 1
    BY <1>2, <1>3, <1>5, <2>1
  <2>. QED  BY <1>3, <2>2
<1>6. \A i \in 1 .. Len(queue') : InLine(req'[queue'[i]])
  BY <1>3, <1>4
<1>7. \A i, j \in 1 .. Len(queue') : queue'[i] = queue'[j] => i = j
  BY <1>3, <1>5
<1>8. Head(queue) \in Requests /\ InLine(req[Head(queue)])
  BY <1>1, <1>3
<1>. QED  BY <1>3, <1>6, <1>7, <1>8 DEF Queued, InLine

-----------------------------------------------------------------------------
(* Steps of one request.                                                   *)

\* A step of r that leaves the others and the chains alone and takes r to a sound
\* state.
Kept(r) ==
    /\ TypeOK' /\ Queued' /\ host' = host /\ chains' = chains
    /\ host # "building"
    /\ \A x \in Requests : x # r => req'[x] = req[x]
    /\ Sound(req'[r])
    /\ req'[r].stage \notin {"idle", "done"} =>
          host = "ready" /\ Len(ChainOf(req'[r].route)) > 0

\* What is known of a request that is on this path.
LEMMA OnPath ==
    ASSUME PluginInv, NEW r \in Requests, req[r].stage \notin {"idle", "done"}
    PROVE  /\ host = "ready" /\ host # "building"
           /\ req[r] \in Request /\ req[r].route \in Routes
           /\ req[r].trace \in Seq(Events) /\ Sound(req[r])
           /\ chains[req[r].route] = ChainOf(req[r].route)
           /\ Len(ChainOf(req[r].route)) \in Nat \ {0}
           /\ req[r].hook \in Nat /\ req[r].running \in BOOLEAN
           /\ Len(req[r].trace) \in Nat /\ req[r].outcome = "none"
<1>1. req[r] \in Request /\ Sound(req[r]) /\ TypeOK
  BY DEF PluginInv, TypeOK
<1>2. /\ req[r].route \in Routes /\ req[r].trace \in Seq(Events) /\ req[r].hook \in Nat
      /\ req[r].running \in BOOLEAN
  BY <1>1 DEF Request
<1>3. /\ host = "ready" /\ Len(ChainOf(req[r].route)) > 0
      /\ \A t \in Routes : chains[t] = ChainOf(t)
  BY DEF PluginInv, Built
<1>4. Len(ChainOf(req[r].route)) \in Nat \ {0}
  BY <1>2, <1>3, ChainIs
<1>5. Len(req[r].trace) \in Nat
  BY <1>2, LenProperties
<1>6. req[r].outcome = "none"
  BY <1>1 DEF Sound, PlacedAt, Placed
<1>. QED  BY <1>1, <1>2, <1>3, <1>4, <1>5, <1>6

\* A chain of plugins that runs is told by its place.
LEMMA RunningIs ==
    ASSUME PluginInv, NEW r \in Requests, req[r].running
    PROVE  /\ req[r].stage \in {"request", "response"} /\ ~InLine(req[r])
           /\ req[r].hook \in 1 .. Len(ChainOf(req[r].route))
           /\ req[r].stage = "request" => Len(req[r].trace) = req[r].hook - 1
           /\ req[r].stage = "response" =>
                 Len(req[r].trace) = Len(ChainOf(req[r].route)) + req[r].hook
<1>1. req[r] \in Request /\ PlacedAt(req[r])
  BY DEF PluginInv, TypeOK, Sound
<1>2. req[r].stage \in {"idle", "buffer", "request", "head", "collect", "response", "done"}
  BY <1>1 DEF Request
<1>3. req[r].stage \in {"request", "response"}
  BY <1>1, <1>2 DEF PlacedAt, Placed
<1>. QED  BY <1>1, <1>3 DEF PlacedAt, Placed, InLine

\* The state of one request is replaced.
LEMMA Replaced ==
    ASSUME TypeOK, NEW r \in Requests, NEW k \in Request, req' = [req EXCEPT ![r] = k]
    PROVE  /\ req' \in [Requests -> Request] /\ req'[r] = k
           /\ \A x \in Requests : x # r => req'[x] = req[x]
BY DEF TypeOK

\* A request arrives: on to the streaming path or into the buffer.
LEMMA ArriveStep ==
    ASSUME PluginInv, NEW r \in Requests, NEW t \in Routes, NEW f \in {"h1", "h3"},
           NEW declared \in BOOLEAN, NEW n \in 0 .. MaxLength,
           Arrive(r, t, f, declared, n)
    PROVE  Kept(r)
<1>. TypeOK /\ Queued /\ Built
  BY DEF PluginInv
<1>1. /\ req[r] \in Request /\ req[r].stage = "idle" /\ Sound(req[r])
      /\ host \in {"none", "ready"}
  BY DEF PluginInv, TypeOK, Arrive
<1>2. ~req[r].running /\ Len(req[r].trace) = 0 /\ req[r].outcome = "none"
  BY <1>1 DEF Sound, PlacedAt, Placed
<1>3. req[r].trace = <<>>
  BY <1>1, <1>2, EmptySeq DEF Request
<1>. DEFINE k == [req[r] EXCEPT !.route = t, !.front = f, !.declared = declared, !.length = n]
            s == IF chains[t] = <<>> \/ (declared /\ n > MaxBody) THEN "done" ELSE "buffer"
            o == IF chains[t] = <<>> \/ (declared /\ n > MaxBody) THEN "streamed" ELSE "none"
<1>4. k \in Request
  BY <1>1 DEF Request
<1>5. /\ k.route = t /\ k.front = f /\ k.length = n
      /\ k.trace = req[r].trace /\ k.running = req[r].running /\ k.outcome = req[r].outcome
  BY <1>1 DEF Request
<1>6. req' = [req EXCEPT ![r] =
         IF chains[t] = <<>> \/ (declared /\ n > MaxBody)
         THEN [k EXCEPT !.stage = "done", !.outcome = "streamed"]
         ELSE [k EXCEPT !.stage = "buffer"]]
  BY DEF Arrive
<1>. HIDE DEF k
<1>7. /\ req' \in [Requests -> Request] /\ \A x \in Requests : x # r => req'[x] = req[x]
      /\ req'[r].stage = s /\ req'[r].outcome = o /\ req'[r].route = t
      /\ req'[r].trace = <<>> /\ ~req'[r].running
  <2>1. CASE chains[t] = <<>> \/ (declared /\ n > MaxBody)
    <3>1. [k EXCEPT !.stage = "done", !.outcome = "streamed"] \in Request
      BY <1>4 DEF Request
    <3>2. req'[r] = [k EXCEPT !.stage = "done", !.outcome = "streamed"]
      BY <1>6, <2>1 DEF TypeOK
    <3>3. req'[r].stage = s /\ req'[r].outcome = o /\ req'[r].route = t
          /\ req'[r].trace = <<>> /\ ~req'[r].running
      BY <1>2, <1>3, <1>4, <1>5, <2>1, <3>2 DEF Request
    <3>. QED  BY <1>6, <2>1, <3>1, <3>3 DEF TypeOK
  <2>2. CASE ~(chains[t] = <<>> \/ (declared /\ n > MaxBody))
    <3>1. [k EXCEPT !.stage = "buffer"] \in Request
      BY <1>4 DEF Request
    <3>2. req'[r] = [k EXCEPT !.stage = "buffer"]
      BY <1>6, <2>2 DEF TypeOK
    <3>3. req'[r].stage = s /\ req'[r].outcome = o /\ req'[r].route = t
          /\ req'[r].trace = <<>> /\ ~req'[r].running
      BY <1>2, <1>3, <1>4, <1>5, <2>2, <3>2 DEF Request
    <3>. QED  BY <1>6, <2>2, <3>1, <3>3 DEF TypeOK
  <2>. QED  BY <2>1, <2>2
<1>8. TypeOK'
  BY <1>7 DEF TypeOK, Arrive
<1>9. Queued'
  BY <1>1, <1>7, QueueKept DEF Arrive, InLine
<1>10. s = "buffer" => host = "ready" /\ Len(ChainOf(t)) > 0
  <2>1. chains[t] # <<>> => host = "ready" /\ ChainOf(t) # <<>>
    BY DEF Built
  <2>2. ChainOf(t) # <<>> => Len(ChainOf(t)) > 0
    BY ChainIs, EmptySeq
  <2>. QED  BY <2>1, <2>2
<1>11. Sound(req'[r])
  <2>1. Len(ChainOf(t)) \in Nat /\ Len(<<>>) = 0 /\ Len(Nesting(t)) \in Nat
    BY ChainIs, NestingIs, LenProperties
  <2>2. PlacedAt(req'[r])
    BY <1>7, <2>1 DEF PlacedAt, Placed
  <2>3. Follows(req'[r].trace, req'[r].route)
    BY <1>7, <2>1 DEF Follows
  <2>4. WholeBody(req'[r])
    BY <1>7 DEF WholeBody
  <2>. QED  BY <2>2, <2>3, <2>4 DEF Sound
<1>. QED  BY <1>1, <1>7, <1>8, <1>9, <1>10, <1>11 DEF Kept, Arrive

\* What does not change about a request after it arrived.
SameRequest(q, p) == q.route = p.route /\ q.front = p.front /\ q.length = p.length

\* A phase or a fetch fails; the request is over.
LEMMA FailedStep ==
    ASSUME PluginInv, NEW r \in Requests, ~InLine(req[r]),
           req[r].stage \in {"request", "head", "collect", "response"}, Failed(r)
    PROVE  Kept(r)
<1>. TypeOK /\ Queued
  BY DEF PluginInv
<1>1. /\ req[r] \in Request /\ req[r].route \in Routes /\ Sound(req[r])
      /\ host # "building" /\ Len(ChainOf(req[r].route)) \in Nat
  BY OnPath
<1>2. /\ req' \in [Requests -> Request] /\ \A x \in Requests : x # r => req'[x] = req[x]
      /\ SameRequest(req'[r], req[r]) /\ req'[r].got = req[r].got
      /\ req'[r].stage = "done" /\ req'[r].outcome = "502" /\ ~req'[r].running
      /\ req'[r].trace = req[r].trace
  <2>. DEFINE k == [req[r] EXCEPT !.running = FALSE, !.stage = "done", !.outcome = "502"]
  <2>1. /\ k \in Request /\ SameRequest(k, req[r]) /\ k.got = req[r].got
        /\ k.stage = "done" /\ k.outcome = "502" /\ ~k.running /\ k.trace = req[r].trace
    BY <1>1 DEF Request, SameRequest
  <2>2. req' = [req EXCEPT ![r] = k]
    BY DEF Failed
  <2>. HIDE DEF k
  <2>. QED  BY <2>1, <2>2, Replaced
<1>3. left' \in [Requests -> 0 .. Deadline]
  BY PluginConstants DEF Failed, TypeOK
<1>4. TypeOK'
  BY <1>2, <1>3 DEF TypeOK, Failed
<1>5. Queued'
  BY <1>2, QueueKept DEF Failed
<1>6. PlacedAt(req'[r])
  BY <1>2 DEF PlacedAt, Placed
<1>7. Follows(req'[r].trace, req'[r].route) /\ WholeBody(req'[r])
  BY <1>1, <1>2 DEF Sound, WholeBody, SameRequest
<1>. QED  BY <1>1, <1>2, <1>4, <1>5, <1>6, <1>7 DEF Kept, Sound, Failed

\* A chunk of the body: the request is over if it does not fit.
LEMMA ReadChunkStep ==
    ASSUME PluginInv, NEW r \in Requests, ReadChunk(r)
    PROVE  Kept(r)
<1>. TypeOK /\ Queued /\ req[r].stage = "buffer"
  BY DEF PluginInv, ReadChunk
<1>1. /\ req[r] \in Request /\ Sound(req[r]) /\ host = "ready" /\ host # "building"
      /\ req[r].outcome = "none" /\ Len(ChainOf(req[r].route)) \in Nat \ {0}
  BY OnPath
<1>2. ~req[r].running /\ Len(req[r].trace) = 0 /\ req[r].trace = <<>> /\ req[r].got \in Nat
  <2>1. ~req[r].running /\ Len(req[r].trace) = 0
    BY <1>1 DEF Sound, PlacedAt, Placed
  <2>2. req[r].trace = <<>>
    BY <1>1, <2>1, EmptySeq DEF Request
  <2>. QED  BY <1>1, <2>1, <2>2, PluginConstants DEF Request
<1>3. /\ req' \in [Requests -> Request] /\ \A x \in Requests : x # r => req'[x] = req[x]
      /\ SameRequest(req'[r], req[r]) /\ req'[r].running = req[r].running
      /\ req'[r].trace = req[r].trace
      /\ \/ req'[r].stage = "done" /\ req'[r].outcome = "413"
         \/ req'[r].stage = "buffer" /\ req'[r].outcome = "none"
  <2>1. CASE req[r].got + 1 > MaxBody
    <3>. DEFINE k == [req[r] EXCEPT !.stage = "done", !.outcome = "413"]
    <3>1. /\ k \in Request /\ SameRequest(k, req[r]) /\ k.running = req[r].running
          /\ k.stage = "done" /\ k.outcome = "413" /\ k.trace = req[r].trace
      BY <1>1 DEF Request, SameRequest
    <3>2. req' = [req EXCEPT ![r] = k]
      BY <2>1 DEF ReadChunk
    <3>. HIDE DEF k
    <3>. QED  BY <3>1, <3>2, Replaced
  <2>2. CASE ~(req[r].got + 1 > MaxBody)
    <3>1. req[r].got + 1 \in 0 .. MaxBody
      BY <1>2, <2>2, PluginConstants
    <3>. DEFINE k == [req[r] EXCEPT !.got = req[r].got + 1]
    <3>2. /\ k \in Request /\ SameRequest(k, req[r]) /\ k.running = req[r].running
          /\ k.stage = "buffer" /\ k.outcome = "none" /\ k.trace = req[r].trace
      BY <1>1, <3>1 DEF Request, SameRequest
    <3>3. req' = [req EXCEPT ![r] = k]
      BY <2>2 DEF ReadChunk
    <3>. HIDE DEF k
    <3>. QED  BY <3>2, <3>3, Replaced
  <2>. QED  BY <2>1, <2>2
<1>4. TypeOK'
  BY <1>3 DEF TypeOK, ReadChunk
<1>5. Queued'
  BY <1>3, QueueKept DEF ReadChunk, InLine
<1>6. PlacedAt(req'[r])
  BY <1>2, <1>3 DEF PlacedAt, Placed
<1>7. Follows(req'[r].trace, req'[r].route) /\ WholeBody(req'[r])
  BY <1>1, <1>2, <1>3 DEF Sound, WholeBody, SameRequest
<1>. QED  BY <1>1, <1>3, <1>4, <1>5, <1>6, <1>7 DEF Kept, Sound, ReadChunk, SameRequest

\* The request phase is queued, with a body that is whole on HTTP/1 and HTTP/2.
LEMMA RequestQueued ==
    ASSUME PluginInv, NEW r \in Requests, req[r].stage = "buffer",
           req[r].front = "h1" => req[r].got = req[r].length,
           req' = [req EXCEPT ![r].stage = "request"], queue' = Append(queue, r),
           UNCHANGED <<host, chains, left>>
    PROVE  Kept(r)
<1>. TypeOK /\ Queued
  BY DEF PluginInv
<1>1. /\ req[r] \in Request /\ Sound(req[r]) /\ host = "ready" /\ host # "building"
      /\ req[r].outcome = "none" /\ Len(ChainOf(req[r].route)) \in Nat \ {0}
  BY OnPath
<1>2. ~req[r].running /\ Len(req[r].trace) = 0
  BY <1>1 DEF Sound, PlacedAt, Placed
<1>. DEFINE k == [req[r] EXCEPT !.stage = "request"]
<1>a. /\ k \in Request /\ SameRequest(k, req[r]) /\ k.running = req[r].running
      /\ k.trace = req[r].trace /\ k.got = req[r].got
      /\ k.stage = "request" /\ k.outcome = req[r].outcome
  BY <1>1 DEF Request, SameRequest
<1>b. req' = [req EXCEPT ![r] = k]
  OBVIOUS
<1>. HIDE DEF k
<1>3. /\ req' \in [Requests -> Request] /\ \A x \in Requests : x # r => req'[x] = req[x]
      /\ SameRequest(req'[r], req[r]) /\ req'[r].running = req[r].running
      /\ req'[r].trace = req[r].trace /\ req'[r].got = req[r].got
      /\ req'[r].stage = "request" /\ req'[r].outcome = req[r].outcome
  BY <1>a, <1>b, Replaced
<1>4. Queued' /\ queue' \in Seq(Requests)
  BY <1>2, <1>3, QueueGrows DEF InLine
<1>5. TypeOK'
  BY <1>3, <1>4 DEF TypeOK
<1>6. PlacedAt(req'[r])
  BY <1>1, <1>2, <1>3 DEF PlacedAt, Placed
<1>7. Follows(req'[r].trace, req'[r].route) /\ WholeBody(req'[r])
  BY <1>1, <1>3 DEF Sound, WholeBody, SameRequest
<1>. QED  BY <1>1, <1>3, <1>4, <1>5, <1>6, <1>7 DEF Kept, Sound, SameRequest

\* The end of the body, or of the connection of the client.
LEMMA ReadEndSteps ==
    ASSUME PluginInv, NEW r \in Requests, ReadEnd(r) \/ ReadError(r)
    PROVE  Kept(r)
<1>. TypeOK /\ Queued /\ req[r].stage = "buffer"
  BY DEF PluginInv, ReadEnd, ReadError
<1>1. CASE ReadEnd(r)
  BY <1>1, RequestQueued DEF ReadEnd
<1>2. CASE ReadError(r) /\ req[r].front = "h3" /\ queue' = Append(queue, r)
           /\ req' = [req EXCEPT ![r].stage = "request"]
  BY <1>2, RequestQueued DEF ReadError
<1>3. CASE /\ ReadError(r) /\ queue' = queue
           /\ req' = [req EXCEPT ![r] = [@ EXCEPT !.stage = "done", !.outcome = "broken"]]
  <2>1. /\ req[r] \in Request /\ Sound(req[r]) /\ host # "building"
        /\ Len(ChainOf(req[r].route)) \in Nat
    BY OnPath
  <2>2. ~req[r].running /\ Len(req[r].trace) = 0
    BY <2>1 DEF Sound, PlacedAt, Placed
  <2>3. req[r].trace = <<>>
    BY <2>1, <2>2, EmptySeq DEF Request
  <2>4. /\ req' \in [Requests -> Request] /\ \A x \in Requests : x # r => req'[x] = req[x]
        /\ SameRequest(req'[r], req[r]) /\ req'[r].running = req[r].running
        /\ req'[r].trace = req[r].trace
        /\ req'[r].stage = "done" /\ req'[r].outcome = "broken"
    <3>. DEFINE k == [req[r] EXCEPT !.stage = "done", !.outcome = "broken"]
    <3>1. /\ k \in Request /\ SameRequest(k, req[r]) /\ k.running = req[r].running
          /\ k.stage = "done" /\ k.outcome = "broken" /\ k.trace = req[r].trace
      BY <2>1 DEF Request, SameRequest
    <3>2. req' = [req EXCEPT ![r] = k]
      BY <1>3
    <3>. HIDE DEF k
    <3>. QED  BY <3>1, <3>2, Replaced
  <2>5. TypeOK'
    BY <1>3, <2>4 DEF TypeOK, ReadError
  <2>6. Queued'
    BY <1>3, <2>4, QueueKept DEF InLine
  <2>7. PlacedAt(req'[r])
    BY <2>2, <2>4 DEF PlacedAt, Placed
  <2>8. Follows(req'[r].trace, req'[r].route) /\ WholeBody(req'[r])
    BY <2>1, <2>3, <2>4 DEF Sound, WholeBody, SameRequest
  <2>. QED  BY <1>3, <2>1, <2>4, <2>5, <2>6, <2>7, <2>8 DEF Kept, Sound, ReadError
<1>. QED  BY <1>1, <1>2, <1>3 DEF ReadError

\* The head of the upstream's answer.
LEMMA FetchHeadStep ==
    ASSUME PluginInv, NEW r \in Requests, FetchHead(r)
    PROVE  Kept(r)
<1>. TypeOK /\ Queued /\ req[r].stage = "head"
  BY DEF PluginInv, FetchHead
<1>1. /\ req[r] \in Request /\ Sound(req[r]) /\ host = "ready" /\ host # "building"
      /\ req[r].outcome = "none" /\ Len(ChainOf(req[r].route)) \in Nat \ {0}
  BY OnPath
<1>2. ~req[r].running /\ Len(req[r].trace) = Len(ChainOf(req[r].route))
  BY <1>1 DEF Sound, PlacedAt, Placed
<1>3. /\ req' \in [Requests -> Request] /\ \A x \in Requests : x # r => req'[x] = req[x]
      /\ SameRequest(req'[r], req[r]) /\ req'[r].running = req[r].running
      /\ req'[r].trace = req[r].trace /\ req'[r].got = req[r].got
      /\ req'[r].stage = "collect" /\ req'[r].outcome = req[r].outcome
  <2>. DEFINE k == [req[r] EXCEPT !.stage = "collect"]
  <2>1. /\ k \in Request /\ SameRequest(k, req[r]) /\ k.running = req[r].running
        /\ k.trace = req[r].trace /\ k.got = req[r].got
        /\ k.stage = "collect" /\ k.outcome = req[r].outcome
    BY <1>1 DEF Request, SameRequest
  <2>2. req' = [req EXCEPT ![r] = k]
    BY DEF FetchHead
  <2>. HIDE DEF k
  <2>. QED  BY <2>1, <2>2, Replaced
<1>4. TypeOK'
  BY <1>3 DEF TypeOK, FetchHead
<1>5. Queued'
  BY <1>3, QueueKept DEF InLine, FetchHead
<1>6. PlacedAt(req'[r])
  BY <1>1, <1>2, <1>3 DEF PlacedAt, Placed, SameRequest
<1>7. Follows(req'[r].trace, req'[r].route) /\ WholeBody(req'[r])
  BY <1>1, <1>3 DEF Sound, WholeBody, SameRequest
<1>. QED  BY <1>1, <1>3, <1>4, <1>5, <1>6, <1>7 DEF Kept, Sound, SameRequest, FetchHead

\* The upstream's answer is there: its turn in the nesting is after all plugins.
LEMMA FetchBodyStep ==
    ASSUME PluginInv, NEW r \in Requests, FetchBody(r)
    PROVE  Kept(r)
<1>. TypeOK /\ Queued /\ req[r].stage = "collect"
  BY DEF PluginInv, FetchBody
<1>. DEFINE t == req[r].route
            n == Len(ChainOf(t))
            u == Append(req[r].trace, Origin)
<1>1. /\ req[r] \in Request /\ Sound(req[r]) /\ host = "ready" /\ host # "building"
      /\ req[r].outcome = "none" /\ n \in Nat \ {0} /\ t \in Routes
      /\ req[r].trace \in Seq(Events)
  BY OnPath
<1>2. ~req[r].running /\ Len(req[r].trace) = n
  BY <1>1 DEF Sound, PlacedAt, Placed
<1>3. /\ Follows(req[r].trace, t) /\ Origin \in Events
      /\ Len(Nesting(t)) = n + n + 1 /\ Nesting(t)[n + 1] = Origin
  BY <1>1, NestingIs DEF Sound, Events, Origin
<1>4. n < n + n + 1
  BY <1>1
<1>5. /\ u \in Seq(Events) /\ u # <<>> /\ Len(u) = n + 1 /\ Follows(u, t)
  <2>1. /\ Len(req[r].trace) < Len(Nesting(t))
        /\ Nesting(t)[Len(req[r].trace) + 1] = Origin
    BY <1>2, <1>3, <1>4
  <2>. QED  BY <1>1, <1>2, <1>3, <2>1, TraceGrows
<1>. HIDE DEF u
<1>. DEFINE k == [req[r] EXCEPT !.stage = "response", !.trace = u]
<1>a. /\ k \in Request /\ SameRequest(k, req[r]) /\ k.running = req[r].running
      /\ k.trace = u /\ k.got = req[r].got
      /\ k.stage = "response" /\ k.outcome = req[r].outcome
  BY <1>1, <1>5 DEF Request, SameRequest
<1>6. req' = [req EXCEPT ![r] = k]
  BY DEF FetchBody, u
<1>. HIDE DEF k
<1>7. /\ req' \in [Requests -> Request] /\ \A x \in Requests : x # r => req'[x] = req[x]
      /\ SameRequest(req'[r], req[r]) /\ req'[r].running = req[r].running
      /\ req'[r].trace = u /\ req'[r].got = req[r].got
      /\ req'[r].stage = "response" /\ req'[r].outcome = req[r].outcome
  BY <1>a, <1>6, Replaced
<1>8. Queued' /\ queue' \in Seq(Requests)
  BY <1>2, <1>7, QueueGrows DEF InLine, FetchBody
<1>9. TypeOK'
  BY <1>7, <1>8 DEF TypeOK, FetchBody
<1>10. req'[r].route = t
  BY <1>7 DEF SameRequest
<1>11. PlacedAt(req'[r])
  BY <1>1, <1>2, <1>5, <1>7, <1>10 DEF PlacedAt, Placed
<1>12. Follows(req'[r].trace, req'[r].route) /\ WholeBody(req'[r])
  BY <1>1, <1>5, <1>7 DEF Sound, WholeBody, SameRequest
<1>. QED  BY <1>1, <1>7, <1>8, <1>9, <1>10, <1>11, <1>12 DEF Kept, Sound, FetchBody

\* The hook that runs is the one whose turn it is in the nesting.
LEMMA TracedIs ==
    ASSUME PluginInv, NEW r \in Requests, req[r].running
    PROVE  /\ Traced(r) \in Seq(Events) /\ Traced(r) # <<>>
           /\ Len(Traced(r)) = Len(req[r].trace) + 1
           /\ Follows(Traced(r), req[r].route)
<1>. DEFINE t == req[r].route
            c == ChainOf(t)
            n == Len(c)
            h == req[r].hook
            m == Len(req[r].trace)
            e == [what |-> req[r].stage, by |-> HookPlugin(r)]
<1>1. /\ req[r].stage \in {"request", "response"} /\ h \in 1 .. n
      /\ req[r].stage = "request" => m = h - 1
      /\ req[r].stage = "response" => m = n + h
  BY RunningIs
<1>2. /\ t \in Routes /\ req[r].trace \in Seq(Events) /\ Sound(req[r])
      /\ chains[t] = c /\ n \in Nat /\ m \in Nat
  BY <1>1, OnPath
<1>3. Follows(req[r].trace, t)
  BY <1>2 DEF Sound
<1>4. Traced(r) = Append(req[r].trace, e)
  BY DEF Traced
<1>5. e = [what |-> req[r].stage,
           by |-> IF req[r].stage = "request" THEN c[h] ELSE c[n + 1 - h]]
  BY <1>2 DEF HookPlugin
<1>6. /\ Nesting(t) \in Seq(Events) /\ Len(Nesting(t)) = n + n + 1
      /\ Nesting(t)[h] = [what |-> "request", by |-> c[h]]
      /\ Nesting(t)[n + 1 + h] = [what |-> "response", by |-> c[n + 1 - h]]
  BY <1>1, <1>2, NestingIs
<1>. HIDE DEF e, m, n, h, c
<1>7. m + 1 <= n + n + 1 /\ m < n + n + 1 /\ m + 1 \in 1 .. n + n + 1
  BY <1>1, <1>2
<1>8. Nesting(t)[m + 1] = e
  <2>1. CASE req[r].stage = "request"
    <3>1. m + 1 = h
      BY <1>1, <1>2, <2>1
    <3>. QED  BY <1>5, <1>6, <2>1, <3>1
  <2>2. CASE req[r].stage = "response"
    <3>1. m + 1 = n + 1 + h
      BY <1>1, <1>2, <2>2
    <3>. QED  BY <1>5, <1>6, <2>2, <3>1
  <2>. QED  BY <1>1, <2>1, <2>2
<1>9. e \in Events
  BY <1>6, <1>7, <1>8, ElementOfSeq
<1>10. Len(req[r].trace) < Len(Nesting(t)) /\ Nesting(t)[Len(req[r].trace) + 1] = e
  BY <1>6, <1>7, <1>8 DEF m
<1>. QED  BY <1>2, <1>3, <1>4, <1>9, <1>10, TraceGrows

\* A hook returns; after the last one the phase is over.
LEMMA HookContinuesStep ==
    ASSUME PluginInv, NEW r \in Requests, HookContinues(r)
    PROVE  Kept(r)
<1>. TypeOK /\ Queued /\ req[r].running
  BY DEF PluginInv, HookContinues
<1>. DEFINE t == req[r].route
            n == Len(ChainOf(t))
            h == req[r].hook
            m == Len(req[r].trace)
            u == Traced(r)
<1>1. /\ req[r].stage \in {"request", "response"} /\ h \in 1 .. n /\ ~InLine(req[r])
      /\ req[r].stage = "request" => m = h - 1
      /\ req[r].stage = "response" => m = n + h
  BY RunningIs
<1>2. /\ req[r] \in Request /\ Sound(req[r]) /\ host = "ready" /\ host # "building"
      /\ req[r].outcome = "none" /\ n \in Nat \ {0} /\ t \in Routes /\ m \in Nat
      /\ chains[t] = ChainOf(t) /\ h \in Nat
  BY <1>1, OnPath
<1>3. u \in Seq(Events) /\ u # <<>> /\ Len(u) = m + 1 /\ Follows(u, t)
  BY TracedIs
<1>4. left' \in [Requests -> 0 .. Deadline]
  <2>1. left' = [left EXCEPT ![r] = 0] \/ left' = [left EXCEPT ![r] = Deadline]
    BY Zenon DEF HookContinues
  <2>2. 0 \in 0 .. Deadline /\ Deadline \in 0 .. Deadline
    BY PluginConstants
  <2>. QED  BY <2>1, <2>2 DEF TypeOK
<1>5. req[r].front = "h1" => req[r].got = req[r].length
  BY <1>1, <1>2 DEF Sound, WholeBody
<1>6. ASSUME NEW k \in Request, SameRequest(k, req[r]), k.got = req[r].got, k.trace = u,
             req' = [req EXCEPT ![r] = k],
             Placed(k.stage, k.running, k.hook, m + 1, k.outcome, n)
      PROVE  Kept(r)
  <2>1. /\ req' \in [Requests -> Request] /\ req'[r] = k
        /\ \A x \in Requests : x # r => req'[x] = req[x]
    BY <1>6, Replaced
  <2>2. TypeOK'
    BY <1>4, <2>1 DEF TypeOK, HookContinues
  <2>3. Queued'
    BY <1>1, <2>1, QueueKept DEF HookContinues
  <2>4. PlacedAt(k) /\ Follows(k.trace, k.route) /\ WholeBody(k)
    BY <1>3, <1>5, <1>6 DEF PlacedAt, WholeBody, SameRequest
  <2>. QED  BY <1>2, <1>6, <2>1, <2>2, <2>3, <2>4 DEF Kept, Sound, HookContinues, SameRequest
<1>7. CASE /\ h < Len(chains[t])
           /\ req' = [req EXCEPT ![r] = [@ EXCEPT !.hook = h + 1, !.trace = u]]
  <2>. DEFINE j == h + 1
  <2>0. j \in Nat /\ j = h + 1
    BY <1>2
  <2>. HIDE DEF u, m, j
  <2>. DEFINE k == [req[r] EXCEPT !.hook = j, !.trace = u]
  <2>1. /\ k \in Request /\ SameRequest(k, req[r]) /\ k.got = req[r].got /\ k.trace = u
        /\ k.stage = req[r].stage /\ k.running = req[r].running /\ k.hook = j
        /\ k.outcome = req[r].outcome
    BY <1>2, <1>3, <2>0 DEF Request, SameRequest
  <2>2. req' = [req EXCEPT ![r] = k]
    BY <1>7 DEF j
  <2>. HIDE DEF k
  <2>3. j \in 1 .. n /\ (m = h - 1 => m + 1 = j - 1) /\ (m = n + h => m + 1 = n + j)
    <3>. HIDE DEF n, h
    <3>1. h < n
      BY <1>2, <1>7 DEF n
    <3>2. m \in Nat /\ n \in Nat /\ h \in Nat
      BY <1>2
    <3>. QED  BY <2>0, <3>1, <3>2
  <2>4. Placed(k.stage, k.running, k.hook, m + 1, k.outcome, n)
    BY <1>1, <1>2, <2>1, <2>3 DEF Placed
  <2>. QED  BY <1>6, <2>1, <2>2, <2>4
<1>8. CASE /\ h = Len(chains[t])
           /\ req' = [req EXCEPT ![r] =
                LET k == [req[r] EXCEPT !.running = FALSE, !.trace = u]
                IN IF k.stage = "request" THEN [k EXCEPT !.stage = "head"]
                   ELSE [k EXCEPT !.stage = "done", !.outcome = "answered"]]
  <2>. HIDE DEF u, m
  <2>. DEFINE k == [req[r] EXCEPT !.running = FALSE, !.trace = u]
  <2>1. k.stage = req[r].stage
    BY <1>2 DEF Request
  <2>2. /\ k \in Request /\ SameRequest(k, req[r]) /\ k.got = req[r].got /\ k.trace = u
        /\ ~k.running /\ k.outcome = "none"
    BY <1>2, <1>3 DEF Request, SameRequest
  <2>3. req' = [req EXCEPT ![r] = IF k.stage = "request" THEN [k EXCEPT !.stage = "head"]
                                  ELSE [k EXCEPT !.stage = "done", !.outcome = "answered"]]
    BY <1>8
  <2>4. h = n
    BY <1>2, <1>8
  <2>. HIDE DEF k
  <2>5. CASE req[r].stage = "request"
    <3>. DEFINE l == [k EXCEPT !.stage = "head"]
    <3>1. /\ l \in Request /\ SameRequest(l, req[r]) /\ l.got = req[r].got /\ l.trace = u
          /\ l.stage = "head" /\ ~l.running /\ l.outcome = "none"
      BY <2>2 DEF Request, SameRequest
    <3>2. req' = [req EXCEPT ![r] = l]
      BY <2>1, <2>3, <2>5
    <3>. HIDE DEF l
    <3>3. m + 1 = n
      BY <1>1, <1>2, <2>4, <2>5
    <3>4. Placed(l.stage, l.running, l.hook, m + 1, l.outcome, n)
      BY <3>1, <3>3 DEF Placed
    <3>. QED  BY <1>6, <3>1, <3>2, <3>4
  <2>6. CASE req[r].stage = "response"
    <3>. DEFINE l == [k EXCEPT !.stage = "done", !.outcome = "answered"]
    <3>1. /\ l \in Request /\ SameRequest(l, req[r]) /\ l.got = req[r].got /\ l.trace = u
          /\ l.stage = "done" /\ ~l.running /\ l.outcome = "answered"
      BY <2>2 DEF Request, SameRequest
    <3>2. req' = [req EXCEPT ![r] = l]
      BY <2>1, <2>3, <2>6
    <3>. HIDE DEF l
    <3>3. m + 1 = n + n + 1
      BY <1>1, <1>2, <2>4, <2>6
    <3>4. Placed(l.stage, l.running, l.hook, m + 1, l.outcome, n)
      BY <3>1, <3>3 DEF Placed
    <3>. QED  BY <1>6, <3>1, <3>2, <3>4
  <2>. QED  BY <1>1, <2>5, <2>6
<1>. QED  BY <1>7, <1>8 DEF HookContinues

\* A request hook answers by itself.
LEMMA HookRespondsStep ==
    ASSUME PluginInv, NEW r \in Requests, HookResponds(r)
    PROVE  Kept(r)
<1>. TypeOK /\ Queued /\ req[r].running /\ req[r].stage = "request"
  BY DEF PluginInv, HookResponds
<1>. DEFINE t == req[r].route
            n == Len(ChainOf(t))
            h == req[r].hook
            m == Len(req[r].trace)
            u == Traced(r)
<1>1. h \in 1 .. n /\ ~InLine(req[r]) /\ m = h - 1
  BY RunningIs
<1>2. /\ req[r] \in Request /\ Sound(req[r]) /\ host # "building"
      /\ n \in Nat \ {0} /\ t \in Routes /\ m \in Nat
  BY OnPath
<1>3. u \in Seq(Events) /\ u # <<>> /\ Len(u) = m + 1 /\ Follows(u, t)
  BY TracedIs
<1>4. left' \in [Requests -> 0 .. Deadline]
  BY PluginConstants DEF HookResponds, TypeOK
<1>5. req[r].front = "h1" => req[r].got = req[r].length
  BY <1>2 DEF Sound, WholeBody
<1>. HIDE DEF u, m
<1>. DEFINE k == [req[r] EXCEPT !.running = FALSE, !.trace = u, !.stage = "done",
                                !.outcome = "responded"]
<1>6. /\ k \in Request /\ SameRequest(k, req[r]) /\ k.got = req[r].got /\ k.trace = u
      /\ k.stage = "done" /\ ~k.running /\ k.outcome = "responded"
  BY <1>2, <1>3 DEF Request, SameRequest
<1>7. req' = [req EXCEPT ![r] = k]
  BY DEF HookResponds, u
<1>. HIDE DEF k
<1>8. /\ req' \in [Requests -> Request] /\ req'[r] = k
      /\ \A x \in Requests : x # r => req'[x] = req[x]
  BY <1>6, <1>7, Replaced
<1>9. TypeOK'
  BY <1>4, <1>8 DEF TypeOK, HookResponds
<1>10. Queued'
  BY <1>1, <1>8, QueueKept DEF HookResponds
<1>11. m + 1 <= n
  BY <1>1, <1>2
<1>12. PlacedAt(k) /\ Follows(k.trace, k.route) /\ WholeBody(k)
  BY <1>3, <1>5, <1>6, <1>11 DEF PlacedAt, Placed, WholeBody, SameRequest
<1>. QED  BY <1>2, <1>6, <1>8, <1>9, <1>10, <1>12 DEF Kept, Sound, HookResponds

\* A phase gets its thread.
LEMMA DispatchStep ==
    ASSUME PluginInv, Dispatch
    PROVE  Head(queue) \in Requests /\ Kept(Head(queue))
<1>. TypeOK /\ Queued
  BY DEF PluginInv
<1>. DEFINE r == Head(queue)
<1>1. r \in Requests
  BY HeadTailProperties DEF TypeOK, Dispatch
<1>2. req[r] \in Request
  BY <1>1 DEF TypeOK
<1>. DEFINE k == [req[r] EXCEPT !.running = TRUE, !.hook = 1]
<1>3. /\ k \in Request /\ SameRequest(k, req[r]) /\ k.got = req[r].got
      /\ k.trace = req[r].trace /\ k.stage = req[r].stage /\ k.running /\ k.hook = 1
      /\ k.outcome = req[r].outcome
  BY <1>2 DEF Request, SameRequest
<1>4. req' = [req EXCEPT ![r] = k]
  BY DEF Dispatch
<1>5. left' \in [Requests -> 0 .. Deadline]
  BY PluginConstants DEF Dispatch, TypeOK
<1>. HIDE DEF k
<1>6. /\ req' \in [Requests -> Request] /\ req'[r] = k
      /\ \A x \in Requests : x # r => req'[x] = req[x]
  BY <1>1, <1>3, <1>4, Replaced
<1>7. Queued' /\ queue' \in Seq(Requests) /\ InLine(req[r])
  BY <1>6, QueueShrinks DEF Dispatch
<1>8. TypeOK'
  BY <1>5, <1>6, <1>7 DEF TypeOK, Dispatch
<1>. HIDE DEF r
<1>9. /\ Sound(req[r]) /\ host = "ready" /\ host # "building"
      /\ req[r].outcome = "none" /\ Len(ChainOf(req[r].route)) \in Nat \ {0}
  BY <1>1, <1>7, OnPath DEF InLine
<1>10. /\ req[r].stage = "request" => Len(req[r].trace) = 0
       /\ req[r].stage = "response" => Len(req[r].trace) = Len(ChainOf(req[r].route)) + 1
       /\ req[r].stage \in {"request", "response"}
  BY <1>7, <1>9 DEF InLine, Sound, PlacedAt, Placed
<1>11. PlacedAt(k)
  BY <1>3, <1>9, <1>10 DEF PlacedAt, Placed, SameRequest
<1>12. Follows(k.trace, k.route) /\ WholeBody(k)
  BY <1>3, <1>9, <1>10 DEF Sound, WholeBody, SameRequest
<1>. QED  BY <1>1, <1>3, <1>6, <1>7, <1>8, <1>9, <1>11, <1>12
             DEF Kept, Sound, Dispatch, SameRequest, r

\* Every step of a request keeps the invariant's part about it.
LEMMA RequestStep ==
    ASSUME PluginInv, NEW r \in Requests,
           \/ \E t \in Routes, f \in {"h1", "h3"}, declared \in BOOLEAN,
                 n \in 0 .. MaxLength : Arrive(r, t, f, declared, n)
           \/ ReadChunk(r) \/ ReadEnd(r) \/ ReadError(r)
           \/ PhaseStep(r)
           \/ FetchHead(r) \/ FetchBody(r) \/ FetchFails(r) \/ FetchTimesOut(r)
    PROVE  Kept(r)
<1>1. CASE HookTraps(r) \/ Interrupt(r)
  <2>1. req[r].running /\ Failed(r)
    BY <1>1 DEF HookTraps, Interrupt
  <2>. QED  BY <2>1, RunningIs, FailedStep
<1>2. CASE FetchFails(r) \/ FetchTimesOut(r)
  <2>1. req[r].stage \in {"head", "collect"} /\ Failed(r)
    BY <1>2 DEF FetchFails, FetchTimesOut
  <2>. QED  BY <2>1, FailedStep DEF InLine
<1>. QED
  BY <1>1, <1>2, ArriveStep, ReadChunkStep, ReadEndSteps, HookContinuesStep,
     HookRespondsStep, FetchHeadStep, FetchBodyStep DEF PhaseStep

\* What holds of one request after its step, holds of all.
LEMMA KeptAll ==
    ASSUME PluginInv, NEW r \in Requests, Kept(r)
    PROVE  PluginInv'
<1>1. \A x \in Requests : Sound(req'[x])
  BY DEF PluginInv, Kept
<1>2. Built'
  <2>1. /\ host' = "ready" => \A t \in Routes : chains'[t] = ChainOf(t)
        /\ host' # "ready" => \A t \in Routes : chains'[t] = <<>>
        /\ host' # "building"
    BY DEF PluginInv, Built, Kept
  <2>2. ASSUME NEW x \in Requests, req'[x].stage \notin {"idle", "done"}
        PROVE  host' = "ready" /\ Len(ChainOf(req'[x].route)) > 0
    BY <2>2 DEF PluginInv, Built, Kept
  <2>. QED  BY <2>1, <2>2 DEF Built
<1>3. \A x \in Requests : Sound(req[x])'
  BY <1>1 DEF Sound, PlacedAt, WholeBody, Follows
<1>. QED  BY <1>2, <1>3 DEF PluginInv, Kept

\* Plugins::build() happens before requests arrive.
LEMMA BuildStep ==
    ASSUME PluginInv, Build
    PROVE  PluginInv'
<1>. TypeOK /\ Queued /\ Built
  BY DEF PluginInv
<1>1. host' \in {"none", "ready", "failed"}
  BY DEF Build
<1>2. chains' = [t \in Routes |-> IF host' = "ready" THEN ChainOf(t) ELSE <<>>]
  BY DEF Build
<1>3. \A t \in Routes : ChainOf(t) \in Seq(Plugin) /\ <<>> \in Seq(Plugin)
  BY ChainIs, EmptySeq
<1>4. chains' \in [Routes -> Seq(Plugin)]
  BY <1>2, <1>3
<1>5. TypeOK'
  BY <1>1, <1>4 DEF TypeOK, Build
<1>6. \A x \in Requests : req[x].stage = "idle" /\ req' = req
  BY DEF Build, Built
<1>7. Built'
  BY <1>1, <1>2, <1>6 DEF Built
<1>8. Queued'
  BY DEF Queued, Build, InLine
<1>9. \A x \in Requests : Sound(req[x])'
  BY DEF PluginInv, Build, Sound, PlacedAt, WholeBody, Follows
<1>. QED  BY <1>5, <1>7, <1>8, <1>9 DEF PluginInv

\* Ticks of the epoch, and nothing at all.
LEMMA TickStep ==
    ASSUME PluginInv, Tick \/ UNCHANGED vars
    PROVE  PluginInv'
<1>. TypeOK /\ Queued /\ Built
  BY DEF PluginInv
<1>1. host' = host /\ chains' = chains /\ req' = req /\ queue' = queue
  BY DEF Tick, vars
<1>2. left' \in [Requests -> 0 .. Deadline]
  <2>1. CASE Tick
    <3>1. \A x \in Requests : (IF left[x] > 0 THEN left[x] - 1 ELSE 0) \in 0 .. Deadline
      BY PluginConstants DEF TypeOK
    <3>. QED  BY <2>1, <3>1 DEF Tick
  <2>2. CASE UNCHANGED vars
    BY <2>2 DEF TypeOK, vars
  <2>. QED  BY <2>1, <2>2
<1>3. TypeOK'
  BY <1>1, <1>2 DEF TypeOK
<1>4. Queued' /\ Built'
  BY <1>1 DEF Queued, Built, InLine
<1>5. \A x \in Requests : Sound(req[x])'
  BY <1>1 DEF PluginInv, Sound, PlacedAt, WholeBody, Follows
<1>. QED  BY <1>3, <1>4, <1>5 DEF PluginInv

\* The invariant is inductive.
LEMMA StepPlugin == PluginInv /\ [Next]_vars => PluginInv'
<1>. SUFFICES ASSUME PluginInv, [Next]_vars PROVE PluginInv'
  OBVIOUS
<1>1. CASE Dispatch
  BY <1>1, DispatchStep, KeptAll
<1>2. CASE Build
  BY <1>2, BuildStep
<1>3. CASE Tick \/ UNCHANGED vars
  BY <1>3, TickStep
<1>4. ASSUME NEW r \in Requests,
             \/ \E t \in Routes, f \in {"h1", "h3"}, declared \in BOOLEAN,
                   n \in 0 .. MaxLength : Arrive(r, t, f, declared, n)
             \/ ReadChunk(r) \/ ReadEnd(r) \/ ReadError(r)
             \/ PhaseStep(r)
             \/ FetchHead(r) \/ FetchBody(r) \/ FetchFails(r) \/ FetchTimesOut(r)
      PROVE  PluginInv'
  BY <1>4, RequestStep, KeptAll
<1>. QED  BY <1>1, <1>2, <1>3, <1>4 DEF Next

\* The invariant holds at the start.
LEMMA InitPlugin == Init => PluginInv
<1>. SUFFICES ASSUME Init PROVE PluginInv
  OBVIOUS
<1>. DEFINE t == CHOOSE t \in Routes : TRUE
            k == [stage |-> "idle", route |-> t,
                  front |-> "h1", declared |-> FALSE, length |-> 0, got |-> 0,
                  hook |-> 1, running |-> FALSE, trace |-> <<>>, outcome |-> "none"]
<1>1. t \in Routes
  BY PluginConstants
<1>2. req = [r \in Requests |-> k]
  BY DEF Init
<1>. HIDE DEF t
<1>3. 0 \in 0 .. MaxLength /\ 0 \in 0 .. MaxBody /\ 0 \in 0 .. Deadline /\ 1 \in Nat
      /\ <<>> \in Seq(Events)
  BY PluginConstants, EmptySeq
<1>4. /\ k \in Request /\ k.stage = "idle" /\ ~k.running /\ k.trace = <<>>
      /\ k.outcome = "none" /\ k.route = t
  BY <1>1, <1>3 DEF Request
<1>. HIDE DEF k
<1>5. req \in [Requests -> Request] /\ \A r \in Requests : req[r] = k
  BY <1>2, <1>4
<1>6. chains \in [Routes -> Seq(Plugin)] /\ \A x \in Routes : chains[x] = <<>>
  <2>1. <<>> \in Seq(Plugin)
    BY EmptySeq
  <2>. QED  BY <2>1 DEF Init
<1>7. queue \in Seq(Requests) /\ Len(queue) = 0
  BY EmptySeq DEF Init
<1>8. TypeOK
  BY <1>3, <1>5, <1>6, <1>7 DEF Init, TypeOK
<1>9. Built
  BY <1>4, <1>5, <1>6 DEF Init, Built
<1>10. Queued
  BY <1>7 DEF Queued
<1>11. Sound(k)
  <2>1. Len(ChainOf(t)) \in Nat /\ Len(<<>>) = 0 /\ Len(Nesting(t)) \in Nat
    BY <1>1, ChainIs, NestingIs, LenProperties
  <2>2. PlacedAt(k)
    BY <1>4, <2>1 DEF PlacedAt, Placed
  <2>3. Follows(k.trace, k.route)
    BY <1>4, <2>1 DEF Follows
  <2>4. WholeBody(k)
    BY <1>4 DEF WholeBody
  <2>. QED  BY <2>2, <2>3, <2>4 DEF Sound
<1>. QED  BY <1>5, <1>8, <1>9, <1>10, <1>11 DEF PluginInv

-----------------------------------------------------------------------------
(* The theorems.                                                           *)

\* The types are right in every reachable state: in particular no buffer holds more
\* than max_body_bytes of [plugins].
THEOREM TypesCorrect == Spec => []TypeOK
<1>1. PluginInv => TypeOK
  BY DEF PluginInv
<1>. QED  BY <1>1, InitPlugin, StepPlugin, PTL DEF Spec

\* On HTTP/1 and HTTP/2 neither a plugin nor the upstream gets a body that the client
\* did not finish, whatever else goes on.
THEOREM BodiesWhole == Spec => []HooksSeeWholeBody
<1>1. PluginInv => HooksSeeWholeBody
  BY DEF PluginInv, Sound, WholeBody, HooksSeeWholeBody
<1>. QED  BY <1>1, InitPlugin, StepPlugin, PTL DEF Spec

\* For chains of any length, plugins nest: what has happened to a message is always
\* the beginning of its nesting, an answer of the upstream went through all of it, and
\* an answer of a plugin met no response hook.
THEOREM PluginsNest == Spec => []Nested
<1>1. PluginInv => Nested
  <2>. SUFFICES ASSUME PluginInv, NEW r \in Requests
                PROVE  /\ IsPrefix(req[r].trace, Nesting(req[r].route))
                       /\ req[r].outcome = "answered" =>
                             req[r].trace = Nesting(req[r].route)
                       /\ req[r].outcome = "responded" =>
                             \A i \in DOMAIN req[r].trace : req[r].trace[i].what = "request"
    BY DEF Nested
  <2>. DEFINE u == req[r].trace
              t == req[r].route
              w == Nesting(t)
              n == Len(ChainOf(t))
  <2>1. req[r] \in Request /\ Sound(req[r])
    BY DEF PluginInv, TypeOK
  <2>2. t \in Routes /\ u \in Seq(Events)
    BY <2>1 DEF Request
  <2>3. /\ w \in Seq(Events) /\ Len(w) = n + n + 1 /\ n \in Nat
        /\ \A i \in 1 .. n : w[i] = [what |-> "request", by |-> ChainOf(t)[i]]
    BY <2>2, NestingIs, ChainIs
  <2>4. /\ Len(u) <= Len(w) /\ \A i \in 1 .. Len(u) : u[i] = w[i]
        /\ req[r].outcome = "answered" => Len(u) = n + n + 1
        /\ req[r].outcome = "responded" => Len(u) <= n
    BY <2>1 DEF Sound, Follows, PlacedAt, Placed
  <2>5. Len(u) \in Nat /\ Len(w) \in Nat /\ DOMAIN u = 1 .. Len(u)
    BY <2>2, <2>3, LenProperties
  <2>. HIDE DEF u, w, n, t
  <2>6. IsPrefix(u, w)
    <3>1. /\ SubSeq(u, 1, Len(u)) \in Seq(Events) /\ Len(SubSeq(u, 1, Len(u))) = Len(u)
          /\ \A i \in 1 .. Len(u) : SubSeq(u, 1, Len(u))[i] = u[i]
      <4>1. Len(u) <= Len(u)
        BY <2>5
      <4>. QED  BY <2>2, <2>5, <4>1, Beginning, Zenon
    <3>2. /\ SubSeq(w, 1, Len(u)) \in Seq(Events) /\ Len(SubSeq(w, 1, Len(u))) = Len(u)
          /\ \A i \in 1 .. Len(u) : SubSeq(w, 1, Len(u))[i] = w[i]
      BY <2>3, <2>4, <2>5, Beginning, Zenon
    <3>3. SubSeq(u, 1, Len(u)) = SubSeq(w, 1, Len(u))
      BY <2>4, <3>1, <3>2, SeqEqual
    <3>. QED  BY <2>4, <3>3 DEF IsPrefix
  <2>7. req[r].outcome = "answered" => u = w
    BY <2>2, <2>3, <2>4, SeqEqual
  <2>8. req[r].outcome = "responded" => \A i \in DOMAIN u : u[i].what = "request"
    <3>. SUFFICES ASSUME req[r].outcome = "responded", NEW i \in DOMAIN u
                  PROVE  u[i].what = "request"
      OBVIOUS
    <3>1. i \in 1 .. Len(u) /\ i \in 1 .. n
      BY <2>3, <2>4, <2>5
    <3>2. u[i] = [what |-> "request", by |-> ChainOf(t)[i]]
      BY <2>3, <2>4, <3>1
    <3>. QED  BY <3>2
  <2>. QED  BY <2>6, <2>7, <2>8 DEF u, w, t
<1>. QED  BY <1>1, InitPlugin, StepPlugin, PTL DEF Spec
-----------------------------------------------------------------------------
(* What a step may never do.                                               *)

\* The order of the stages.
Rank == [idle |-> 0, buffer |-> 1, request |-> 2, head |-> 3, collect |-> 4,
         response |-> 5, done |-> 6]

\* From q to k a request that is over stays as it is and none goes back, a phase that
\* runs goes on with the same hook or the next one, a thread leaves it after its last
\* hook or with the request over, for a later stage, and nothing that has happened is
\* taken back.
InTurn(q, k) ==
    /\ q.stage = "done" => k = q
    /\ Rank[q.stage] <= Rank[k.stage]
    /\ q.running /\ k.running => k.stage = q.stage /\ k.hook \in {q.hook, q.hook + 1}
    /\ q.running /\ ~k.running =>
          /\ Rank[q.stage] < Rank[k.stage]
          /\ k.stage = "done" \/ q.hook = Len(ChainOf(q.route))
    /\ k.trace = q.trace \/ \E e : k.trace = Append(q.trace, e)

\* The ranks of the stages a request can be in.
LEMMA Ranks ==
    ASSUME NEW q \in Request
    PROVE  /\ Rank[q.stage] \in 0 .. 6 /\ (q.stage # "done" => Rank[q.stage] < 6)
           /\ Rank["done"] = 6 /\ Rank["idle"] = 0 /\ Rank["buffer"] = 1
           /\ Rank["request"] = 2 /\ Rank["head"] = 3 /\ Rank["collect"] = 4
           /\ Rank["response"] = 5
  BY DEF Rank, Request

\* A step that leaves a request as it is.
LEMMA UnchangedInTurn ==
    ASSUME NEW q \in Request
    PROVE  InTurn(q, q)
<1>1. Rank[q.stage] <= Rank[q.stage]
  BY Ranks
<1>. QED  BY <1>1 DEF InTurn

\* A step that changes the stage, the buffer or the outcome of a request for which no
\* thread is at work, and adds to its trace at most.
LEMMA NotRunning ==
    ASSUME NEW q, NEW k, ~q.running, q.stage # "done", Rank[q.stage] <= Rank[k.stage],
           k.trace = q.trace \/ \E e : k.trace = Append(q.trace, e)
    PROVE  InTurn(q, k)
  BY DEF InTurn

\* A request that fails while a phase of it runs or its answer is fetched.
LEMMA FailedInTurn ==
    ASSUME PluginInv, NEW r \in Requests, req[r].stage # "done", Failed(r)
    PROVE  InTurn(req[r], req'[r])
<1>1. req[r] \in Request
  BY DEF PluginInv, TypeOK
<1>2. /\ req'[r].trace = req[r].trace /\ req'[r].stage = "done"
      /\ req'[r].running = FALSE
  BY <1>1 DEF Failed, Request, PluginInv, TypeOK
<1>3. Rank[req[r].stage] < Rank[req'[r].stage] /\ Rank[req[r].stage] <= Rank[req'[r].stage]
  BY <1>1, <1>2, Ranks
<1>. QED  BY <1>2, <1>3 DEF InTurn

\* A hook that returns is followed by the next one, or ends its phase.
LEMMA HookInTurn ==
    ASSUME PluginInv, NEW r \in Requests, HookContinues(r) \/ HookResponds(r)
    PROVE  InTurn(req[r], req'[r])
<1>. DEFINE q == req[r]
            u == Traced(r)
            k == [q EXCEPT !.running = FALSE, !.trace = u]
<1>1. q.running
  BY DEF HookContinues, HookResponds
<1>2. /\ q \in Request /\ q.stage \in {"request", "response"}
      /\ chains[q.route] = ChainOf(q.route) /\ req \in [Requests -> Request]
  BY <1>1, RunningIs, OnPath DEF PluginInv, TypeOK
<1>3. \E e : u = Append(q.trace, e)
  BY DEF Traced
<1>. HIDE DEF u
<1>4. CASE HookResponds(r)
  <2>1. req'[r].trace = u /\ req'[r].stage = "done" /\ req'[r].running = FALSE
    BY <1>2, <1>4 DEF HookResponds, Request, u
  <2>2. Rank[q.stage] < Rank[req'[r].stage] /\ Rank[q.stage] <= Rank[req'[r].stage]
    BY <1>2, <2>1, Ranks
  <2>. QED  BY <1>2, <1>3, <2>1, <2>2 DEF InTurn
<1>5. CASE req' = [req EXCEPT ![r] = [q EXCEPT !.hook = q.hook + 1, !.trace = u]]
  <2>1. /\ req'[r].trace = u /\ req'[r].stage = q.stage /\ req'[r].running = q.running
        /\ req'[r].hook = q.hook + 1
    BY <1>2, <1>5 DEF Request
  <2>2. Rank[q.stage] <= Rank[req'[r].stage]
    BY <1>2, <2>1, Ranks
  <2>. QED  BY <1>1, <1>2, <1>3, <2>1, <2>2 DEF InTurn
<1>6. CASE /\ q.hook = Len(chains[q.route])
           /\ req' = [req EXCEPT ![r] =
                 IF k.stage = "request" THEN [k EXCEPT !.stage = "head"]
                 ELSE [k EXCEPT !.stage = "done", !.outcome = "answered"]]
  <2>1. /\ k \in [DOMAIN q -> {k[f] : f \in DOMAIN k}] /\ k.trace = u /\ k.running = FALSE
        /\ k.stage = q.stage
    BY <1>2 DEF Request
  <2>2. DOMAIN q = {"stage", "route", "front", "declared", "length", "got", "hook",
                    "running", "trace", "outcome"}
    BY <1>2 DEF Request
  <2>. HIDE DEF k
  <2>3. req'[r].trace = u /\ req'[r].running = FALSE
    BY <1>2, <1>6, <2>1, <2>2
  <2>4. req'[r].stage = IF q.stage = "request" THEN "head" ELSE "done"
    BY <1>2, <1>6, <2>1, <2>2
  <2>5. Rank[q.stage] < Rank[req'[r].stage] /\ Rank[q.stage] <= Rank[req'[r].stage]
    BY <1>2, <2>4, Ranks
  <2>. QED  BY <1>2, <1>3, <1>6, <2>3, <2>5 DEF InTurn
<1>. QED  BY <1>4, <1>5, <1>6 DEF HookContinues, u, k

\* A thread takes up a phase that waits, of a request that is not over.
LEMMA DispatchInTurn ==
    ASSUME PluginInv, Dispatch
    PROVE  /\ Head(queue) \in Requests
           /\ InTurn(req[Head(queue)], req'[Head(queue)])
           /\ Running' = Running \cup {Head(queue)}
<1>. DEFINE r == Head(queue)
<1>1. r \in Requests /\ req \in [Requests -> Request] /\ req[r] \in Request
  BY DispatchStep DEF PluginInv, TypeOK
<1>2. InLine(req[r])
  <2>1. queue \in Seq(Requests) /\ queue # <<>>
    BY DEF PluginInv, TypeOK, Dispatch
  <2>2. 1 \in 1 .. Len(queue) /\ queue[1] = r
    BY <2>1
  <2>. QED  BY <2>2 DEF PluginInv, Queued
<1>3. req' = [req EXCEPT ![r] = [@ EXCEPT !.running = TRUE, !.hook = 1]]
  BY DEF Dispatch
<1>. HIDE DEF r
<1>4. /\ req'[r].trace = req[r].trace /\ req'[r].running = TRUE
      /\ req'[r].stage = req[r].stage
      /\ \A x \in Requests \ {r} : req'[x] = req[x]
  BY <1>1, <1>3 DEF Request
<1>5. InTurn(req[r], req'[r])
  <2>1. Rank[req[r].stage] <= Rank[req'[r].stage]
    BY <1>1, <1>4, Ranks
  <2>. QED  BY <1>2, <1>4, <2>1, NotRunning DEF InLine
<1>6. Running' = Running \cup {r}
  BY <1>1, <1>4 DEF Running
<1>. QED  BY <1>1, <1>5, <1>6 DEF r

\* What is written of a request outside its phases leaves its trace and thread alone.
LEMMA OtherFields ==
    ASSUME NEW q \in Request, NEW s, NEW o, NEW g
    PROVE  /\ [q EXCEPT !.stage = s].stage = s
           /\ [q EXCEPT !.got = g].stage = q.stage
           /\ [q EXCEPT !.stage = s, !.outcome = o].stage = s
           /\ [q EXCEPT !.stage = s].running = q.running
           /\ [q EXCEPT !.stage = s].trace = q.trace
           /\ [q EXCEPT !.got = g].running = q.running
           /\ [q EXCEPT !.got = g].trace = q.trace
           /\ [q EXCEPT !.stage = s, !.outcome = o].running = q.running
           /\ [q EXCEPT !.stage = s, !.outcome = o].trace = q.trace
<1>1. DOMAIN q = {"stage", "route", "front", "declared", "length", "got", "hook",
                  "running", "trace", "outcome"}
  BY DEF Request
<1>. QED  BY <1>1

\* The same of a request among the others.
LEMMA Unmoved ==
    ASSUME NEW r \in Requests, req \in [Requests -> Request], NEW s, NEW o, NEW g,
           \/ req' = [req EXCEPT ![r].stage = s]
           \/ req' = [req EXCEPT ![r].got = g]
           \/ req' = [req EXCEPT ![r] = [@ EXCEPT !.stage = s, !.outcome = o]]
    PROVE  /\ req'[r].running = req[r].running /\ req'[r].trace = req[r].trace
           /\ req'[r].stage \in {s, req[r].stage}
<1>. DEFINE k1 == [req[r] EXCEPT !.stage = s]
            k2 == [req[r] EXCEPT !.got = g]
            k3 == [req[r] EXCEPT !.stage = s, !.outcome = o]
<1>1. /\ k1.running = req[r].running /\ k1.trace = req[r].trace
      /\ k2.running = req[r].running /\ k2.trace = req[r].trace
      /\ k3.running = req[r].running /\ k3.trace = req[r].trace
      /\ k1.stage = s /\ k2.stage = req[r].stage /\ k3.stage = s
  BY OtherFields
<1>2. \/ req' = [req EXCEPT ![r] = k1] \/ req' = [req EXCEPT ![r] = k2]
      \/ req' = [req EXCEPT ![r] = k3]
  OBVIOUS
<1>. HIDE DEF k1, k2, k3
<1>3. req'[r] = k1 \/ req'[r] = k2 \/ req'[r] = k3
  BY <1>2
<1>. QED  BY <1>1, <1>3

\* The same of a request that arrives.
LEMMA ArrivedUnmoved ==
    ASSUME NEW r \in Requests, req \in [Requests -> Request],
           NEW t, NEW f, NEW declared, NEW n, Arrive(r, t, f, declared, n)
    PROVE  /\ req[r].stage = "idle"
           /\ req'[r].running = req[r].running /\ req'[r].trace = req[r].trace
           /\ req'[r].stage \in {"buffer", "done"}
<1>. DEFINE q == req[r]
            k == [q EXCEPT !.route = t, !.front = f, !.declared = declared, !.length = n]
            l == [k EXCEPT !.stage = "done", !.outcome = "streamed"]
            m == [k EXCEPT !.stage = "buffer"]
<1>1. DOMAIN q = {"stage", "route", "front", "declared", "length", "got", "hook",
                  "running", "trace", "outcome"}
  BY DEF Request
<1>2. /\ req[r].stage = "idle"
      /\ req' = [req EXCEPT ![r] = l] \/ req' = [req EXCEPT ![r] = m]
  BY DEF Arrive
<1>. HIDE DEF q
<1>3. k.running = q.running /\ k.trace = q.trace /\ DOMAIN k = DOMAIN q
  BY <1>1
<1>. HIDE DEF k
<1>4. l.running = k.running /\ l.trace = k.trace /\ l.stage = "done"
  BY <1>1, <1>3
<1>5. m.running = k.running /\ m.trace = k.trace /\ m.stage = "buffer"
  BY <1>1, <1>3
<1>. HIDE DEF l, m
<1>6. req'[r] = l \/ req'[r] = m
  BY <1>2
<1>. QED  BY <1>2, <1>3, <1>4, <1>5, <1>6 DEF q

\* Every step of a request goes in turn, and begins no phase.
LEMMA RequestInTurn ==
    ASSUME PluginInv, NEW r \in Requests,
           \/ \E t \in Routes, f \in {"h1", "h3"}, declared \in BOOLEAN,
                 n \in 0 .. MaxLength : Arrive(r, t, f, declared, n)
           \/ ReadChunk(r) \/ ReadEnd(r) \/ ReadError(r)
           \/ PhaseStep(r)
           \/ FetchHead(r) \/ FetchBody(r) \/ FetchFails(r) \/ FetchTimesOut(r)
    PROVE  InTurn(req[r], req'[r]) /\ (req'[r].running => req[r].running)
<1>1. req \in [Requests -> Request] /\ req[r] \in Request /\ PlacedAt(req[r])
  BY DEF PluginInv, TypeOK, Sound
<1>2. req[r].stage \in {"idle", "buffer", "head", "collect"} => req[r].running = FALSE
  BY <1>1 DEF PlacedAt, Placed, Request
<1>3. ASSUME req[r].stage \in {"idle", "buffer", "head", "collect"},
             req'[r].running = req[r].running, Rank[req[r].stage] <= Rank[req'[r].stage],
             req'[r].trace = req[r].trace \/ \E e : req'[r].trace = Append(req[r].trace, e)
      PROVE  InTurn(req[r], req'[r]) /\ (req'[r].running => req[r].running)
  BY <1>2, <1>3, NotRunning
<1>4. CASE \E t \in Routes, f \in {"h1", "h3"}, declared \in BOOLEAN,
              n \in 0 .. MaxLength : Arrive(r, t, f, declared, n)
  <2>1. /\ req[r].stage = "idle" /\ req'[r].running = req[r].running
        /\ req'[r].trace = req[r].trace /\ req'[r].stage \in {"buffer", "done"}
    BY <1>1, <1>4, ArrivedUnmoved
  <2>2. Rank[req[r].stage] <= Rank[req'[r].stage]
    BY <1>1, <2>1, Ranks
  <2>. QED  BY <1>3, <2>1, <2>2
<1>5. CASE ReadChunk(r)
  <2>1. /\ req[r].stage = "buffer" /\ req'[r].running = req[r].running
        /\ req'[r].trace = req[r].trace /\ req'[r].stage \in {"buffer", "done"}
    BY <1>1, <1>5, Unmoved DEF ReadChunk
  <2>2. Rank[req[r].stage] <= Rank[req'[r].stage]
    BY <1>1, <2>1, Ranks
  <2>. QED  BY <1>3, <2>1, <2>2
<1>6. CASE ReadEnd(r) \/ ReadError(r)
  <2>1. /\ req[r].stage = "buffer"
        /\ \/ req' = [req EXCEPT ![r].stage = "request"]
           \/ req' = [req EXCEPT ![r] = [@ EXCEPT !.stage = "done", !.outcome = "broken"]]
    BY <1>6, Zenon DEF ReadEnd, ReadError
  <2>2. /\ req'[r].running = req[r].running /\ req'[r].trace = req[r].trace
        /\ req'[r].stage \in {"buffer", "request", "done"}
    <3>1. CASE req' = [req EXCEPT ![r].stage = "request"]
      BY ONLY <1>1, <2>1, <3>1, Unmoved, r \in Requests
    <3>2. CASE req' = [req EXCEPT ![r] = [@ EXCEPT !.stage = "done", !.outcome = "broken"]]
      BY ONLY <1>1, <2>1, <3>2, Unmoved, r \in Requests
    <3>. QED  BY <2>1, <3>1, <3>2
  <2>3. Rank[req[r].stage] <= Rank[req'[r].stage]
    BY <1>1, <2>1, <2>2, Ranks
  <2>. QED  BY <1>3, <2>1, <2>2, <2>3
<1>7. CASE FetchHead(r) \/ FetchBody(r)
  <2>1. req[r].stage \in {"head", "collect"}
    BY <1>7 DEF FetchHead, FetchBody
  <2>2. CASE FetchHead(r)
    <3>1. /\ req'[r].running = req[r].running /\ req'[r].trace = req[r].trace
          /\ req'[r].stage \in {"collect", req[r].stage}
      BY <1>1, <2>2, Unmoved DEF FetchHead
    <3>2. Rank[req[r].stage] <= Rank[req'[r].stage]
      BY <1>1, <2>1, <3>1, Ranks
    <3>. QED  BY <1>3, <2>1, <3>1, <3>2
  <2>3. CASE FetchBody(r)
    <3>. DEFINE u == Append(req[r].trace, Origin)
    <3>1. req' = [req EXCEPT ![r] = [@ EXCEPT !.stage = "response", !.trace = u]]
      BY <2>3 DEF FetchBody
    <3>. HIDE DEF u
    <3>2. /\ req'[r].running = req[r].running /\ req'[r].trace = u
          /\ req'[r].stage = "response"
      BY <1>1, <3>1 DEF Request
    <3>3. req'[r].trace = Append(req[r].trace, Origin)
      BY <3>2 DEF u
    <3>4. Rank[req[r].stage] <= Rank[req'[r].stage]
      BY <1>1, <2>1, <3>2, Ranks
    <3>. QED  BY <1>3, <2>1, <3>2, <3>3, <3>4
  <2>. QED  BY <1>7, <2>2, <2>3
<1>8. CASE Failed(r) /\ (req[r].running \/ req[r].stage \in {"head", "collect"})
  <2>1. req[r].stage # "done"
    BY <1>8, RunningIs
  <2>2. req'[r].running = FALSE
    BY <1>1, <1>8 DEF Failed, Request
  <2>. QED  BY <1>8, <2>1, <2>2, FailedInTurn
<1>9. CASE HookContinues(r) \/ HookResponds(r)
  <2>1. req[r].running
    BY <1>9 DEF HookContinues, HookResponds
  <2>. QED  BY <1>9, <2>1, HookInTurn
<1>. QED
  BY <1>4, <1>5, <1>6, <1>7, <1>8, <1>9
     DEF PhaseStep, HookTraps, Interrupt, FetchFails, FetchTimesOut

\* No more phases run than there are threads.
ThreadsBounded == IsFiniteSet(Running) /\ Cardinality(Running) <= PoolSize

\* Every step goes in turn and keeps within the pool.
LEMMA StepInTurn ==
    ASSUME PluginInv, ThreadsBounded, [Next]_vars
    PROVE  ThreadsBounded' /\ \A x \in Requests : InTurn(req[x], req'[x])
<1>. TypeOK
  BY DEF PluginInv
<1>. \A x \in Requests : req'[x] = req[x] => InTurn(req[x], req'[x])
  BY UnchangedInTurn DEF TypeOK
<1>1. ASSUME req' = req
      PROVE  ThreadsBounded' /\ \A x \in Requests : InTurn(req[x], req'[x])
  <2>1. ThreadsBounded'
    BY <1>1 DEF ThreadsBounded, Running
  <2>. QED  BY <1>1, <2>1
<1>2. ASSUME NEW r \in Requests, \A x \in Requests : x # r => req'[x] = req[x],
             InTurn(req[r], req'[r])
      PROVE  \A x \in Requests : InTurn(req[x], req'[x])
  BY <1>2
<1>3. CASE Dispatch
  <2>. DEFINE r == Head(queue)
  <2>1. r \in Requests /\ InTurn(req[r], req'[r]) /\ Running' = Running \cup {r}
    BY <1>3, DispatchInTurn
  <2>2. \A x \in Requests : x # r => req'[x] = req[x]
    BY <1>3, DispatchStep DEF Kept
  <2>3. Cardinality(Running) < PoolSize /\ IsFiniteSet(Running)
    BY <1>3 DEF Dispatch, ThreadsBounded
  <2>. HIDE DEF r
  <2>4. IsFiniteSet(Running) /\ Cardinality(Running) \in Nat
    BY <2>3, FS_CardinalityType
  <2>5. /\ IsFiniteSet(Running \cup {r})
        /\ Cardinality(Running \cup {r}) <= Cardinality(Running) + 1
    BY <2>4, FS_AddElement
  <2>6. Cardinality(Running') \in Nat /\ IsFiniteSet(Running')
    BY <2>1, <2>5, FS_CardinalityType
  <2>7. ThreadsBounded'
    BY <2>1, <2>3, <2>4, <2>5, <2>6, PluginConstants DEF ThreadsBounded
  <2>. QED  BY <1>2, <2>1, <2>2, <2>7
<1>4. ASSUME NEW r \in Requests,
             \/ \E t \in Routes, f \in {"h1", "h3"}, declared \in BOOLEAN,
                   n \in 0 .. MaxLength : Arrive(r, t, f, declared, n)
             \/ ReadChunk(r) \/ ReadEnd(r) \/ ReadError(r)
             \/ PhaseStep(r)
             \/ FetchHead(r) \/ FetchBody(r) \/ FetchFails(r) \/ FetchTimesOut(r)
      PROVE  ThreadsBounded' /\ \A x \in Requests : InTurn(req[x], req'[x])
  <2>1. InTurn(req[r], req'[r]) /\ (req'[r].running => req[r].running)
    BY <1>4, RequestInTurn
  <2>2. \A x \in Requests : x # r => req'[x] = req[x]
    BY <1>4, RequestStep DEF Kept
  <2>3. Running' \in SUBSET Running
    BY <2>1, <2>2 DEF Running
  <2>4. IsFiniteSet(Running) /\ Cardinality(Running) \in Nat
    BY FS_CardinalityType DEF ThreadsBounded
  <2>5. IsFiniteSet(Running') /\ Cardinality(Running') <= Cardinality(Running)
    BY <2>3, <2>4, FS_Subset
  <2>6. Cardinality(Running') \in Nat
    BY <2>5, FS_CardinalityType
  <2>7. ThreadsBounded'
    BY <2>4, <2>5, <2>6, PluginConstants DEF ThreadsBounded
  <2>. QED  BY <1>2, <2>1, <2>2, <2>7
<1>5. CASE Build \/ Tick \/ UNCHANGED vars
  BY <1>1, <1>5 DEF Build, Tick, vars
<1>. QED  BY <1>3, <1>4, <1>5 DEF Next

\* No run of a chain is begun twice, by two threads or after its request is over, and
\* none is left between two hooks unless the request is over; at no time do more run
\* than the pool has threads, however traps, deadlines and failing upstreams fall.
THEOREM PhasesRunOnce ==
    Spec => []ThreadsBounded /\ [][\A r \in Requests : InTurn(req[r], req'[r])]_vars
<1>1. Init => ThreadsBounded
  <2>. SUFFICES ASSUME Init PROVE ThreadsBounded
    OBVIOUS
  <2>1. Running = {}
    BY DEF Init, Running
  <2>. QED  BY <2>1, FS_EmptySet, PluginConstants DEF ThreadsBounded
<1>2. PluginInv /\ ThreadsBounded /\ [Next]_vars => ThreadsBounded'
  BY StepInTurn
<1>3. PluginInv /\ ThreadsBounded /\ [Next]_vars =>
         [\A r \in Requests : InTurn(req[r], req'[r])]_vars
  BY StepInTurn
<1>. QED  BY <1>1, <1>2, <1>3, InitPlugin, StepPlugin, PTL DEF Spec
=============================================================================

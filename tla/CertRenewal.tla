----------------------------- MODULE CertRenewal -----------------------------
(***************************************************************************)
(* Automatic certificates: the ACME runner (crates/zaphyl/src/acme.rs)     *)
(* obtains a certificate, writes it and its key to two files and renews it *)
(* when due; the TLS listeners read the files during handshakes through a  *)
(* ReloadCache (crates/zaphyl/src/tls.rs, and DynamicCertResolver in       *)
(* http3.rs); the plain-HTTP front (http_front.rs), which main() starts    *)
(* first, answers the CA's challenges from the ChallengeStore              *)
(* (zaphyl-core/src/acme.rs).  The runner, the front, the handshakes and   *)
(* the CA run concurrently, and the process may die at any point.          *)
(*                                                                         *)
(* A certificate and its key are known by the number of the order that     *)
(* issued them.  An order has one authorization.                           *)
(***************************************************************************)
EXTENDS Naturals, FiniteSets

CONSTANTS
    Handshakes,   \* handshakes in progress
    ListenerOf,   \* ListenerOf[h]: the listener, "h1" or "h3", of handshake h
    MtimeTies,    \* whether the clock of the file system is so coarse that the
                  \* truncation and the write of a file have one modification time
    MaxOrders,    \* bound: certificates issued
    MaxFailures   \* bound: orders and writes that fail, and crashes

ASSUME CertConstants ==
    /\ ListenerOf \in [Handshakes -> {"h1", "h3"}]
    /\ MtimeTies \in BOOLEAN
    /\ MaxOrders \in Nat
    /\ MaxFailures \in Nat

VARIABLES
    cert,      \* cert.pem: whether it exists, and the order; 0 when truncated
    key,       \* key.pem, likewise
    mtime,     \* modification time of cert.pem
    due,       \* whether the certificate on disk is within the renewal window
    issued,    \* number of certificates the CA issued
    failures,  \* number of orders and writes that failed, and of crashes
    runner,    \* where the thread that runs start() and renewal_loop() is
    serving,   \* whether the TLS listeners run (start() returned)
    tokens,    \* ChallengeStore: the orders whose token is in the store
    ready,     \* the orders whose challenge the CA was told is ready
    missed,    \* history: the CA asked for the token of a live order in vain
    front,     \* the plain-HTTP front; "dead" when serve() returned
    spoiled,   \* whether the CA has refused the order in progress
    cached,    \* the ReloadCache of each listener
    hs         \* the handshakes

vars == <<cert, key, mtime, due, issued, failures, runner, serving, tokens,
          ready, missed, front, spoiled, cached, hs>>

File == [exists : BOOLEAN, order : Nat]
NoFile == [exists |-> FALSE, order |-> 0]

Usable(c, k) == c.exists /\ k.exists /\ c.order = k.order /\ c.order > 0

\* at: the mtime the pair is filed under; cert, key: the orders that were read.
Pair == [some : BOOLEAN, at : Nat, cert : Nat, key : Nat]
NoPair == [some |-> FALSE, at |-> 0, cert |-> 0, key |-> 0]

\* floor: the certificate on disk when the handshake looked at the mtime.
Handshake == [stage : {"idle", "compare", "cert", "key", "store", "served"},
              pair : Pair, floor : Nat]
IdleHandshake == [stage |-> "idle", pair |-> NoPair, floor |-> 0]

RunnerStates == {"down", "wait", "start", "asleep", "order", "insert", "set_ready", "validate",
                 "cert_open", "cert_write", "key_open", "key_write"}
FrontStates == {"down", "binding", "listening", "dead"}

TypeOK ==
    /\ cert \in File
    /\ key \in File
    /\ mtime \in Nat
    /\ due \in BOOLEAN
    /\ issued \in Nat
    /\ failures \in Nat
    /\ runner \in RunnerStates
    /\ serving \in BOOLEAN
    /\ tokens \subseteq Nat
    /\ ready \subseteq Nat
    /\ missed \in BOOLEAN
    /\ front \in FrontStates
    /\ spoiled \in BOOLEAN
    /\ cached \in [{"h1", "h3"} -> Pair]
    /\ hs \in [Handshakes -> Handshake]

Init ==
    /\ cert = NoFile
    /\ key = NoFile
    /\ mtime = 0
    /\ due = FALSE
    /\ issued = 0
    /\ failures = 0
    /\ runner = "down"
    /\ serving = FALSE
    /\ tokens = {}
    /\ ready = {}
    /\ missed = FALSE
    /\ front = "down"
    /\ spoiled = FALSE
    /\ cached = [l \in {"h1", "h3"} |-> NoPair]
    /\ hs = [h \in Handshakes |-> IdleHandshake]

-----------------------------------------------------------------------------
(* The plain-HTTP front.                                                   *)

\* main(): the front's thread is spawned.
SpawnFront ==
    /\ runner = "down"
    /\ runner' = "wait"
    /\ front' = "binding"
    /\ UNCHANGED <<cert, key, mtime, due, issued, failures, serving, tokens, ready,
                   missed, spoiled, cached, hs>>

BindFront ==
    /\ front = "binding"
    /\ front' = "listening"
    /\ UNCHANGED <<cert, key, mtime, due, issued, failures, runner, serving, tokens,
                   ready, missed, spoiled, cached, hs>>

\* bind() fails, or accept() does: serve() returns, and nobody calls it again.
FrontFails ==
    /\ front \in {"binding", "listening"}
    /\ front' = "dead"
    /\ UNCHANGED <<cert, key, mtime, due, issued, failures, runner, serving, tokens,
                   ready, missed, spoiled, cached, hs>>

\* wait_bound() returns when the front listens, or after three seconds: it is not
\* there, or takes longer, which counts as a failure.
WaitBound ==
    /\ runner = "wait"
    /\ \/ front # "binding" /\ UNCHANGED failures
       \/ /\ front = "binding"
          /\ failures < MaxFailures
          /\ failures' = failures + 1
    /\ runner' = "start"
    /\ UNCHANGED <<cert, key, mtime, due, issued, serving, tokens, ready, missed,
                   front, spoiled, cached, hs>>

\* respond(): what is in the store, if there is anyone to look.
Responds(o) == front = "listening" /\ o \in tokens

-----------------------------------------------------------------------------
(* The runner.                                                             *)

\* start(): files that exist are used as they are.
Start ==
    /\ runner = "start"
    /\ \/ /\ cert.exists /\ key.exists
          /\ runner' = "asleep"
          /\ serving' = TRUE
       \/ /\ ~(cert.exists /\ key.exists)
          /\ runner' = "order"
          /\ UNCHANGED serving
    /\ UNCHANGED <<cert, key, mtime, due, issued, failures, tokens, ready,
                   missed, front, spoiled, cached, hs>>

\* needs_renewal(): due, or not to be parsed; or the file cannot be read.
NeedsRenewal == due \/ ~cert.exists \/ cert.order = 0

\* Mutant of WakeAndRenew: the loop gives up after a failure.
WakeAndGiveUp ==
    /\ runner = "asleep"
    /\ NeedsRenewal
    /\ failures = 0
    /\ runner' = "order"
    /\ UNCHANGED <<cert, key, mtime, due, issued, failures, serving, tokens,
                   ready, missed, front, spoiled, cached, hs>>

\* One round of renewal_loop() that finds the certificate due.
WakeAndRenew ==
    /\ runner = "asleep"
    /\ NeedsRenewal
    /\ runner' = "order"
    /\ UNCHANGED <<cert, key, mtime, due, issued, failures, serving, tokens,
                   ready, missed, front, spoiled, cached, hs>>

\* The order run_order() is working on.
Order == issued + 1

\* Mutant of NewOrder: the CA is told of the challenge before its token is stored.
NewOrderReady ==
    /\ runner = "order"
    /\ Order <= MaxOrders
    /\ runner' \in {"insert", "validate"}
    /\ ready' = IF runner' = "insert" THEN ready \cup {Order} ELSE ready
    /\ spoiled' = FALSE
    /\ UNCHANGED <<cert, key, mtime, due, issued, failures, serving, tokens,
                   missed, front, cached, hs>>

\* new_order(): its authorization is pending, or still valid from before.
NewOrder ==
    /\ runner = "order"
    /\ Order <= MaxOrders
    /\ runner' \in {"insert", "validate"}
    /\ spoiled' = FALSE
    /\ UNCHANGED <<cert, key, mtime, due, issued, failures, serving, tokens,
                   ready, missed, front, cached, hs>>

InsertToken ==
    /\ runner = "insert"
    /\ tokens' = tokens \cup {Order}
    /\ runner' = "set_ready"
    /\ UNCHANGED <<cert, key, mtime, due, issued, failures, serving, ready,
                   missed, front, spoiled, cached, hs>>

SetReady ==
    /\ runner = "set_ready"
    /\ ready' = ready \cup {Order}
    /\ runner' = "validate"
    /\ UNCHANGED <<cert, key, mtime, due, issued, failures, serving, tokens,
                   missed, front, spoiled, cached, hs>>

\* poll_ready(), finalize() and poll_certificate() succeed: the CA has its
\* answer, or needed none.
Issue ==
    /\ runner = "validate"
    /\ Order \notin ready
    /\ ~spoiled
    /\ issued' = Order
    /\ runner' = "cert_open"
    /\ UNCHANGED <<cert, key, mtime, due, failures, serving, tokens, ready,
                   missed, front, spoiled, cached, hs>>

\* fs::write() of cert.pem: open() truncates the file ...
OpenCert ==
    /\ runner = "cert_open"
    /\ cert' = [exists |-> TRUE, order |-> 0]
    /\ mtime' = mtime + 1
    /\ runner' = "cert_write"
    /\ UNCHANGED <<key, due, issued, failures, serving, tokens, ready, missed, front, spoiled,
                   cached, hs>>

\* ... and write() fills it.
WriteCert ==
    /\ runner = "cert_write"
    /\ cert' = [exists |-> TRUE, order |-> issued]
    /\ mtime' = IF MtimeTies THEN mtime ELSE mtime + 1
    /\ due' = FALSE
    /\ runner' = "key_open"
    /\ UNCHANGED <<key, issued, failures, serving, tokens, ready, missed, front, spoiled,
                   cached, hs>>

OpenKey ==
    /\ runner = "key_open"
    /\ key' = [exists |-> TRUE, order |-> 0]
    /\ runner' = "key_write"
    /\ UNCHANGED <<cert, mtime, due, issued, failures, serving, tokens, ready,
                   missed, front, spoiled, cached, hs>>

\* Mutant of WriteKey: the loop ends with the first certificate.
WriteKeyEnds ==
    /\ runner = "key_write"
    /\ key' = [exists |-> TRUE, order |-> issued]
    /\ runner' = "ended"
    /\ serving' = TRUE
    /\ UNCHANGED <<cert, mtime, due, issued, failures, tokens, ready, missed, front, spoiled,
                   cached, hs>>

\* The key is written: obtain() returns, to start() or to the loop.
WriteKey ==
    /\ runner = "key_write"
    /\ key' = [exists |-> TRUE, order |-> issued]
    /\ runner' = "asleep"
    /\ serving' = TRUE
    /\ UNCHANGED <<cert, mtime, due, issued, failures, tokens, ready, missed, front, spoiled,
                   cached, hs>>

\* obtain() fails: the loop goes on, start() ends the process.
GiveUp ==
    /\ runner' = IF serving THEN "asleep" ELSE "down"
    /\ front' = IF serving THEN front ELSE "down"
    /\ tokens' = IF serving THEN tokens ELSE {}
    /\ ready' = ready \ {Order}
    /\ UNCHANGED <<cert, key, mtime, due, issued, serving, missed, spoiled, cached, hs>>

\* poll_ready(): the CA did not get the token.
OrderInvalid ==
    /\ runner = "validate"
    /\ spoiled
    /\ GiveUp
    /\ UNCHANGED failures

\* The order or a write fails for any other reason.
ObtainFails ==
    /\ runner \in RunnerStates \ {"down", "wait", "start", "asleep"}
    /\ failures < MaxFailures
    /\ failures' = failures + 1
    /\ GiveUp

-----------------------------------------------------------------------------
(* Handshakes.                                                             *)

\* ReloadCache::get(): the modification time is read first.
Stat(h) ==
    /\ serving
    /\ hs[h].stage \in {"idle", "served"}
    /\ cert.exists
    /\ hs' = [hs EXCEPT ![h] = [stage |-> "compare", floor |-> cert.order,
                                pair |-> [NoPair EXCEPT !.at = mtime]]]
    /\ UNCHANGED <<cert, key, mtime, due, issued, failures, runner, serving,
                   tokens, ready, missed, front, spoiled, cached>>

\* Under the read lock: the cached pair, if it is filed under that time.
Compare(h) ==
    LET c == cached[ListenerOf[h]] IN
    /\ hs[h].stage = "compare"
    /\ \/ /\ c.some /\ c.at = hs[h].pair.at
          /\ hs' = [hs EXCEPT ![h].stage = "served", ![h].pair = c]
       \/ /\ ~(c.some /\ c.at = hs[h].pair.at)
          /\ hs' = [hs EXCEPT ![h].stage = "cert"]
    /\ UNCHANGED <<cert, key, mtime, due, issued, failures, runner, serving,
                   tokens, ready, missed, front, spoiled, cached>>

\* A file that cannot be loaded: no certificate for this handshake.
Abort(h) == hs' = [hs EXCEPT ![h] = IdleHandshake]

\* load: the certificate is read.  DynamicCert refuses a file without one,
\* load_certs() of http3.rs takes it for an empty chain.
ReadCert(h) ==
    /\ hs[h].stage = "cert"
    /\ \/ /\ cert.order > 0 \/ ListenerOf[h] = "h3"
          /\ hs' = [hs EXCEPT ![h].stage = "key", ![h].pair.cert = cert.order]
       \/ /\ cert.order = 0 /\ ListenerOf[h] = "h1"
          /\ Abort(h)
    /\ UNCHANGED <<cert, key, mtime, due, issued, failures, runner, serving,
                   tokens, ready, missed, front, spoiled, cached>>

\* load: then its key.
ReadKey(h) ==
    /\ hs[h].stage = "key"
    /\ \/ /\ key.order > 0
          /\ hs' = [hs EXCEPT ![h].stage = "store", ![h].pair.key = key.order]
       \/ /\ key.order = 0
          /\ Abort(h)
    /\ UNCHANGED <<cert, key, mtime, due, issued, failures, runner, serving,
                   tokens, ready, missed, front, spoiled, cached>>

\* Mutant of StoreCached: filed under the modification time after the load.
StoreCachedLate(h) ==
    LET p == [hs[h].pair EXCEPT !.some = TRUE, !.at = mtime] IN
    /\ hs[h].stage = "store"
    /\ cached' = [cached EXCEPT ![ListenerOf[h]] = p]
    /\ hs' = [hs EXCEPT ![h].stage = "served", ![h].pair = p]
    /\ UNCHANGED <<cert, key, mtime, due, issued, failures, runner, serving,
                   tokens, ready, missed, front, spoiled>>

\* Under the write lock: the pair is filed under the time read first.
StoreCached(h) ==
    LET p == [hs[h].pair EXCEPT !.some = TRUE] IN
    /\ hs[h].stage = "store"
    /\ cached' = [cached EXCEPT ![ListenerOf[h]] = p]
    /\ hs' = [hs EXCEPT ![h].stage = "served", ![h].pair = p]
    /\ UNCHANGED <<cert, key, mtime, due, issued, failures, runner, serving,
                   tokens, ready, missed, front, spoiled>>

-----------------------------------------------------------------------------
(* The environment.                                                        *)

\* The CA fetches the token of a challenge it was told is ready.
CaFetches(o) ==
    /\ o \in ready
    /\ ready' = ready \ {o}
    /\ spoiled' = ~Responds(o)
    /\ missed' = (missed \/ (front = "listening" /\ ~Responds(o)))
    /\ UNCHANGED <<cert, key, mtime, due, issued, failures, runner, serving,
                   tokens, front, cached, hs>>

\* The certificate on disk comes within the renewal window.  The bounds leave
\* an order for it when every failure costs one.
Ages ==
    /\ ~due
    /\ cert.order > 0
    /\ issued + (MaxFailures - failures) < MaxOrders
    /\ due' = TRUE
    /\ UNCHANGED <<cert, key, mtime, issued, failures, runner, serving, tokens,
                   ready, missed, front, spoiled, cached, hs>>

\* The process dies.
Crash ==
    /\ failures < MaxFailures
    /\ failures' = failures + 1
    /\ runner # "down"
    /\ runner' = "down"
    /\ serving' = FALSE
    /\ tokens' = {}
    /\ ready' = {}
    /\ front' = "down"
    /\ cached' = [l \in {"h1", "h3"} |-> NoPair]
    /\ hs' = [h \in Handshakes |-> IdleHandshake]
    /\ UNCHANGED <<cert, key, mtime, due, issued, missed, spoiled>>

RunnerStep ==
    \/ SpawnFront
    \/ WaitBound
    \/ Start
    \/ WakeAndRenew
    \/ NewOrder
    \/ InsertToken
    \/ SetReady
    \/ Issue
    \/ OrderInvalid
    \/ OpenCert
    \/ WriteCert
    \/ OpenKey
    \/ WriteKey

HandshakeStep(h) ==
    \/ Compare(h)
    \/ ReadCert(h)
    \/ ReadKey(h)
    \/ StoreCached(h)

Next ==
    \/ RunnerStep
    \/ ObtainFails
    \/ BindFront
    \/ FrontFails
    \/ \E h \in Handshakes : Stat(h) \/ HandshakeStep(h)
    \/ \E o \in 1 .. MaxOrders : CaFetches(o)
    \/ Ages
    \/ Crash

Spec == Init /\ [][Next]_vars

\* The threads of the runner and the front run, a supervisor starts the process again when it is
\* down, and the CA gets round to every challenge; failures are finitely many.
FairSpec ==
    /\ Spec
    /\ WF_vars(RunnerStep)
    /\ WF_vars(BindFront)
    /\ \A o \in 1 .. MaxOrders : WF_vars(CaFetches(o))

-----------------------------------------------------------------------------
(* Properties.                                                             *)

\* Whenever the CA asks the HTTP front for the token of an order in progress, the
\* front has it (run_order() stores it before set_ready()).
ChallengeAnswered == ~missed

\* A handshake never serves a certificate older than the one that was whole on
\* disk when the handshake began: a renewal takes effect with the next
\* handshake, whatever other handshakes cache in the meantime.
NoOldCertServed ==
    \A h \in Handshakes : hs[h].stage = "served" => hs[h].pair.cert >= hs[h].floor

\* A certificate that is due, missing or truncated is replaced in the end, as
\* long as failures and crashes are finitely many and the HTTP front is there: once
\* its accept loop has ended, no order can succeed until the process is restarted.
RenewedEventually == NeedsRenewal ~> ~NeedsRenewal \/ front = "dead"

\* A renewed certificate takes effect (tls.rs): while the files hold a matching
\* pair, so does every cached pair that ReloadCache will keep on serving.
CachedPairMatches ==
    Usable(cert, key) =>
       \A l \in {"h1", "h3"} :
          cached[l].some /\ cached[l].at = mtime =>
             cached[l].cert = cached[l].key /\ cached[l].cert > 0
=============================================================================

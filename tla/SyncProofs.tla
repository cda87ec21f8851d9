----------------------------- MODULE SyncProofs -----------------------------
(***************************************************************************)
(* Proofs about ConfigSync, for any number of goroutines, users, edits and *)
(* connections and any queue: its types, and that the signature the panel  *)
(* remembers of a node is that of the configuration the node is getting.   *)
(***************************************************************************)
EXTENDS ConfigSync, TLAPS

\* A forced sync compares no signature, and ends with a push or with forgetting.
ForcedOK ==
    \A w \in Workers : wk[w].force => wk[w].pc \notin {"idle", "check"}

\* Without overlap one goroutine at a time is between taking the connection and
\* recording the signature.
OnePush ==
    causes = {} => \A v, w \in Workers : InPush(v) /\ InPush(w) => v = w

OnLine == causes = {} /\ hub # 0 /\ sess = hub

\* On a connection that nothing has misled, the configuration queued by a goroutine that
\* has yet to record it is the one the node is getting; and the cache is honest, unless
\* such a goroutine or a forced sync is still to correct it.
Correcting == \E w \in Workers : wk[w].pc = "record" \/ wk[w].force

CacheInStep ==
    OnLine =>
        /\ writer
        /\ \A w \in Workers : wk[w].pc = "record" => wk[w].users = Reaching
        /\ Correcting \/ cache \in {NoSig, <<Reaching>>}

-----------------------------------------------------------------------------
(* Types. *)

BaseInv == TypeOK /\ ForcedOK

LEMMA WorkerTypes ==
    /\ IdleWorker \in Worker /\ IdleWorker.pc = "idle" /\ ~IdleWorker.force
    /\ \A force \in BOOLEAN : /\ Starting(force) \in Worker /\ Starting(force).pc = "sig"
                              /\ Starting(force).force = force
<1>1. IdleWorker \in Worker /\ IdleWorker.pc = "idle" /\ ~IdleWorker.force
  BY SyncBounds DEF IdleWorker, Worker, Steps, UserSets
<1>2. ASSUME NEW force \in BOOLEAN
      PROVE  /\ Starting(force) \in Worker /\ Starting(force).pc = "sig"
             /\ Starting(force).force = force
  <2>1. "sig" \in Steps
    BY DEF Steps
  <2>2. IdleWorker \in Worker
    BY <1>1
  <2> QED
    BY <2>1, <2>2 DEF Starting, Worker
<1> QED
  BY <1>1, <1>2

LEMMA FailedType ==
    ASSUME NEW r \in Worker
    PROVE  /\ Failed(r) \in Worker
           /\ r.force => Failed(r).force /\ Failed(r).pc = "forget"
           /\ ~r.force => Failed(r) = IdleWorker
<1>1. CASE r.force
  BY <1>1 DEF Failed, Worker, Steps
<1>2. CASE ~r.force
  BY <1>2, WorkerTypes DEF Failed
<1> QED
  BY <1>1, <1>2

\* What a goroutine's step makes of its own place, and of nobody else's.
LEMMA SyncWorker ==
    ASSUME BaseInv, NEW w \in Workers, Sync(w)
    PROVE  /\ wk' \in [Workers -> Worker]
           /\ \A v \in Workers : v # w => wk'[v] = wk[v]
           /\ wk'[w].force => wk[w].force /\ wk'[w].pc \notin {"idle", "check"}
           /\ wk[w].pc # "idle"
<1>0. wk \in [Workers -> Worker] /\ wk[w] \in Worker /\ users \in UserSets /\ node \in 0..MaxEdits
      /\ hub \in 0..MaxConns /\ (wk[w].force => wk[w].pc # "check")
  BY DEF BaseInv, TypeOK, ForcedOK
<1>p. {"sig", "check", "conn", "node", "users", "send", "record", "forget"} \subseteq Steps
  BY DEF Steps
<1>1. PICK r \in Worker : /\ wk' = [wk EXCEPT ![w] = r]
                          /\ r.force => wk[w].force /\ r.pc \notin {"idle", "check"}
  <2>i. ASSUME wk' = [wk EXCEPT ![w] = IdleWorker]
        PROVE  \E r \in Worker : /\ wk' = [wk EXCEPT ![w] = r]
                                 /\ r.force => wk[w].force /\ r.pc \notin {"idle", "check"}
    BY <2>i, WorkerTypes
  <2>f. ASSUME wk' = [wk EXCEPT ![w] = Failed(@)]
        PROVE  \E r \in Worker : /\ wk' = [wk EXCEPT ![w] = r]
                                 /\ r.force => wk[w].force /\ r.pc \notin {"idle", "check"}
    <3>1. wk' = [wk EXCEPT ![w] = Failed(wk[w])]
      BY <2>f, <1>0
    <3> QED
      BY <1>0, <3>1, FailedType, WorkerTypes
  <2>1. CASE ReadSig(w)
    <3> DEFINE r == [wk[w] EXCEPT !.sig = users, !.pc = IF wk[w].force THEN "conn" ELSE "check"]
    <3>1. r \in Worker /\ r.force = wk[w].force /\ r.pc = IF wk[w].force THEN "conn" ELSE "check"
      BY <1>0, <1>p DEF Worker
    <3>2. wk' = [wk EXCEPT ![w] = r]
      BY <1>0, <2>1 DEF ReadSig
    <3> HIDE DEF r
    <3> QED
      BY <3>1, <3>2
  <2>2. CASE SigFails(w)
    BY <2>2, <2>i DEF SigFails
  <2>3. CASE CheckCache(w)
    <3>1. CASE cache = <<wk[w].sig>>
      BY <2>3, <2>i, <3>1 DEF CheckCache
    <3>2. CASE cache # <<wk[w].sig>>
      <4> DEFINE r == [wk[w] EXCEPT !.pc = "conn"]
      <4>1. r \in Worker /\ r.force = wk[w].force /\ r.pc = "conn"
        BY <1>0, <1>p DEF Worker
      <4>2. wk' = [wk EXCEPT ![w] = r]
        BY <1>0, <2>3, <3>2 DEF CheckCache
      <4> HIDE DEF r
      <4> QED
        BY <4>1, <4>2
    <3> QED
      BY <3>1, <3>2
  <2>4. CASE TakeConn(w)
    <3>1. CASE hub = 0
      BY <2>4, <2>f, <3>1 DEF TakeConn
    <3>2. CASE hub # 0
      <4> DEFINE r == [wk[w] EXCEPT !.conn = hub, !.pc = "node"]
      <4>1. r \in Worker /\ r.force = wk[w].force /\ r.pc = "node"
        BY <1>0, <1>p DEF Worker
      <4>2. wk' = [wk EXCEPT ![w] = r]
        BY <1>0, <2>4, <3>2 DEF TakeConn
      <4> HIDE DEF r
      <4> QED
        BY <4>1, <4>2
    <3> QED
      BY <3>1, <3>2
  <2>5. CASE ReadNode(w)
    <3> DEFINE r == [wk[w] EXCEPT !.node = node, !.pc = "users"]
    <3>1. r \in Worker /\ r.force = wk[w].force /\ r.pc = "users"
      BY <1>0, <1>p DEF Worker
    <3>2. wk' = [wk EXCEPT ![w] = r]
      BY <1>0, <2>5 DEF ReadNode
    <3> HIDE DEF r
    <3> QED
      BY <3>1, <3>2
  <2>6. CASE ReadUsers(w)
    <3> DEFINE r == [wk[w] EXCEPT !.users = users, !.pc = "send"]
    <3>1. r \in Worker /\ r.force = wk[w].force /\ r.pc = "send"
      BY <1>0, <1>p DEF Worker
    <3>2. wk' = [wk EXCEPT ![w] = r]
      BY <1>0, <2>6 DEF ReadUsers
    <3> HIDE DEF r
    <3> QED
      BY <3>1, <3>2
  <2>7. CASE BuildFails(w) \/ Drop(w)
    BY <2>7, <2>f DEF BuildFails, Drop
  <2>8. CASE Queue(w)
    <3> DEFINE r == [wk[w] EXCEPT !.pc = "record"]
    <3>1. r \in Worker /\ r.force = wk[w].force /\ r.pc = "record"
      BY <1>0, <1>p DEF Worker
    <3>2. wk' = [wk EXCEPT ![w] = r]
      BY <1>0, <2>8 DEF Queue
    <3> HIDE DEF r
    <3> QED
      BY <3>1, <3>2
  <2>9. CASE Record(w) \/ Forget(w)
    BY <2>9, <2>i DEF Record, Forget
  <2> QED
    BY <2>1, <2>2, <2>3, <2>4, <2>5, <2>6, <2>7, <2>8, <2>9 DEF Sync
<1>2. wk[w].pc # "idle"
  BY DEF Sync, ReadSig, SigFails, CheckCache, TakeConn, ReadNode, ReadUsers, BuildFails, Queue,
         Drop, Record, Forget
<1> QED
  BY <1>0, <1>1, <1>2

\* What starts a sync.
LEMMA StartWorker ==
    ASSUME BaseInv, NEW w \in Workers, NEW force \in BOOLEAN,
           wk' = [wk EXCEPT ![w] = Starting(force)]
    PROVE  /\ wk' \in [Workers -> Worker] /\ ForcedOK'
           /\ wk'[w].pc = "sig" /\ wk'[w].force = force
           /\ \A v \in Workers : v # w => wk'[v] = wk[v]
BY WorkerTypes DEF BaseInv, TypeOK, ForcedOK

LEMMA SyncBase ==
    ASSUME BaseInv, NEW w \in Workers, Sync(w)
    PROVE  BaseInv'
<1>0. TypeOK /\ ForcedOK
  BY DEF BaseInv
<1>1. wk' \in [Workers -> Worker] /\ ForcedOK'
  BY <1>0, SyncWorker DEF ForcedOK
<1>2. wk[w].sig \in UserSets /\ wk[w].users \in UserSets /\ wk[w].node \in 0..MaxEdits
  BY <1>0 DEF TypeOK, Worker
<1>3. UNCHANGED <<users, node, edits, hub, writer, sess, nconns, running>>
  BY DEF Sync, ReadSig, SigFails, CheckCache, TakeConn, ReadNode, ReadUsers, BuildFails, Queue,
         Drop, Record, Forget, storeVars, connVars
<1>4. cache' \in {NoSig} \cup {<<S>> : S \in UserSets}
  BY <1>0, <1>2 DEF TypeOK, Sync, ReadSig, SigFails, CheckCache, TakeConn, ReadNode, ReadUsers,
                    BuildFails, Queue, Drop, Record, Forget
<1>5. causes' \subseteq CauseKinds
  BY <1>0 DEF TypeOK, CauseKinds, Sync, ReadSig, SigFails, CheckCache, TakeConn, ReadNode,
              ReadUsers, BuildFails, Queue, Drop, Record, Forget
<1>6. q' \in Seq(Config) /\ Len(q') <= QueueCap
  <2>1. CASE Queue(w)
    <3>1. [users |-> wk[w].users, node |-> wk[w].node] \in Config
      BY <1>2 DEF Config
    <3>2. q \in Seq(Config) /\ Len(q) < QueueCap /\ Len(q) \in Nat
      BY <1>0, <2>1 DEF TypeOK, Queue, CanQueue
    <3> QED
      BY <2>1, <3>1, <3>2, SyncBounds DEF Queue
  <2>2. CASE UNCHANGED q
    BY <1>0, <2>2 DEF TypeOK
  <2> QED
    BY <2>1, <2>2 DEF Sync, ReadSig, SigFails, CheckCache, TakeConn, ReadNode, ReadUsers,
                      BuildFails, Drop, Record, Forget, connVars
<1> QED
  BY <1>0, <1>1, <1>3, <1>4, <1>5, <1>6 DEF BaseInv, TypeOK

LEMMA BaseNext ==
    ASSUME BaseInv, [Next]_vars
    PROVE  BaseInv'
<1>0. TypeOK /\ ForcedOK /\ MaxEdits \in Nat /\ MaxConns \in Nat /\ QueueCap \in Nat
  BY SyncBounds DEF BaseInv
<1>s. ASSUME users' \in UserSets, edits < MaxEdits, edits' = edits + 1, node' \in {node, edits'},
             UNCHANGED <<cache, hub, q, writer, sess, nconns, running, causes>>,
             wk' \in [Workers -> Worker] /\ ForcedOK'
      PROVE  BaseInv'
  <2>1. edits' \in 0..MaxEdits /\ node' \in 0..MaxEdits
    BY <1>0, <1>s DEF TypeOK
  <2> QED
    BY <1>0, <1>s, <2>1 DEF BaseInv, TypeOK
<1>l. ASSUME UNCHANGED <<users, node, edits, running>>, wk' \in [Workers -> Worker] /\ ForcedOK',
             q' = <<>>, writer' \in BOOLEAN, causes' \subseteq CauseKinds,
             hub' \in 0..MaxConns, sess' \in 0..MaxConns, nconns' \in 0..MaxConns,
             cache' \in {cache, NoSig}
      PROVE  BaseInv'
  <2>1. q' \in Seq(Config) /\ Len(q') <= QueueCap
    BY <1>0, <1>l
  <2> QED
    BY <1>0, <1>l, <2>1 DEF BaseInv, TypeOK
<1>k. ASSUME UNCHANGED wk PROVE wk' \in [Workers -> Worker] /\ ForcedOK'
  BY <1>0, <1>k DEF TypeOK, ForcedOK
<1>1. CASE UNCHANGED vars
  BY <1>0, <1>1, <1>k DEF vars, BaseInv, TypeOK
<1>2. ASSUME NEW w \in Workers, NEW S \in UserSets, EditUsers(w, S) PROVE BaseInv'
  <2>1. wk' \in [Workers -> Worker] /\ ForcedOK'
    BY <1>2, StartWorker DEF EditUsers
  <2> QED
    BY <1>0, <1>2, <1>s, <2>1 DEF EditUsers, connVars
<1>3. ASSUME NEW w \in Workers, EditNode(w) PROVE BaseInv'
  <2>1. wk' \in [Workers -> Worker] /\ ForcedOK'
    BY <1>3, StartWorker DEF EditNode
  <2> QED
    BY <1>0, <1>3, <1>s, <2>1 DEF EditNode, connVars, TypeOK
<1>4. ASSUME NEW w \in Workers, Enforce(w) PROVE BaseInv'
  <2>1. wk' \in [Workers -> Worker] /\ ForcedOK'
    BY <1>4, StartWorker DEF Enforce
  <2> QED
    BY <1>0, <1>4, <2>1 DEF Enforce, storeVars, connVars, BaseInv, TypeOK
<1>5. ASSUME NEW w \in Workers, Connect(w) PROVE BaseInv'
  <2>1. wk' \in [Workers -> Worker] /\ ForcedOK'
    BY <1>5, StartWorker DEF Connect
  <2>2. nconns' \in 0..MaxConns /\ sess' = nconns' /\ hub' = nconns'
    BY <1>0, <1>5 DEF Connect, TypeOK
  <2> QED
    BY <1>5, <1>l, <2>1, <2>2 DEF Connect, storeVars, CauseKinds
<1>6. ASSUME NEW x \in Clients, Expire(x) PROVE BaseInv'
  BY <1>0, <1>6, <1>k DEF Expire, connVars, BaseInv, TypeOK, UserSets
<1>7. CASE Break
  BY <1>0, <1>7, <1>k DEF Break, storeVars, BaseInv, TypeOK
<1>8. CASE Unregister
  <2>1. /\ causes \subseteq CauseKinds /\ sess \in 0..MaxConns /\ nconns \in 0..MaxConns
        /\ 0 \in 0..MaxConns
    BY <1>0 DEF TypeOK
  <2> QED
    BY <1>8, <1>k, <1>l, <2>1 DEF Unregister, storeVars
<1>9. CASE Deliver
  <2>1. q' \in Seq(Config) /\ Len(q') <= QueueCap /\ Head(q) \in Config
    BY <1>0, <1>9 DEF Deliver, TypeOK
  <2> QED
    BY <1>0, <1>9, <1>k, <2>1 DEF Deliver, storeVars, BaseInv, TypeOK
<1>10. CASE WriteFails
  BY <1>0, <1>10, <1>k DEF WriteFails, storeVars, BaseInv, TypeOK, CauseKinds
<1>11. CASE PanelRestart
  <2>1. wk' \in [Workers -> Worker] /\ ForcedOK'
    BY <1>11, WorkerTypes DEF PanelRestart, ForcedOK
  <2>2. nconns \in 0..MaxConns /\ 0 \in 0..MaxConns
    BY <1>0 DEF TypeOK
  <2> QED
    BY <1>11, <1>l, <2>1, <2>2 DEF PanelRestart, storeVars
<1> QED
  BY <1>1, <1>2, <1>3, <1>4, <1>5, <1>6, <1>7, <1>8, <1>9, <1>10, <1>11, SyncBase DEF Next

LEMMA BaseInit == Init => BaseInv
<1> SUFFICES ASSUME Init PROVE BaseInv
  OBVIOUS
<1>1. wk \in [Workers -> Worker] /\ ForcedOK
  BY WorkerTypes DEF Init, ForcedOK
<1>2. q \in Seq(Config) /\ Len(q) <= QueueCap
  BY SyncBounds DEF Init
<1>3. running \in Config /\ 0 \in 0..MaxEdits /\ 0 \in 0..MaxConns
  BY SyncBounds DEF Init, Config
<1> QED
  BY <1>1, <1>2, <1>3 DEF Init, BaseInv, TypeOK

LEMMA BaseAlways == Spec => []BaseInv
BY BaseInit, BaseNext, PTL DEF Spec

\* Every value keeps its shape, and a node's queue never holds more than the channel's
\* capacity (hub.go trySend).
THEOREM TypeCorrect == Spec => []TypeOK
<1>1. BaseInv => TypeOK
  BY DEF BaseInv
<1> QED
  BY <1>1, BaseAlways, PTL

-----------------------------------------------------------------------------
(* The cache is honest. *)

\* What is queued and what has arrived: a delivery changes nothing about where the node
\* is heading, a push decides it.
LEMMA ReachingDelivered ==
    ASSUME TypeOK, Deliver, sess = hub
    PROVE  Reaching' = Reaching
<1>1. q \in Seq(Config) /\ q # <<>> /\ q' = Tail(q) /\ running' = Head(q)
  BY DEF TypeOK, Deliver
<1>2. CASE Len(q) = 1
  <2>1. q' = <<>> /\ Head(q) = q[Len(q)]
    BY <1>1, <1>2
  <2> QED
    BY <1>1, <2>1 DEF Reaching
<1>3. CASE Len(q) # 1
  <2>0. Len(q) \in Nat /\ Len(q) > 1
    <3>1. Len(q) \in Nat
      BY <1>1
    <3>2. Len(q) # 0
      BY <1>1
    <3> QED
      BY <1>3, <3>1, <3>2
  <2>1. Len(q') = Len(q) - 1 /\ q'[Len(q) - 1] = q[Len(q)]
    BY <1>1, <2>0
  <2>2. q' # <<>> /\ q'[Len(q')] = q[Len(q)]
    BY <2>0, <2>1
  <2> QED
    BY <1>1, <2>2 DEF Reaching
<1> QED
  BY <1>2, <1>3

LEMMA ReachingPushed ==
    ASSUME TypeOK, NEW w \in Workers, Queue(w)
    PROVE  Reaching' = wk[w].users
<1> DEFINE c == [users |-> wk[w].users, node |-> wk[w].node]
<1>1. q \in Seq(Config) /\ q' = Append(q, c) /\ c \in Config
  BY DEF TypeOK, Queue, Config, Worker
<1> HIDE DEF c
<1>2. q' # <<>> /\ q'[Len(q')] = c
  BY <1>1
<1> QED
  BY <1>2 DEF Reaching, c

LEMMA OnePushNext ==
    ASSUME BaseInv, OnePush, Next
    PROVE  OnePush'
<1>0. wk \in [Workers -> Worker]
  BY DEF BaseInv, TypeOK
<1> SUFFICES ASSUME causes' = {} PROVE \A v, w \in Workers : InPush(v)' /\ InPush(w)' => v = w
  BY DEF OnePush
<1>k. ASSUME causes = {}, \A v \in Workers : InPush(v)' => InPush(v)
      PROVE  \A v, w \in Workers : InPush(v)' /\ InPush(w)' => v = w
  BY <1>k DEF OnePush
<1>1. ASSUME NEW w \in Workers,
             Enforce(w) \/ EditNode(w) \/ \E S \in UserSets : EditUsers(w, S)
      PROVE  causes = {} /\ \A v \in Workers : InPush(v)' => InPush(v)
  <2>1. UNCHANGED causes /\ \E force \in BOOLEAN : wk' = [wk EXCEPT ![w] = Starting(force)]
    BY <1>1 DEF Enforce, EditNode, EditUsers
  <2>2. wk'[w].pc = "sig" /\ \A v \in Workers : v # w => wk'[v] = wk[v]
    BY <2>1, StartWorker
  <2> QED
    BY <2>1, <2>2 DEF InPush
<1>2. ASSUME NEW w \in Workers, Connect(w)
      PROVE  \A v \in Workers : ~InPush(v)'
  <2>1. wk'[w].pc = "sig" /\ \A v \in Workers : v # w => wk'[v] = wk[v]
    BY <1>2, StartWorker DEF Connect
  <2>2. \A v \in Workers : ~InPush(v)
    BY <1>2 DEF Connect
  <2> QED
    BY <2>1, <2>2 DEF InPush
<1>3. ASSUME NEW w \in Workers, Sync(w)
      PROVE  \A u, v \in Workers : InPush(u)' /\ InPush(v)' => u = v
  <2>0. \A v \in Workers : v # w => wk'[v] = wk[v]
    BY <1>3, SyncWorker
  <2>1. CASE TakeConn(w)
    <3>1. causes = {}
      BY <2>1 DEF TakeConn
    <3>2. CASE hub = 0
      <4>1. wk'[w] = Failed(wk[w])
        BY <1>0, <2>1, <3>2 DEF TakeConn
      <4>2. ~InPush(w)'
        BY <1>0, <4>1, FailedType, WorkerTypes DEF InPush
      <4> QED
        BY <1>k, <2>0, <3>1, <4>2 DEF InPush
    <3>3. CASE hub # 0
      <4>1. \A v \in Workers \ {w} : ~InPush(v)
        BY <2>1, <3>3 DEF TakeConn
      <4> QED
        BY <2>0, <4>1 DEF InPush
    <3> QED
      BY <3>2, <3>3
  <2>2. CASE ~TakeConn(w)
    <3>1. causes = {}
      BY <1>3, <2>2 DEF Sync, ReadSig, SigFails, CheckCache, ReadNode, ReadUsers, BuildFails,
                        Queue, Drop, Record, Forget
    <3>2. InPush(w)' => InPush(w)
      <4>1. CASE ReadSig(w)
        BY <1>0, <4>1 DEF ReadSig, InPush, Worker
      <4>2. CASE SigFails(w) \/ Record(w) \/ Forget(w)
        BY <1>0, <4>2, WorkerTypes DEF SigFails, Record, Forget, InPush
      <4>3. CASE CheckCache(w)
        <5>1. wk'[w] = IF cache = <<wk[w].sig>> THEN IdleWorker ELSE [wk[w] EXCEPT !.pc = "conn"]
          BY <1>0, <4>3 DEF CheckCache
        <5> QED
          BY <1>0, <5>1, WorkerTypes DEF InPush, Worker
      <4>4. CASE ReadNode(w) \/ ReadUsers(w) \/ BuildFails(w) \/ Queue(w) \/ Drop(w)
        BY <4>4 DEF ReadNode, ReadUsers, BuildFails, Queue, Drop, InPush
      <4> QED
        BY <1>3, <2>2, <4>1, <4>2, <4>3, <4>4 DEF Sync
    <3> QED
      BY <1>k, <2>0, <3>1, <3>2 DEF InPush
  <2> QED
    BY <2>1, <2>2
<1>4. ASSUME Break \/ Unregister \/ Deliver \/ WriteFails \/ \E x \in Clients : Expire(x)
      PROVE  causes = {} /\ \A v \in Workers : InPush(v)' => InPush(v)
  BY <1>4 DEF Break, Unregister, Deliver, WriteFails, Expire, InPush
<1>5. ASSUME PanelRestart PROVE \A v \in Workers : ~InPush(v)'
  BY <1>5, WorkerTypes DEF PanelRestart, InPush
<1> QED
  BY <1>1, <1>2, <1>3, <1>4, <1>5, <1>k DEF Next

\* A step that leaves the connection and the queue alone, takes no goroutine to its
\* recording or away from what it has to correct, and writes no signature.
LEMMA CacheFrame ==
    ASSUME CacheInStep, OnLine' => OnLine, writer' = writer, OnLine => Reaching' = Reaching,
           UNCHANGED cache, Correcting => Correcting',
           \A v \in Workers : wk'[v].pc = "record" =>
                                  wk[v].pc = "record" /\ wk'[v].users = wk[v].users
    PROVE  CacheInStep'
<1> SUFFICES ASSUME OnLine' PROVE /\ writer'
                                  /\ \A w \in Workers : wk'[w].pc = "record" => wk'[w].users = Reaching'
                                  /\ Correcting' \/ cache' \in {NoSig, <<Reaching'>>}
  BY DEF CacheInStep
<1>1. OnLine /\ Reaching' = Reaching
  OBVIOUS
<1> QED
  BY <1>1 DEF CacheInStep

LEMMA CacheSync ==
    ASSUME BaseInv, OnePush, CacheInStep, NEW w \in Workers, Sync(w)
    PROVE  CacheInStep'
<1>0. /\ wk \in [Workers -> Worker] /\ wk[w] \in Worker
      /\ \A v \in Workers : v # w => wk'[v] = wk[v]
      /\ TypeOK /\ ForcedOK
  BY SyncWorker DEF BaseInv, TypeOK
<1> DEFINE Same == hub' = hub /\ sess' = sess /\ writer' = writer /\ q' = q /\ running' = running
<1>1. ASSUME Same PROVE writer' = writer /\ Reaching' = Reaching
  BY <1>1 DEF Reaching
<1>2. ASSUME Same, causes \subseteq causes' PROVE OnLine' => OnLine
  BY <1>2 DEF OnLine
\* The goroutine goes on, or ends a sync that was not forced, without having queued.
<1>f. ASSUME Same, causes \subseteq causes', UNCHANGED cache,
             wk[w].pc # "record", wk'[w].pc # "record", wk[w].force => wk'[w].force
      PROVE  CacheInStep'
  <2>1. Correcting => Correcting'
    BY <1>0, <1>f DEF Correcting
  <2>2. \A v \in Workers : wk'[v].pc = "record" => wk[v].pc = "record" /\ wk'[v].users = wk[v].users
    BY <1>0, <1>f
  <2> QED
    BY <1>1, <1>2, <1>f, <2>1, <2>2, CacheFrame
<1>3. CASE ReadSig(w) \/ ReadNode(w) \/ ReadUsers(w)
  <2>1. Same /\ UNCHANGED <<cache, causes>> /\ wk[w].pc # "record"
    BY <1>3 DEF ReadSig, ReadNode, ReadUsers, connVars
  <2>2. wk'[w].pc # "record" /\ wk'[w].force = wk[w].force
    BY <1>0, <1>3 DEF ReadSig, ReadNode, ReadUsers, Worker
  <2> QED
    BY <1>f, <2>1, <2>2
<1>4. CASE SigFails(w)
  <2>1. Same /\ UNCHANGED cache /\ wk'[w] = IdleWorker /\ wk[w].pc # "record"
        /\ causes' = IF wk[w].force THEN causes \cup {"dbError"} ELSE causes
    BY <1>0, <1>4 DEF SigFails, connVars
  <2>2. CASE wk[w].force
    BY <2>1, <2>2 DEF CacheInStep, OnLine
  <2>3. CASE ~wk[w].force
    BY <1>f, <2>1, <2>3, WorkerTypes
  <2> QED
    BY <2>2, <2>3
<1>5. CASE CheckCache(w)
  <2>1. Same /\ UNCHANGED <<cache, causes>> /\ wk[w].pc = "check"
        /\ wk'[w] = IF cache = <<wk[w].sig>> THEN IdleWorker ELSE [wk[w] EXCEPT !.pc = "conn"]
    BY <1>0, <1>5 DEF CheckCache, connVars
  <2>2. wk'[w].pc # "record" /\ ~wk[w].force
    BY <1>0, <2>1, WorkerTypes DEF Worker, ForcedOK
  <2> QED
    BY <1>f, <2>1, <2>2
<1>6. CASE TakeConn(w)
  <2>1. Same /\ UNCHANGED cache /\ causes \subseteq causes' /\ wk[w].pc = "conn"
        /\ wk'[w] = IF hub = 0 THEN Failed(wk[w]) ELSE [wk[w] EXCEPT !.conn = hub, !.pc = "node"]
    BY <1>0, <1>6 DEF TakeConn, connVars
  <2>2. wk'[w].pc # "record" /\ (wk[w].force => wk'[w].force)
    <3>1. CASE hub = 0
      BY <1>0, <2>1, <3>1, FailedType, WorkerTypes
    <3>2. CASE hub # 0
      BY <1>0, <2>1, <3>2 DEF Worker
    <3> QED
      BY <3>1, <3>2
  <2> QED
    BY <1>f, <2>1, <2>2
<1>7. CASE BuildFails(w) \/ Drop(w)
  <2>1. Same /\ UNCHANGED <<cache, causes>> /\ wk[w].pc # "record" /\ wk'[w] = Failed(wk[w])
    BY <1>0, <1>7 DEF BuildFails, Drop, connVars
  <2>2. wk'[w].pc # "record" /\ (wk[w].force => wk'[w].force)
    BY <1>0, <2>1, FailedType, WorkerTypes
  <2> QED
    BY <1>f, <2>1, <2>2
<1>8. CASE Queue(w)
  <2>1. /\ UNCHANGED <<cache, causes, hub, sess, writer>> /\ wk[w].pc = "send"
        /\ wk'[w] = [wk[w] EXCEPT !.pc = "record"]
    BY <1>0, <1>8 DEF Queue
  <2>2. wk'[w].pc = "record" /\ wk'[w].users = wk[w].users
    BY <1>0, <2>1 DEF Worker
  <2>3. Reaching' = wk[w].users
    BY <1>0, <1>8, ReachingPushed
  <2>4. ASSUME OnLine' PROVE writer' /\ \A v \in Workers : wk'[v].pc = "record" => v = w
    <3>1. OnLine
      BY <2>1, <2>4 DEF OnLine
    <3>2. \A v \in Workers : v # w => ~InPush(v)
      BY <2>1, <3>1 DEF OnePush, OnLine, InPush
    <3> QED
      BY <1>0, <2>1, <3>1, <3>2 DEF InPush, CacheInStep
  <2>5. Correcting'
    BY <2>2 DEF Correcting
  <2> QED
    BY <2>2, <2>3, <2>4, <2>5 DEF CacheInStep
<1>9. CASE Record(w)
  <2>1. /\ Same /\ cache' = <<wk[w].sig>> /\ wk[w].pc = "record" /\ wk'[w] = IdleWorker
        /\ causes' = IF wk[w].sig = wk[w].users THEN causes ELSE causes \cup {"mismatch"}
    BY <1>0, <1>9 DEF Record, connVars
  <2> SUFFICES ASSUME OnLine' PROVE /\ writer'
                                    /\ \A v \in Workers : wk'[v].pc = "record" => wk'[v].users = Reaching'
                                    /\ cache' = <<Reaching'>>
    BY DEF CacheInStep
  <2>2. OnLine /\ wk[w].sig = wk[w].users
    BY <2>1 DEF OnLine
  <2>3. wk[w].users = Reaching /\ writer
    BY <2>1, <2>2 DEF CacheInStep
  <2>4. \A v \in Workers : wk'[v].pc = "record" => wk'[v].users = Reaching
    BY <1>0, <2>1, <2>2, WorkerTypes DEF CacheInStep
  <2>5. writer' = writer /\ Reaching' = Reaching
    BY <1>1, <2>1
  <2> QED
    BY <2>1, <2>2, <2>3, <2>4, <2>5
<1>10. CASE Forget(w)
  <2>1. Same /\ cache' = NoSig /\ UNCHANGED causes /\ wk'[w] = IdleWorker
    BY <1>0, <1>10 DEF Forget, connVars
  <2>2. writer' = writer /\ Reaching' = Reaching /\ (OnLine' => OnLine)
    BY <1>1, <1>2, <2>1
  <2>3. ASSUME OnLine PROVE writer /\ \A v \in Workers : wk'[v].pc = "record" => wk'[v].users = Reaching
    BY <1>0, <2>1, <2>3, WorkerTypes DEF CacheInStep
  <2> QED
    BY <2>1, <2>2, <2>3 DEF CacheInStep
<1> QED
  BY <1>3, <1>4, <1>5, <1>6, <1>7, <1>8, <1>9, <1>10 DEF Sync

LEMMA CacheNext ==
    ASSUME BaseInv, OnePush, CacheInStep, [Next]_vars
    PROVE  CacheInStep'
<1>0. wk \in [Workers -> Worker] /\ TypeOK /\ ForcedOK
  BY DEF BaseInv, TypeOK
<1>1. CASE UNCHANGED vars \/ \E x \in Clients : Expire(x)
  <2>1. UNCHANGED <<cache, hub, q, writer, sess, running, wk, causes>>
    BY <1>1 DEF vars, Expire, connVars
  <2>2. Reaching' = Reaching /\ (OnLine' => OnLine) /\ (Correcting => Correcting')
    BY <2>1 DEF Reaching, OnLine, Correcting
  <2> QED
    BY <2>1, <2>2, CacheFrame
<1>2. ASSUME NEW w \in Workers,
             Enforce(w) \/ EditNode(w) \/ \E S \in UserSets : EditUsers(w, S)
      PROVE  CacheInStep'
  <2>1. /\ UNCHANGED <<cache, hub, q, writer, sess, running, causes>> /\ wk[w].pc = "idle"
        /\ \E force \in BOOLEAN : wk' = [wk EXCEPT ![w] = Starting(force)]
    BY <1>2 DEF Enforce, EditNode, EditUsers, connVars
  <2>2. wk'[w].pc = "sig" /\ \A v \in Workers : v # w => wk'[v] = wk[v]
    BY <2>1, StartWorker
  <2>3. ~wk[w].force
    BY <1>0, <2>1 DEF ForcedOK
  <2>4. Reaching' = Reaching /\ (OnLine' => OnLine)
    BY <2>1 DEF Reaching, OnLine
  <2>5. Correcting => Correcting'
    BY <2>1, <2>2, <2>3 DEF Correcting
  <2>6. \A v \in Workers : wk'[v].pc = "record" => wk[v].pc = "record" /\ wk'[v].users = wk[v].users
    BY <2>2
  <2> QED
    BY <2>1, <2>4, <2>5, <2>6, CacheFrame
<1>3. ASSUME NEW w \in Workers, Connect(w)
      PROVE  CacheInStep'
  <2>1. /\ wk'[w].pc = "sig" /\ wk'[w].force = TRUE
        /\ \A v \in Workers : v # w => wk'[v] = wk[v]
    BY <1>3, StartWorker DEF Connect
  <2>2. writer' /\ Correcting'
    BY <1>3, <2>1 DEF Connect, Correcting
  <2>3. causes' = {} => \A v \in Workers : wk'[v].pc # "record"
    BY <1>3, <2>1 DEF Connect, InPush
  <2> QED
    BY <2>2, <2>3 DEF CacheInStep, OnLine
<1>4. CASE Break \/ Unregister \/ WriteFails \/ PanelRestart
  <2>1. ~OnLine'
    <3>1. CASE Break
      BY <3>1 DEF Break, OnLine
    <3>2. CASE Unregister \/ WriteFails \/ PanelRestart
      BY <3>2 DEF Unregister, WriteFails, PanelRestart, OnLine
    <3> QED
      BY <1>4, <3>1, <3>2
  <2> QED
    BY <2>1 DEF CacheInStep
<1>5. CASE Deliver
  <2>1. UNCHANGED <<cache, hub, writer, sess, wk, causes>>
    BY <1>5 DEF Deliver
  <2>2. OnLine => Reaching' = Reaching
    BY <1>0, <1>5, ReachingDelivered DEF OnLine
  <2>3. (OnLine' => OnLine) /\ (Correcting => Correcting')
    BY <2>1 DEF OnLine, Correcting
  <2> QED
    BY <2>1, <2>2, <2>3, CacheFrame
<1> QED
  BY <1>1, <1>2, <1>3, <1>4, <1>5, CacheSync DEF Next

LEMMA CacheInit == Init => OnePush /\ CacheInStep
BY WorkerTypes DEF Init, OnePush, CacheInStep, OnLine, InPush

LEMMA OnePushKept ==
    ASSUME BaseInv, OnePush, [Next]_vars
    PROVE  OnePush'
BY OnePushNext DEF vars, OnePush, InPush

\* "The signature is only recorded once the push reached the node's queue"
\* (traffic.go:143): however many goroutines sync the node, a signature the panel
\* remembers is that of the configuration the node runs or is about to get, while nothing
\* has misled it on this connection and no sync is under way.
THEOREM SignatureHonest == Spec => []CacheHonest
<1>1. BaseInv /\ CacheInStep => CacheHonest
  BY DEF BaseInv, ForcedOK, CacheInStep, CacheHonest, OnLine, Correcting
<1> QED
  BY <1>1, CacheInit, OnePushKept, CacheNext, BaseAlways, PTL DEF Spec
=============================================================================

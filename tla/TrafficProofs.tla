--------------------------- MODULE TrafficProofs ---------------------------
(* Theorems about Traffic, for every set of users and units, every number   *)
(* of connections and every combination of faults: nothing buffered is      *)
(* lost, a resent batch is credited once, and the accounting protocol is a  *)
(* ledger.                                                                  *)
EXTENDS TrafficLedger, TLAPS

USE DEF Conns

\* Reading off the fields of a buffer or of a reader.
LEMMA BatchType ==
    ASSUME NEW b \in Buffer PROVE Batch(b) \in Buffer
  BY DEF Batch, Buffer

LEMMA AckedType ==
    ASSUME NEW b \in Buffer, NEW s \in Nat PROVE Acked(b, s) \in Buffer
  BY DEF Acked, Cleared, Buffer

LEMMA SaveType ==
    ASSUME NEW b \in Buffer, TypeOK, Save(b)
    PROVE  buf' \in Buffer /\ disk' \in Buffer /\ causes' \subseteq CauseKinds
  BY DEF Save, TypeOK, CauseKinds

LEMMA TakeBatchType ==
    ASSUME TypeOK, TakeBatch(Batch(buf))
    PROVE  buf' \in Buffer /\ disk' \in Buffer /\ causes' \subseteq CauseKinds
  <1>1. CASE Batch(buf) = buf
    BY <1>1 DEF TakeBatch, TypeOK
  <1>2. CASE Batch(buf) # buf
    <2>1. Save(Batch(buf)) /\ Batch(buf) \in Buffer
      BY <1>2, BatchType DEF TakeBatch, TypeOK
    <2> QED BY <2>1, SaveType
  <1> QED BY <1>1, <1>2

LEMMA IdleReaderType ==
    ASSUME NEW pc \in {"none", "dialed", "read", "off"}
    PROVE  IdleReader(pc) \in Reader
  BY DEF IdleReader, ReaderAt, Reader, Msg, NoMsg

LEMMA ReaderAtType ==
    ASSUME NEW pc \in {"users", "add", "ack"}, NEW m \in Msg, NEW todo \in SUBSET Users
    PROVE  ReaderAt(pc, m, todo) \in Reader
  BY DEF ReaderAt, Reader

LEMMA HeldType == ASSUME TypeOK PROVE InHand \subseteq Units /\ Buffered \subseteq Units
  BY DEF TypeOK, InHand, Buffered, Buffer

\* Every step keeps every variable within its type.
\* A writeLoop that gives up only cuts the queue of its connection short.
LEMMA WriteCuts ==
    ASSUME TypeOK, NEW c \in Conns, WriteFails(c)
    PROVE  /\ down' \in [Conns -> Seq(Nat)]
           /\ \A d \in Conns : \A i \in 1..Len(down'[d]) :
                  i \in 1..Len(down[d]) /\ down'[d][i] = down[d][i]
  <1>1. PICK k \in 0..Len(down[c]) : down' = [down EXCEPT ![c] = SubSeq(down[c], 1, k)]
    BY DEF WriteFails
  <1>2. down \in [Conns -> Seq(Nat)] /\ down[c] \in Seq(Nat) /\ Len(down[c]) \in Nat
    BY DEF TypeOK
  <1>3. /\ SubSeq(down[c], 1, k) \in Seq(Nat)
        /\ Len(SubSeq(down[c], 1, k)) = k
        /\ \A i \in 1..k : SubSeq(down[c], 1, k)[i] = down[c][i]
    BY <1>2
  <1>4. down' \in [Conns -> Seq(Nat)]
    BY <1>1, <1>2, <1>3
  <1>5. ASSUME NEW d \in Conns, NEW i \in 1..Len(down'[d])
        PROVE  i \in 1..Len(down[d]) /\ down'[d][i] = down[d][i]
    <2>1. CASE d = c
      BY <1>1, <1>2, <1>3, <2>1
    <2>2. CASE d # c
      BY <1>1, <1>2, <2>2
    <2> QED BY <2>1, <2>2
  <1> QED BY <1>4, <1>5

LEMMA TypeNext == TypeOK /\ [Next]_vars => TypeOK'
  <1> SUFFICES ASSUME TypeOK, [Next]_vars PROVE TypeOK'
    OBVIOUS
  <1> USE BoundsAssumption
  <1>1. CASE UNCHANGED vars
    BY <1>1 DEF TypeOK, vars
  <1>2. ASSUME NEW u \in Units, Transfer(u) PROVE TypeOK'
    BY <1>2 DEF TypeOK, Transfer, bufVars, wireVars, panelVars, dbVars
  <1>3. CASE XrayRestart
    BY <1>3 DEF TypeOK, XrayRestart, bufVars, wireVars, panelVars, dbVars
  <1>4. CASE Dial
    BY <1>4, IdleReaderType DEF TypeOK, Dial, bufVars, wireVars, panelVars, dbVars
  <1>5. CASE AgentStop
    BY <1>5, HeldType DEF TypeOK, AgentStop, RestartWith, wireVars, panelVars, dbVars
  <1>6. CASE AgentWiped
    <2>1. FreshBuffer \in Buffer
      BY DEF FreshBuffer, Buffer
    <2> QED
      BY <1>6, <2>1, HeldType
         DEF TypeOK, AgentWiped, RestartWith, wireVars, panelVars, dbVars, CauseKinds
  <1>7. CASE PanelRestart
    BY <1>7, IdleReaderType
       DEF TypeOK, PanelRestart, bufVars, wireVars, panelVars, dbVars, CauseKinds
  <1>8. ASSUME NEW usr \in Users, Reassign(usr) PROVE TypeOK'
    BY <1>8 DEF TypeOK, Reassign, bufVars, wireVars, panelVars, dbVars
  <1>9. ASSUME NEW c \in Conns, QueryStats(c) PROVE TypeOK'
    BY <1>9 DEF TypeOK, QueryStats, bufVars, wireVars, panelVars, dbVars
  <1>10. ASSUME NEW c \in Conns, Collect(c) PROVE TypeOK'
    <2>1. buf' \in Buffer /\ disk' \in Buffer /\ causes' \subseteq CauseKinds
      <3>1. CASE hand[c] = {}
        BY <1>10, <3>1 DEF Collect, CollectInto, TypeOK
      <3>2. CASE hand[c] # {}
        <4>1. Merge(buf, hand[c]) \in Buffer
          BY DEF TypeOK, Buffer, Merge
        <4>2. Save(Merge(buf, hand[c]))
          BY <1>10, <3>2 DEF Collect, CollectInto
        <4> QED BY <4>1, <4>2, SaveType
      <3> QED BY <3>1, <3>2
    <2> QED
      BY <1>10, <2>1 DEF TypeOK, Collect, wireVars, panelVars, dbVars
  <1>11. ASSUME NEW c \in Conns, SendBatch(c) PROVE TypeOK'
    <2>1. buf' \in Buffer /\ disk' \in Buffer /\ causes' \subseteq CauseKinds
      BY <1>11, TakeBatchType DEF SendBatch
    <2>2. up' \in [Conns -> Seq(Msg)]
      <3>1. [seq |-> Batch(buf).seq, items |-> Batch(buf).flight] \in Msg
        BY BatchType DEF TypeOK, Buffer, Msg
      <3>2. \/ up' = up
            \/ up' = [up EXCEPT ![c] = Append(@, [seq |-> Batch(buf).seq,
                                                items |-> Batch(buf).flight])]
        BY <1>11 DEF SendBatch
      <3>3. up \in [Conns -> Seq(Msg)]
        BY DEF TypeOK
      <3>4. ASSUME NEW m \in Msg, up' = [up EXCEPT ![c] = Append(@, m)]
            PROVE  up' \in [Conns -> Seq(Msg)]
        BY <3>3, <3>4
      <3> QED BY <3>1, <3>2, <3>3, <3>4
    <2> QED
      BY <1>11, <2>1, <2>2 DEF TypeOK, SendBatch, wireVars, panelVars, dbVars
  <1>12. ASSUME NEW c \in Conns, SendFails(c) PROVE TypeOK'
    <2>1. buf' \in Buffer /\ disk' \in Buffer /\ causes' \subseteq CauseKinds
      BY <1>12, TakeBatchType DEF SendFails
    <2>2. /\ sess' \in 0..MaxConns
          /\ tick' \in [Conns -> {"off", "flush", "idle", "got", "send"}]
      BY <1>12 DEF TypeOK, SendFails
    <2>3. UNCHANGED <<unused, xray, hand, nconns, wireVars, panelVars, dbVars, lost, ignored>>
      BY <1>12 DEF SendFails
    <2> QED BY <2>1, <2>2, <2>3 DEF TypeOK, wireVars, panelVars, dbVars
  <1>13. ASSUME NEW c \in Conns, TickStops(c) PROVE TypeOK'
    BY <1>13 DEF TypeOK, TickStops, bufVars, wireVars, panelVars, dbVars
  <1>14. ASSUME NEW c \in Conns, ReceiveAck(c) PROVE TypeOK'
    <2>1. Head(down[c]) \in Nat /\ Tail(down[c]) \in Seq(Nat)
      BY <1>14 DEF TypeOK, ReceiveAck
    <2>2. buf' \in Buffer /\ disk' \in Buffer /\ causes' \subseteq CauseKinds
      BY <1>14, <2>1, AckedType, SaveType DEF TypeOK, ReceiveAck
    <2> QED
      BY <1>14, <2>1, <2>2 DEF TypeOK, ReceiveAck, panelVars, dbVars
  <1>15. ASSUME NEW c \in Conns, SessionEnds(c) PROVE TypeOK'
    BY <1>15 DEF TypeOK, SessionEnds, bufVars, wireVars, panelVars, dbVars
  <1>16. ASSUME NEW c \in Conns, Register(c) PROVE TypeOK'
    BY <1>16, IdleReaderType DEF TypeOK, Register, bufVars, wireVars, dbVars
  <1>17. ASSUME NEW c \in Conns, HandlerEnds(c) PROVE TypeOK'
    BY <1>17, IdleReaderType DEF TypeOK, HandlerEnds, bufVars, dbVars
  <1>18. ASSUME NEW c \in Conns, BeginIngest(c) PROVE TypeOK'
    <2>1. Head(up[c]) \in Msg /\ Tail(up[c]) \in Seq(Msg)
      BY <1>18 DEF TypeOK, BeginIngest
    <2>2. rd' \in [Conns -> Reader]
      <3>1. \E pc \in {"users", "ack"} :
                rd' = [rd EXCEPT ![c] = ReaderAt(pc, Head(up[c]), {})]
        BY <1>18 DEF BeginIngest
      <3>2. ASSUME NEW r \in Reader, rd' = [rd EXCEPT ![c] = r]
            PROVE  rd' \in [Conns -> Reader]
        BY <3>2 DEF TypeOK
      <3> QED BY <2>1, <3>1, <3>2, ReaderAtType
    <2>3. causes' \subseteq CauseKinds
      BY <1>18 DEF TypeOK, BeginIngest, CauseKinds
    <2>4. up' \in [Conns -> Seq(Msg)] /\ newest' \in 0..MaxConns
      BY <1>18, <2>1 DEF TypeOK, BeginIngest
    <2>5. UNCHANGED <<unused, xray, hand, bufVars, sess, tick, nconns, down, hub, closed, deaf,
                      dbVars, lost, ignored>>
      BY <1>18 DEF BeginIngest
    <2> QED
      BY <2>2, <2>3, <2>4, <2>5 DEF TypeOK, bufVars, dbVars
  <1>19. ASSUME NEW c \in Conns, LookupUsers(c) PROVE TypeOK'
    <2>1. rd[c].m \in Msg /\ rd[c].m.items \subseteq Units
      BY DEF TypeOK, Reader, Msg
    <2>2. rd' \in [Conns -> Reader]
      <3>1. ASSUME NEW r \in Reader, rd' = [rd EXCEPT ![c] = r]
            PROVE  rd' \in [Conns -> Reader]
        BY <3>1 DEF TypeOK
      <3>2. \/ rd' = [rd EXCEPT ![c] = ReaderAt("ack", rd[c].m, {})]
            \/ rd' = [rd EXCEPT ![c] = ReaderAt("add", rd[c].m,
                         {Owner[u] : u \in rd[c].m.items} \cap assigned)]
        BY <1>19 DEF LookupUsers
      <3>3. {Owner[u] : u \in rd[c].m.items} \cap assigned \subseteq Users
        BY DEF TypeOK
      <3>4. ReaderAt("ack", rd[c].m, {}) \in Reader
        BY <2>1, ReaderAtType
      <3>5. ReaderAt("add", rd[c].m, {Owner[u] : u \in rd[c].m.items} \cap assigned)
                \in Reader
        BY <2>1, <3>3, ReaderAtType
      <3> QED BY <3>1, <3>2, <3>4, <3>5
    <2>3. causes' \subseteq CauseKinds /\ ignored' \subseteq Units
      BY <1>19, <2>1 DEF TypeOK, LookupUsers, CauseKinds
    <2> QED
      BY <1>19, <2>2, <2>3 DEF TypeOK, LookupUsers, bufVars, wireVars, dbVars
  <1>20. ASSUME NEW c \in Conns, NEW usr \in Users, AddTraffic(c, usr) PROVE TypeOK'
    <2>1. rd[c].m \in Msg /\ rd[c].todo \subseteq Users
      BY DEF TypeOK, Reader
    <2>2. rd' \in [Conns -> Reader]
      BY <1>20, <2>1, ReaderAtType DEF TypeOK, AddTraffic
    <2>3. causes' \subseteq CauseKinds /\ counted' \in [Units -> 0..CountCap]
      <3>1. ASSUME NEW n \in 0..CountCap PROVE Bump(n) \in 0..CountCap
        BY DEF Bump, CountCap
      <3>2. CASE UNCHANGED counted
        BY <1>20, <3>2 DEF TypeOK, AddTraffic, CauseKinds
      <3>3. CASE counted' = [u \in Units |->
                IF u \in rd[c].m.items /\ Owner[u] = usr THEN Bump(counted[u])
                                                         ELSE counted[u]]
        <4>1. causes' \subseteq CauseKinds
          BY <1>20 DEF TypeOK, AddTraffic, CauseKinds
        <4>2. counted \in [Units -> 0..CountCap]
          BY DEF TypeOK
        <4> QED BY <3>1, <3>3, <4>1, <4>2
      <3> QED BY <1>20, <3>2, <3>3 DEF AddTraffic
    <2> QED
      BY <1>20, <2>2, <2>3 DEF TypeOK, AddTraffic, bufVars, wireVars
  <1>21. ASSUME NEW c \in Conns, SetSeq(c) PROVE TypeOK'
    <2>1. rd[c].m \in Msg /\ rd[c].m.seq \in Nat
      BY DEF TypeOK, Reader, Msg
    <2>2. rd' \in [Conns -> Reader]
      BY <1>21, <2>1, ReaderAtType DEF TypeOK, SetSeq
    <2>3. causes' \subseteq CauseKinds /\ lastSeq' \in Nat
      BY <1>21, <2>1 DEF TypeOK, SetSeq, CauseKinds
    <2> QED
      BY <1>21, <2>2, <2>3 DEF TypeOK, SetSeq, bufVars, wireVars
  <1>22. ASSUME NEW c \in Conns, SendAck(c) PROVE TypeOK'
    <2>1. rd[c].m.seq \in Nat
      BY DEF TypeOK, Reader, Msg
    <2>2. down' \in [Conns -> Seq(Nat)]
      BY <1>22, <2>1 DEF TypeOK, SendAck
    <2> QED
      BY <1>22, <2>2, IdleReaderType DEF TypeOK, SendAck, bufVars, dbVars
  <1>23. ASSUME NEW c \in Conns, DropAck(c) PROVE TypeOK'
    BY <1>23, IdleReaderType DEF TypeOK, DropAck, bufVars, wireVars, dbVars
  <1>24. ASSUME NEW c \in Conns, WriteFails(c) PROVE TypeOK'
    BY <1>24, WriteCuts DEF TypeOK, WriteFails, bufVars, dbVars
  <1> QED
    BY <1>1, <1>2, <1>3, <1>4, <1>5, <1>6, <1>7, <1>8, <1>9, <1>10, <1>11, <1>12,
       <1>13, <1>14, <1>15, <1>16, <1>17, <1>18, <1>19, <1>20, <1>21, <1>22, <1>23,
       <1>24
       DEF Next, Node, Panel

\* Type correctness of the traffic protocol; in particular the buffer has a
\* batch in flight exactly when it has items to resend (pending.go).
THEOREM TypeCorrect == Spec => []TypeOK
  <1>1. Init => TypeOK
    BY BoundsAssumption, IdleReaderType
       DEF Init, TypeOK, Buffer, FreshBuffer, CountCap, CauseKinds
  <1> QED BY <1>1, TypeNext, PTL DEF Spec

-----------------------------------------------------------------------------
(* Durability. *)

\* A step of the buffer and of the store under which what is known of messages,
\* acks and readers stays true: the batch in flight is the same, or newer than
\* everything on its way, or gone; and nothing credited is forgotten.
Later ==
    /\ buf.seq <= buf'.seq
    /\ buf'.flightAt /\ buf'.seq = buf.seq => buf.flightAt /\ buf'.flight = buf.flight
    /\ \A u \in Units : Credited(u) => Credited(u)'

LEMMA BufferFields ==
    ASSUME NEW b \in Buffer
    PROVE  /\ b.seq \in Nat
           /\ b.flight \subseteq Units
           /\ b.pend \subseteq Units
           /\ b.flightAt <=> b.flight # {}
           /\ b.flightAt => b.seq > 0
  BY DEF Buffer

LEMMA BufTypes ==
    ASSUME TypeOK
    PROVE  /\ buf \in Buffer
           /\ buf.seq \in Nat
           /\ buf.flight \subseteq Units
           /\ buf.pend \subseteq Units
           /\ buf.flightAt <=> buf.flight # {}
  <1>1. buf \in Buffer
    BY DEF TypeOK
  <1> QED BY <1>1, BufferFields

LEMMA WireTypes ==
    ASSUME TypeOK, NEW c \in Conns
    PROVE  /\ up[c] \in Seq(Msg)
           /\ \A i \in 1..Len(up[c]) : up[c][i] \in Msg
           /\ down[c] \in Seq(Nat)
           /\ \A i \in 1..Len(down[c]) : down[c][i] \in Nat
  <1>1. up[c] \in Seq(Msg) /\ down[c] \in Seq(Nat)
    BY DEF TypeOK
  <1> QED BY <1>1

LEMMA ReaderTypes ==
    ASSUME TypeOK, NEW c \in Conns
    PROVE  /\ rd[c] \in Reader
           /\ rd[c].m \in Msg
           /\ rd[c].m.seq \in Nat
           /\ rd[c].m.items \subseteq Units
           /\ rd[c].todo \subseteq Users
  <1>1. rd[c] \in Reader
    BY DEF TypeOK
  <1> QED BY <1>1 DEF Reader, Msg

LEMMA MsgStable ==
    ASSUME TypeOK, TypeOK', Later, NEW m \in Msg,
           m.seq \in 1..buf.seq, buf.flightAt /\ m.seq = buf.seq => m.items = buf.flight
    PROVE  /\ m.seq \in 1..buf'.seq
           /\ buf'.flightAt /\ m.seq = buf'.seq => m.items = buf'.flight
  <1>1. buf.seq \in Nat /\ buf'.seq \in Nat /\ m.seq \in Nat
    BY BufTypes, BufferFields DEF TypeOK, Msg
  <1> QED BY <1>1 DEF Later

LEMMA AckStable ==
    ASSUME TypeOK, TypeOK', Later, NEW s \in Nat, s <= buf.seq,
           buf.flightAt /\ s = buf.seq => \A u \in buf.flight : Credited(u)
    PROVE  /\ s <= buf'.seq
           /\ buf'.flightAt /\ s = buf'.seq => \A u \in buf'.flight : Credited(u)'
  <1>a. buf.seq \in Nat /\ buf'.seq \in Nat
    BY BufTypes, BufferFields DEF TypeOK
  <1>1. s <= buf'.seq
    BY <1>a DEF Later
  <1>2. ASSUME buf'.flightAt, s = buf'.seq, NEW u \in buf'.flight PROVE Credited(u)'
    <2>1. buf.flightAt /\ buf.seq = s /\ buf'.flight = buf.flight
      BY <1>2, <1>a DEF Later
    <2>2. Credited(u) /\ u \in Units
      BY <1>2, <2>1, BufTypes
    <2> QED BY <2>2 DEF Later
  <1> QED BY <1>1, <1>2

\* What is on its way is old, or new and known to be good; readers too.
LEMMA Stable ==
    ASSUME TypeOK, TypeOK', LossFacts, Later,
           disk' = buf', AckedIsCounted',
           lastSeq' = lastSeq \/ AckOK(lastSeq)',
           \A c \in Conns : \A i \in 1..Len(up'[c]) :
               \/ \E j \in 1..Len(up[c]) : up'[c][i] = up[c][j]
               \/ MsgOK(up[c][i])',
           \A c \in Conns : \A i \in 1..Len(down'[c]) :
               \/ \E j \in 1..Len(down[c]) : down'[c][i] = down[c][j]
               \/ AckOK(down[c][i])',
           \A c \in Conns : rd'[c] = rd[c] \/ ReaderOK(rd[c])'
    PROVE  LossFacts'
  <1>1. AckOK(lastSeq)'
    BY AckStable DEF LossFacts, AckOK, InFlight, TypeOK
  <1>2. UpOK'
    <2> SUFFICES ASSUME NEW c \in Conns, NEW i \in 1..Len(up'[c]),
                        NEW j \in 1..Len(up[c]), up'[c][i] = up[c][j]
                 PROVE  MsgOK(up[c][i])'
      BY DEF UpOK
    <2>1. up[c][j] \in Msg
      BY WireTypes
    <2>2. MsgOK(up[c][j])
      BY DEF LossFacts, UpOK
    <2> QED BY <2>1, <2>2, MsgStable DEF MsgOK, InFlight
  <1>3. DownOK'
    <2> SUFFICES ASSUME NEW c \in Conns, NEW i \in 1..Len(down'[c]),
                        NEW j \in 1..Len(down[c]), down'[c][i] = down[c][j]
                 PROVE  AckOK(down[c][i])'
      BY DEF DownOK
    <2>1. down[c][j] \in Nat
      BY WireTypes
    <2>2. AckOK(down[c][j])
      BY DEF LossFacts, DownOK
    <2> QED BY <2>1, <2>2, AckStable DEF AckOK, InFlight
  <1>4. ReadersOK'
    <2> SUFFICES ASSUME NEW c \in Conns, rd'[c] = rd[c] PROVE ReaderOK(rd[c])'
      BY DEF ReadersOK
    <2>1. rd[c].m \in Msg /\ rd[c].m.seq \in Nat /\ rd[c].m.items \subseteq Units
      BY ReaderTypes
    <2>2. ReaderOK(rd[c])
      BY DEF LossFacts, ReadersOK
    <2>3. rd[c].pc \in {"users", "add", "ack"} => MsgOK(rd[c].m)'
      BY <2>1, <2>2, MsgStable DEF ReaderOK, MsgOK, InFlight
    <2>4. rd[c].pc = "ack" => AckOK(rd[c].m.seq)'
      BY <2>1, <2>2, AckStable DEF ReaderOK, AckOK, InFlight
    <2>5. rd[c].pc = "add" =>
            \A u \in rd[c].m.items : Owner[u] \notin rd[c].todo => Credited(u)'
      BY <2>1, <2>2 DEF ReaderOK, Later
    <2> QED BY <2>3, <2>4, <2>5 DEF ReaderOK
  <1> QED BY <1>1, <1>2, <1>3, <1>4 DEF LossFacts

Outside == unused \cup xray \cup InHand \cup lost

\* Steps that leave the buffer, the store and the messages on their way alone,
\* or lose messages.
LEMMA Quiet ==
    ASSUME TypeOK, TypeOK', LossFacts,
           buf' = buf, disk' = disk, counted' = counted, ignored' = ignored,
           lastSeq' = lastSeq,
           Outside \subseteq Outside',
           \A c \in Conns : up'[c] = up[c] \/ up'[c] = <<>>,
           \A c \in Conns : down'[c] = down[c] \/ down'[c] = <<>>,
           \A c \in Conns : rd'[c] = rd[c] \/ rd'[c].pc \notin {"users", "add", "ack"}
    PROVE  LossFacts'
  <1>1. Later
    BY BufTypes DEF Later, Credited
  <1>2. AckedIsCounted'
    BY DEF LossFacts, AckedIsCounted, Outside, Buffered
  <1>3. \A c \in Conns : rd'[c] = rd[c] \/ ReaderOK(rd[c])'
    BY DEF ReaderOK
  <1>4. disk' = buf'
    BY DEF LossFacts
  <1>5. \A c \in Conns : \A i \in 1..Len(up'[c]) :
            \/ \E j \in 1..Len(up[c]) : up'[c][i] = up[c][j]
            \/ MsgOK(up[c][i])'
    OBVIOUS
  <1>6. \A c \in Conns : \A i \in 1..Len(down'[c]) :
            \/ \E j \in 1..Len(down[c]) : down'[c][i] = down[c][j]
            \/ AckOK(down[c][i])'
    OBVIOUS
  <1> QED BY <1>1, <1>2, <1>3, <1>4, <1>5, <1>6, Stable

LEMMA IdleReaderAt ==
    ASSUME NEW pc \in {"none", "dialed", "read", "off"}
    PROVE  IdleReader(pc).pc = pc
  BY DEF IdleReader, ReaderAt

\* Taking a batch: the buffer moves on, nothing on its way is in flight by
\* accident.
LEMMA BatchStep ==
    ASSUME TypeOK, TypeOK', LossFacts, causes' \cap LossCauses = {},
           TakeBatch(Batch(buf)),
           UNCHANGED <<unused, xray, hand, counted, lost, ignored>>
    PROVE  disk' = buf' /\ Later /\ AckedIsCounted'
  <1>1. buf' = Batch(buf) /\ disk' = buf'
    BY DEF TakeBatch, Save, LossFacts, LossCauses
  <1>2. buf \in Buffer /\ buf.seq \in Nat
    BY BufTypes
  <1>3. \/ buf' = buf
        \/ /\ ~ buf.flightAt
           /\ buf'.seq = buf.seq + 1
           /\ buf'.flight = buf.pend
           /\ buf'.pend = {}
    BY <1>1 DEF Batch
  <1>4. Later
    BY <1>2, <1>3 DEF Later, Credited
  <1>5. Buffered' = Buffered
    BY <1>3, BufTypes DEF Buffered
  <1> QED
    BY <1>1, <1>4, <1>5 DEF LossFacts, AckedIsCounted, InHand

LEMMA LossNext == TypeOK /\ TypeOK' /\ LossInv /\ [Next]_vars => LossInv'
  <1> SUFFICES ASSUME TypeOK, TypeOK', LossInv, [Next]_vars, causes' \cap LossCauses = {}
               PROVE  LossFacts'
    BY DEF LossInv
  <1> USE BoundsAssumption
  <1>0. causes \subseteq causes' => LossFacts
    BY DEF LossInv
  <1>1. CASE UNCHANGED vars
    BY <1>0, <1>1, Quiet DEF vars, Outside, InHand
  <1>2. ASSUME NEW u \in Units, Transfer(u) PROVE LossFacts'
    <2>1. Outside \subseteq Outside'
      BY <1>2 DEF Transfer, Outside, InHand
    <2> QED BY <1>0, <1>2, <2>1, Quiet
            DEF Transfer, bufVars, wireVars, panelVars, dbVars
  <1>3. CASE XrayRestart
    <2>1. Outside \subseteq Outside'
      BY <1>3 DEF XrayRestart, Outside, InHand
    <2> QED BY <1>0, <1>3, <2>1, Quiet
            DEF XrayRestart, bufVars, wireVars, panelVars, dbVars
  <1>4. CASE Dial
    <2>1. Outside \subseteq Outside'
      BY <1>4 DEF Dial, Outside, InHand
    <2>2. \A c \in Conns : rd'[c] = rd[c] \/ rd'[c].pc \notin {"users", "add", "ack"}
      BY <1>4, IdleReaderAt DEF Dial, TypeOK
    <2> QED BY <1>0, <1>4, <2>1, <2>2, Quiet
            DEF Dial, bufVars, wireVars, panelVars, dbVars
  <1>5. CASE AgentStop
    <2>1. Outside \subseteq Outside'
      BY <1>5 DEF AgentStop, RestartWith, Outside
    <2>2. LossFacts
      BY <1>0, <1>5 DEF AgentStop
    <2>3. buf' = buf /\ disk' = disk
      BY <1>5, <2>2 DEF AgentStop, RestartWith, LossFacts
    <2> QED BY <1>5, <2>1, <2>2, <2>3, Quiet
            DEF AgentStop, RestartWith, panelVars, dbVars
  <1>6. CASE AgentWiped
    BY <1>6 DEF AgentWiped, LossCauses
  <1>7. CASE PanelRestart
    <2>1. Outside \subseteq Outside'
      BY <1>7 DEF PanelRestart, Outside, InHand
    <2>2. \A c \in Conns : rd'[c].pc \notin {"users", "add", "ack"}
      BY <1>7, IdleReaderAt DEF PanelRestart
    <2>3. causes \subseteq causes'
      BY <1>7 DEF PanelRestart
    <2> QED BY <1>0, <1>7, <2>1, <2>2, <2>3, Quiet
            DEF PanelRestart, bufVars, dbVars
  <1>8. ASSUME NEW usr \in Users, Reassign(usr) PROVE LossFacts'
    <2>1. Outside \subseteq Outside'
      BY <1>8 DEF Reassign, Outside, InHand
    <2> QED BY <1>0, <1>8, <2>1, Quiet
            DEF Reassign, bufVars, wireVars, panelVars, dbVars
  <1>9. ASSUME NEW c \in Conns, QueryStats(c) PROVE LossFacts'
    <2>1. Outside \subseteq Outside'
      <3>a. hand \in [Conns -> SUBSET Units]
        BY DEF TypeOK
      <3>b. \/ hand' = [hand EXCEPT ![c] = hand[c] \cup xray]
            \/ hand' = hand /\ (xray' = xray \/ lost' = lost \cup xray)
        BY <1>9 DEF QueryStats
      <3>1. \A d \in Conns : hand[d] \subseteq hand'[d]
        BY <3>a, <3>b
      <3>2. xray \subseteq hand'[c] \/ xray \subseteq xray' \/ xray \subseteq lost'
        BY <3>a, <3>b
      <3>3. unused' = unused /\ lost \subseteq lost'
        BY <1>9 DEF QueryStats
      <3> QED BY <3>1, <3>2, <3>3 DEF Outside, InHand
    <2> QED BY <1>0, <1>9, <2>1, Quiet
            DEF QueryStats, bufVars, wireVars, panelVars, dbVars
  <1>10. ASSUME NEW c \in Conns, Collect(c) PROVE LossFacts'
    <2>1. causes' = causes /\ disk' = buf' /\ LossFacts
      <3>1. CASE hand[c] = {}
        BY <1>0, <1>10, <3>1 DEF Collect, CollectInto, LossFacts
      <3>2. CASE hand[c] # {}
        <4>1. Save(Merge(buf, hand[c]))
          BY <1>10, <3>2 DEF Collect, CollectInto
        <4> QED BY <1>0, <4>1 DEF Save, LossCauses
      <3> QED BY <3>1, <3>2
    <2>2. buf'.seq = buf.seq /\ buf'.flightAt = buf.flightAt /\ buf'.flight = buf.flight
          /\ buf'.pend = buf.pend \cup hand[c]
      <3>1. CASE hand[c] = {}
        BY <1>10, <3>1 DEF Collect, CollectInto
      <3>2. CASE hand[c] # {}
        BY <1>10, <3>2 DEF Collect, CollectInto, Save, Merge
      <3> QED BY <3>1, <3>2
    <2>3. Later
      BY <1>10, <2>2, BufTypes DEF Later, Credited, Collect, dbVars
    <2>4. AckedIsCounted'
      <3>1. \A d \in Conns : d = c \/ hand'[d] = hand[d]
        BY <1>10 DEF Collect, TypeOK
      <3>2. \A u \in InHand : u \in InHand' \/ u \in hand[c]
        BY <3>1 DEF InHand
      <3> QED BY <1>10, <2>1, <2>2, <3>2
              DEF Collect, LossFacts, AckedIsCounted, Buffered, dbVars
    <2> QED BY <1>10, <2>1, <2>3, <2>4, Stable DEF Collect, wireVars, panelVars, dbVars
  <1>11. ASSUME NEW c \in Conns, SendBatch(c) PROVE LossFacts'
    <2>1. TakeBatch(Batch(buf))
      BY <1>11 DEF SendBatch
    <2>2. causes \subseteq causes'
      BY <2>1 DEF TakeBatch, Save
    <2>3. LossFacts /\ disk' = buf' /\ Later /\ AckedIsCounted'
      BY <1>0, <1>11, <2>1, <2>2, BatchStep DEF SendBatch, dbVars
    <2>4. buf' = Batch(buf)
      BY <2>1 DEF TakeBatch, Save
    <2>5. ASSUME NEW d \in Conns, NEW i \in 1..Len(up'[d])
          PROVE  \/ \E j \in 1..Len(up[d]) : up'[d][i] = up[d][j]
                 \/ MsgOK(up[d][i])'
      <3>1. up[d] \in Seq(Msg) /\ up[c] \in Seq(Msg)
        BY WireTypes
      <3>2. CASE up'[d] = up[d]
        BY <3>2
      <3>3. CASE /\ buf'.flight # {}
                 /\ d = c
                 /\ up'[c] = Append(up[c], [seq |-> buf'.seq, items |-> buf'.flight])
        <4>1. CASE i \in 1..Len(up[c])
          BY <3>1, <3>3, <4>1
        <4>2. CASE i = Len(up[c]) + 1
          <5>1. up'[d][i] = [seq |-> buf'.seq, items |-> buf'.flight]
            BY <3>1, <3>3, <4>2
          <5>2. buf'.seq \in 1..buf'.seq
            <6>1. buf' \in Buffer
              BY DEF TypeOK
            <6> QED BY <3>3, <6>1, BufferFields
          <5> QED BY <5>1, <5>2 DEF MsgOK, InFlight
        <4> QED BY <3>1, <3>3, <4>1, <4>2
      <3>4. up \in [Conns -> Seq(Msg)]
        BY DEF TypeOK
      <3>5. \/ up' = up
            \/ /\ buf'.flight # {}
               /\ up' = [up EXCEPT ![c] = Append(up[c],
                                [seq |-> buf'.seq, items |-> buf'.flight])]
        BY <1>11, <2>4 DEF SendBatch
      <3> QED BY <3>2, <3>3, <3>4, <3>5
    <2> QED BY <1>11, <2>3, <2>5, Stable DEF SendBatch, panelVars, dbVars
  <1>12. ASSUME NEW c \in Conns, SendFails(c) PROVE LossFacts'
    <2>1. TakeBatch(Batch(buf))
      BY <1>12 DEF SendFails
    <2>2. causes \subseteq causes'
      BY <2>1 DEF TakeBatch, Save
    <2>3. LossFacts /\ disk' = buf' /\ Later /\ AckedIsCounted'
      BY <1>0, <1>12, <2>1, <2>2, BatchStep DEF SendFails, dbVars
    <2> QED BY <1>12, <2>3, Stable DEF SendFails, wireVars, panelVars, dbVars
  <1>13. ASSUME NEW c \in Conns, TickStops(c) PROVE LossFacts'
    <2>1. Outside \subseteq Outside'
      BY <1>13 DEF TickStops, Outside, InHand
    <2> QED BY <1>0, <1>13, <2>1, Quiet
            DEF TickStops, bufVars, wireVars, panelVars, dbVars
  <1>14. ASSUME NEW c \in Conns, ReceiveAck(c) PROVE LossFacts'
    <2> DEFINE s == Head(down[c])
    <2>1. down[c] \in Seq(Nat) /\ down[c] # <<>> /\ s \in Nat /\ s = down[c][1]
      BY <1>14, WireTypes DEF ReceiveAck
    <2>2. causes \subseteq causes'
      BY <1>14 DEF ReceiveAck, Save
    <2>3. LossFacts /\ AckOK(s)
      BY <1>0, <2>1, <2>2 DEF LossFacts, DownOK
    <2>4. buf' = Acked(buf, s) /\ disk' = buf'
      BY <1>14, <2>3 DEF ReceiveAck, Save, LossFacts, LossCauses
    <2>5. \/ buf' = buf
          \/ /\ InFlight(s)
             /\ buf'.seq = buf.seq
             /\ ~ buf'.flightAt
             /\ buf'.pend = buf.pend
      BY <2>4 DEF Acked, Cleared, InFlight
    <2>6. Later
      BY <1>14, <2>5, BufTypes DEF Later, Credited, ReceiveAck, dbVars
    <2>7. AckedIsCounted'
      <3>1. CASE buf' = buf
        BY <1>14, <2>3, <3>1
           DEF ReceiveAck, LossFacts, AckedIsCounted, InHand, Buffered, dbVars
      <3>2. CASE InFlight(s) /\ buf'.pend = buf.pend
        <4>1. \A u \in buf.flight : Credited(u)
          BY <2>3, <3>2 DEF AckOK
        <4> QED
          BY <1>14, <2>3, <3>2, <4>1
             DEF ReceiveAck, LossFacts, AckedIsCounted, InHand, Buffered, dbVars, Credited
      <3> QED BY <2>5, <3>1, <3>2
    <2>8. ASSUME NEW d \in Conns, NEW i \in 1..Len(down'[d])
          PROVE  \E j \in 1..Len(down[d]) : down'[d][i] = down[d][j]
      <3>1. CASE d = c
        <4>1. down'[c] = Tail(down[c])
          BY <1>14 DEF ReceiveAck, TypeOK
        <4>2. i + 1 \in 1..Len(down[c]) /\ down'[c][i] = down[c][i + 1]
          BY <2>1, <3>1, <4>1
        <4> QED BY <3>1, <4>2
      <3>2. CASE d # c
        BY <1>14, <3>2 DEF ReceiveAck, TypeOK
      <3> QED BY <3>1, <3>2
    <2> QED BY <1>14, <2>3, <2>4, <2>6, <2>7, <2>8, Stable DEF ReceiveAck, panelVars, dbVars
  <1>15. ASSUME NEW c \in Conns, SessionEnds(c) PROVE LossFacts'
    <2>1. Outside \subseteq Outside'
      BY <1>15 DEF SessionEnds, Outside, InHand
    <2>2. \A d \in Conns : down'[d] = down[d] \/ down'[d] = <<>>
      BY <1>15 DEF SessionEnds, TypeOK
    <2> QED BY <1>0, <1>15, <2>1, <2>2, Quiet
            DEF SessionEnds, bufVars, panelVars, dbVars
  <1>16. ASSUME NEW c \in Conns, Register(c) PROVE LossFacts'
    <2>1. Outside \subseteq Outside'
      BY <1>16 DEF Register, Outside, InHand
    <2>2. \A d \in Conns : rd'[d] = rd[d] \/ rd'[d].pc \notin {"users", "add", "ack"}
      BY <1>16, IdleReaderAt DEF Register, TypeOK
    <2> QED BY <1>0, <1>16, <2>1, <2>2, Quiet
            DEF Register, bufVars, wireVars, dbVars
  <1>17. ASSUME NEW c \in Conns, HandlerEnds(c) PROVE LossFacts'
    <2>1. Outside \subseteq Outside'
      BY <1>17 DEF HandlerEnds, Outside, InHand
    <2>2. \A d \in Conns : rd'[d] = rd[d] \/ rd'[d].pc \notin {"users", "add", "ack"}
      BY <1>17, IdleReaderAt DEF HandlerEnds, TypeOK
    <2>3. \A d \in Conns : up'[d] = up[d] \/ up'[d] = <<>>
      BY <1>17 DEF HandlerEnds, TypeOK
    <2> QED BY <1>0, <1>17, <2>1, <2>2, <2>3, Quiet
            DEF HandlerEnds, bufVars, dbVars
  <1>18. ASSUME NEW c \in Conns, BeginIngest(c) PROVE LossFacts'
    <2>1. up[c] \in Seq(Msg) /\ up[c] # <<>> /\ Head(up[c]) \in Msg /\ Head(up[c]) = up[c][1]
      BY <1>18, WireTypes DEF BeginIngest
    <2>2. causes \subseteq causes'
      BY <1>18 DEF BeginIngest
    <2>3. LossFacts /\ MsgOK(Head(up[c]))
      BY <1>0, <2>1, <2>2 DEF LossFacts, UpOK
    <2>4. rd' = [rd EXCEPT ![c] =
                    ReaderAt(IF Duplicate(Head(up[c]).seq) THEN "ack" ELSE "users",
                             Head(up[c]), {})]
      BY <1>18 DEF BeginIngest, LossCauses
    <2>5. AckedIsCounted' /\ Later
      BY <1>18, <2>3, BufTypes DEF BeginIngest, LossFacts, AckedIsCounted, InHand,
                                   Buffered, bufVars, dbVars, Later, Credited
    <2>6. ASSUME NEW d \in Conns PROVE rd'[d] = rd[d] \/ ReaderOK(rd[d])'
      <3>1. rd \in [Conns -> Reader]
        BY DEF TypeOK
      <3>2. CASE d # c
        BY <2>4, <3>1, <3>2
      <3>3. CASE d = c
        <4>1. rd'[c] = ReaderAt(IF Duplicate(Head(up[c]).seq) THEN "ack" ELSE "users",
                                Head(up[c]), {})
          BY <2>4, <3>1
        <4>2. MsgOK(rd[c].m)'
          BY <1>18, <2>3, <4>1 DEF ReaderAt, MsgOK, InFlight, BeginIngest, bufVars
        <4>3. rd'[c].pc = "ack" => AckOK(rd[c].m.seq)'
          BY <1>18, <2>3, <4>1
             DEF ReaderAt, LossFacts, Duplicate, AckOK, InFlight, Credited, BeginIngest,
                 bufVars, dbVars
        <4>4. rd'[c].pc # "add"
          BY <4>1 DEF ReaderAt
        <4> QED BY <3>3, <4>2, <4>3, <4>4 DEF ReaderOK
      <3> QED BY <3>2, <3>3
    <2>7. ASSUME NEW d \in Conns, NEW i \in 1..Len(up'[d])
          PROVE  \E j \in 1..Len(up[d]) : up'[d][i] = up[d][j]
      <3>1. CASE d = c
        <4>1. up'[c] = Tail(up[c])
          BY <1>18 DEF BeginIngest, TypeOK
        <4>2. i + 1 \in 1..Len(up[c]) /\ up'[c][i] = up[c][i + 1]
          BY <2>1, <3>1, <4>1
        <4> QED BY <3>1, <4>2
      <3>2. CASE d # c
        BY <1>18, <3>2 DEF BeginIngest, TypeOK
      <3> QED BY <3>1, <3>2
    <2>8. disk' = buf'
      BY <1>18, <2>3 DEF LossFacts, BeginIngest, bufVars
    <2> QED BY <1>18, <2>3, <2>5, <2>6, <2>7, <2>8, Stable DEF BeginIngest, dbVars
  <1>19. ASSUME NEW c \in Conns, LookupUsers(c) PROVE LossFacts'
    <2>1. /\ rd' = [rd EXCEPT ![c] = ReaderAt("add", rd[c].m,
                              {Owner[u] : u \in rd[c].m.items} \cap assigned)]
          /\ ignored' = ignored \cup {u \in rd[c].m.items : Owner[u] \notin assigned}
          /\ causes' = causes
      BY <1>19 DEF LookupUsers, LossCauses
    <2>2. LossFacts /\ MsgOK(rd[c].m)
      BY <1>0, <1>19, <2>1 DEF LossFacts, LookupUsers, ReadersOK, ReaderOK
    <2>3. AckedIsCounted' /\ Later
      BY <1>19, <2>1, <2>2, BufTypes DEF LookupUsers, LossFacts, AckedIsCounted, InHand,
                                   Buffered, bufVars, dbVars, Later, Credited
    <2>4. ASSUME NEW d \in Conns PROVE rd'[d] = rd[d] \/ ReaderOK(rd[d])'
      <3>1. rd \in [Conns -> Reader]
        BY DEF TypeOK
      <3>2. CASE d # c
        BY <2>1, <3>1, <3>2
      <3>3. CASE d = c
        <4>1. rd'[c] = ReaderAt("add", rd[c].m,
                                {Owner[u] : u \in rd[c].m.items} \cap assigned)
          BY <2>1, <3>1
        <4>2. rd'[c].pc = "add" /\ rd'[c].m = rd[c].m
              /\ rd'[c].todo = {Owner[u] : u \in rd[c].m.items} \cap assigned
          BY <4>1 DEF ReaderAt
        <4>3. MsgOK(rd[c].m)'
          BY <1>19, <2>2, <4>2 DEF MsgOK, InFlight, LookupUsers, bufVars
        <4>4. \A u \in rd[c].m.items : Owner[u] \notin rd'[c].todo => Credited(u)'
          BY <2>1, <4>2 DEF Credited
        <4> QED BY <3>3, <4>2, <4>3, <4>4 DEF ReaderOK
      <3> QED BY <3>2, <3>3
    <2>5. disk' = buf'
      BY <1>19, <2>2 DEF LossFacts, LookupUsers, bufVars
    <2> QED BY <1>19, <2>2, <2>3, <2>4, <2>5, Stable
            DEF LookupUsers, wireVars, dbVars
  <1>20. ASSUME NEW c \in Conns, NEW usr \in Users, AddTraffic(c, usr) PROVE LossFacts'
    <2>1. /\ rd' = [rd EXCEPT ![c] = ReaderAt("add", rd[c].m, rd[c].todo \ {usr})]
          /\ counted' = [u \in Units |->
                IF u \in rd[c].m.items /\ Owner[u] = usr THEN Bump(counted[u])
                                                         ELSE counted[u]]
          /\ causes' = causes
      BY <1>20 DEF AddTraffic, LossCauses
    <2>2. LossFacts /\ ReaderOK(rd[c]) /\ rd[c].pc = "add"
      BY <1>0, <1>20, <2>1 DEF LossFacts, AddTraffic, ReadersOK
    <2>3. \A u \in Units : counted[u] > 0 => counted'[u] > 0
      <3>1. \A u \in Units : counted[u] \in 0..CountCap
        BY DEF TypeOK
      <3> QED BY <2>1, <3>1 DEF Bump, CountCap
    <2>4. \A u \in Units : u \in rd[c].m.items /\ Owner[u] = usr => counted'[u] > 0
      <3>1. \A u \in Units : counted[u] \in 0..CountCap
        BY DEF TypeOK
      <3> QED BY <2>1, <3>1 DEF Bump, CountCap
    <2>5. Later
      BY <1>20, <2>3, BufTypes DEF AddTraffic, bufVars, Later, Credited
    <2>6. AckedIsCounted'
      BY <1>20, <2>2, <2>3
         DEF AddTraffic, LossFacts, AckedIsCounted, InHand, Buffered, bufVars
    <2>7. ASSUME NEW d \in Conns PROVE rd'[d] = rd[d] \/ ReaderOK(rd[d])'
      <3>1. rd \in [Conns -> Reader]
        BY DEF TypeOK
      <3>2. CASE d # c
        BY <2>1, <3>1, <3>2
      <3>3. CASE d = c
        <4>1. rd'[c] = ReaderAt("add", rd[c].m, rd[c].todo \ {usr})
          BY <2>1, <3>1
        <4>2. rd'[c].pc = "add" /\ rd'[c].m = rd[c].m /\ rd'[c].todo = rd[c].todo \ {usr}
          BY <4>1 DEF ReaderAt
        <4>3. MsgOK(rd[c].m)'
          BY <1>20, <2>2, <4>2 DEF ReaderOK, MsgOK, InFlight, AddTraffic, bufVars
        <4>4. ASSUME NEW u \in rd[c].m.items, Owner[u] \notin rd'[c].todo
              PROVE  Credited(u)'
          <5>1. u \in Units
            BY ReaderTypes
          <5>2. CASE Owner[u] = usr
            BY <2>4, <5>1, <5>2 DEF Credited
          <5>3. CASE Owner[u] # usr
            BY <2>2, <2>5, <4>2, <4>4, <5>1, <5>3 DEF ReaderOK, Later
          <5> QED BY <5>2, <5>3
        <4> QED BY <3>3, <4>2, <4>3, <4>4 DEF ReaderOK
      <3> QED BY <3>2, <3>3
    <2>8. disk' = buf'
      BY <1>20, <2>2 DEF LossFacts, AddTraffic, bufVars
    <2> QED BY <1>20, <2>2, <2>5, <2>6, <2>7, <2>8, Stable
            DEF AddTraffic, wireVars
  <1>21. ASSUME NEW c \in Conns, SetSeq(c) PROVE LossFacts'
    <2>1. causes \subseteq causes'
      BY <1>21 DEF SetSeq
    <2>2. LossFacts /\ ReaderOK(rd[c]) /\ rd[c].pc = "add" /\ rd[c].todo = {}
      BY <1>0, <1>21, <2>1 DEF LossFacts, SetSeq, ReadersOK
    <2>3. AckedIsCounted' /\ Later
      BY <1>21, <2>2, BufTypes DEF SetSeq, LossFacts, AckedIsCounted, InHand, Buffered,
                                   bufVars, Later, Credited
    <2>4. MsgOK(rd[c].m) /\ AckOK(rd[c].m.seq)
      BY <2>2, ReaderTypes, BufTypes DEF ReaderOK, MsgOK, AckOK, InFlight
    <2>5. lastSeq' = lastSeq \/ AckOK(lastSeq)'
      BY <1>21, <2>4 DEF SetSeq, AckOK, InFlight, Credited, bufVars
    <2>6. ASSUME NEW d \in Conns PROVE rd'[d] = rd[d] \/ ReaderOK(rd[d])'
      <3>1. rd \in [Conns -> Reader] /\ rd' = [rd EXCEPT ![c] = ReaderAt("ack", rd[c].m, {})]
        BY <1>21 DEF TypeOK, SetSeq
      <3>2. CASE d # c
        BY <3>1, <3>2
      <3>3. CASE d = c
        <4>1. rd'[c].pc = "ack" /\ rd'[c].m = rd[c].m
          BY <3>1 DEF ReaderAt
        <4>2. MsgOK(rd[c].m)' /\ AckOK(rd[c].m.seq)'
          BY <1>21, <2>4, <4>1 DEF SetSeq, MsgOK, AckOK, InFlight, Credited, bufVars
        <4> QED BY <3>3, <4>1, <4>2 DEF ReaderOK
      <3> QED BY <3>2, <3>3
    <2>7. disk' = buf'
      BY <1>21, <2>2 DEF LossFacts, SetSeq, bufVars
    <2> QED BY <1>21, <2>2, <2>3, <2>5, <2>6, <2>7, Stable DEF SetSeq, wireVars
  <1>22. ASSUME NEW c \in Conns, SendAck(c) PROVE LossFacts'
    <2>1. LossFacts /\ AckOK(rd[c].m.seq)
      BY <1>0, <1>22 DEF LossFacts, SendAck, ReadersOK, ReaderOK
    <2>2. AckedIsCounted' /\ Later
      BY <1>22, <2>1, BufTypes DEF SendAck, LossFacts, AckedIsCounted, InHand, Buffered,
                                   bufVars, dbVars, Later, Credited
    <2>3. \A d \in Conns : rd'[d] = rd[d] \/ ReaderOK(rd[d])'
      BY <1>22, IdleReaderAt DEF SendAck, TypeOK, ReaderOK
    <2>4. ASSUME NEW d \in Conns, NEW i \in 1..Len(down'[d])
          PROVE  \/ \E j \in 1..Len(down[d]) : down'[d][i] = down[d][j]
                 \/ AckOK(down[d][i])'
      <3>1. down \in [Conns -> Seq(Nat)] /\ down[c] \in Seq(Nat)
        BY WireTypes DEF TypeOK
      <3>2. down' = [down EXCEPT ![c] = Append(down[c], rd[c].m.seq)]
        BY <1>22 DEF SendAck
      <3>3. CASE d # c
        BY <3>1, <3>2, <3>3
      <3>4. CASE d = c /\ i \in 1..Len(down[c])
        BY <3>1, <3>2, <3>4
      <3>5. CASE d = c /\ i = Len(down[c]) + 1
        <4>1. down'[d][i] = rd[c].m.seq
          BY <3>1, <3>2, <3>5
        <4> QED BY <1>22, <2>1, <4>1 DEF SendAck, AckOK, InFlight, Credited, bufVars, dbVars
      <3> QED BY <3>1, <3>2, <3>3, <3>4, <3>5
    <2>5. disk' = buf'
      BY <1>22, <2>1 DEF LossFacts, SendAck, bufVars
    <2> QED BY <1>22, <2>1, <2>2, <2>3, <2>4, <2>5, Stable DEF SendAck, dbVars
  <1>23. ASSUME NEW c \in Conns, DropAck(c) PROVE LossFacts'
    <2>1. Outside \subseteq Outside'
      BY <1>23 DEF DropAck, Outside, InHand
    <2>2. \A d \in Conns : rd'[d] = rd[d] \/ rd'[d].pc \notin {"users", "add", "ack"}
      BY <1>23, IdleReaderAt DEF DropAck, TypeOK
    <2> QED BY <1>0, <1>23, <2>1, <2>2, Quiet
            DEF DropAck, bufVars, wireVars, dbVars
  <1>24. ASSUME NEW c \in Conns, WriteFails(c) PROVE LossFacts'
    <2>1. LossFacts
      BY <1>0, <1>24 DEF WriteFails
    <2>2. AckedIsCounted' /\ Later
      BY <1>24, <2>1, BufTypes DEF WriteFails, LossFacts, AckedIsCounted, InHand, Buffered,
                                   bufVars, dbVars, Later, Credited
    <2>3. \A d \in Conns : rd'[d] = rd[d]
      BY <1>24 DEF WriteFails
    <2>4. disk' = buf'
      BY <1>24, <2>1 DEF LossFacts, WriteFails, bufVars
    <2> QED BY <1>24, <2>1, <2>2, <2>3, <2>4, WriteCuts, Stable DEF WriteFails, dbVars
  <1> QED
    BY <1>1, <1>2, <1>3, <1>4, <1>5, <1>6, <1>7, <1>8, <1>9, <1>10, <1>11, <1>12,
       <1>13, <1>14, <1>15, <1>16, <1>17, <1>18, <1>19, <1>20, <1>21, <1>22, <1>23,
       <1>24
       DEF Next, Node, Panel

LEMMA LossAlways == Spec => []LossInv
  <1>1. Init => LossInv
    <2> SUFFICES ASSUME Init PROVE LossFacts
      BY DEF LossInv
    <2>1. buf.seq = 0 /\ ~ buf.flightAt
      BY DEF Init, FreshBuffer
    <2>2. \A c \in Conns : rd[c].pc = "none" /\ up[c] = <<>> /\ down[c] = <<>>
      BY IdleReaderAt DEF Init
    <2>3. UpOK /\ DownOK /\ ReadersOK
      BY <2>2 DEF UpOK, DownOK, ReadersOK, ReaderOK
    <2>4. disk = buf /\ AckedIsCounted /\ AckOK(lastSeq)
      BY <2>1 DEF Init, AckedIsCounted, AckOK, InFlight
    <2> QED BY <2>3, <2>4 DEF LossFacts
  <1> QED BY <1>1, LossNext, TypeCorrect, PTL DEF Spec

\* For every number of users, units, connections and resends and whatever
\* restarts, breaks or overlaps: unless the buffer file is lost, a save fails or
\* the store fails inside ingestTraffic, an ack never clears a batch from the
\* agent's buffer that the panel has not credited (docs/PROTOCOL.md, "never
\* loses a window").
THEOREM Durability == Spec => []NoWindowLost
  <1>1. LossInv => NoWindowLost
    BY DEF LossInv, LossFacts, NoWindowLost
  <1> QED BY <1>1, LossAlways, PTL

-----------------------------------------------------------------------------
(* Where units are.  They only ever move forward: from the users to Xray,   *)
(* into one goroutine's hand, into the buffer.                              *)

Apart ==
    /\ \A u \in unused : u \notin xray
    /\ \A c \in Conns : \A u \in hand[c] : u \notin unused /\ u \notin xray
    /\ \A c, d \in Conns : \A u \in hand[c] : u \in hand[d] => c = d

\* The agent talks on the newest connection only; nothing was ever sent on one
\* that is not dialed, and nothing read from it.
Newest ==
    /\ sess \in {0, nconns}
    /\ newest <= nconns
    /\ \A c \in Conns : c > nconns => up[c] = <<>>

-----------------------------------------------------------------------------
(* Why no batch counts twice.  Fresh units belong to no batch yet; a batch  *)
(* exists as messages on the wire, in a reader's hands and in the buffer.   *)

Volatile == unused \cup xray \cup InHand
Fresh    == Volatile \cup buf.pend

Busy(c)  == rd[c].pc \in {"users", "add"}

OnWire  == UNION {{up[c][i] : i \in 1..Len(up[c])} : c \in Conns}
Reading == {rd[c].m : c \in {d \in Conns : Busy(d)}}
Flying  == IF buf.flightAt THEN {[seq |-> buf.seq, items |-> buf.flight]} ELSE {}
Sent    == OnWire \cup Reading \cup Flying

FreshOK ==
    /\ \A u \in Fresh : counted[u] = 0
    /\ \A u \in buf.pend : u \notin Volatile

SentOK == \A m \in Sent : m.seq \in 1..buf.seq /\ \A u \in m.items : u \notin Fresh

\* Two batches share no unit.
SentApart == \A m, n \in Sent : \A u \in m.items : u \in n.items => m.seq = n.seq

\* A batch beyond lastSeq has not been credited, unless it is being credited now.
Adding(seq) == \E c \in Conns : rd[c].pc = "add" /\ rd[c].m.seq = seq

SentUncounted ==
    \A m \in Sent : m.seq > lastSeq /\ ~ Adding(m.seq) =>
        \A u \in m.items : counted[u] = 0

\* Batches are sent in the order of their numbers, connection after connection.
Ordered ==
    \A c, d \in Conns : \A i \in 1..Len(up[c]), j \in 1..Len(up[d]) :
        c < d \/ (c = d /\ i < j) => up[c][i].seq <= up[d][j].seq

\* What can still be read without overlapping is not behind what was read last.
Ahead ==
    \A c \in Conns : c >= newest => \A i \in 1..Len(up[c]) :
        /\ up[c][i].seq >= lastSeq
        /\ \A d \in Conns : Busy(d) => up[c][i].seq >= rd[d].m.seq

\* The one reader inside ingestTraffic works on a batch that is not done yet.
BusyOK ==
    \A c \in Conns : Busy(c) =>
        /\ c = newest
        /\ rd[c].m.seq > lastSeq
        /\ rd[c].pc = "add" =>
              \A u \in rd[c].m.items : Owner[u] \in rd[c].todo => counted[u] = 0

OnceFacts ==
    /\ disk = buf
    /\ \A u \in Units : counted[u] <= 1
    /\ lastSeq <= buf.seq
    /\ FreshOK
    /\ SentOK
    /\ SentApart
    /\ SentUncounted
    /\ Ordered
    /\ Ahead
    /\ BusyOK

OnceInv == causes \cap DoubleCauses = {} => OnceFacts

-----------------------------------------------------------------------------
(* Why what is being credited is still in the buffer: as long as nothing    *)
(* went wrong the panel is at most one batch behind the agent, and only     *)
(* while that batch is in flight.                                           *)

InStep ==
    /\ \/ buf.seq = lastSeq
       \/ buf.seq = lastSeq + 1 /\ buf.flightAt
    /\ \A c \in Conns :
        /\ rd[c].pc = "ack" => rd[c].m.seq <= lastSeq
        /\ \A i \in 1..Len(down[c]) : down[c][i] <= lastSeq

StepInv == causes = {} => InStep
-----------------------------------------------------------------------------
(* Apart and Newest hold whatever goes wrong. *)

LEMMA ApartNext == TypeOK /\ Apart /\ [Next]_vars => Apart'
  <1> SUFFICES ASSUME TypeOK, Apart, [Next]_vars PROVE Apart'
    OBVIOUS
  <1>0. hand \in [Conns -> SUBSET Units]
    BY DEF TypeOK
  <1>1. ASSUME unused' = unused, xray' = xray, hand' = hand PROVE Apart'
    BY <1>1 DEF Apart
  <1>2. CASE UNCHANGED vars
    BY <1>1, <1>2 DEF vars
  <1>3. ASSUME NEW u \in Units, Transfer(u) PROVE Apart'
    BY <1>3 DEF Transfer, Apart
  <1>4. CASE XrayRestart
    BY <1>4 DEF XrayRestart, Apart
  <1>5. CASE AgentStop \/ AgentWiped
    <2>1. /\ unused' = unused /\ xray' = xray
          /\ \A c \in Conns : hand'[c] = {}
      BY <1>5 DEF AgentStop, AgentWiped, RestartWith
    <2> QED BY <2>1 DEF Apart
  <1>6. ASSUME NEW c \in Conns, QueryStats(c) PROVE Apart'
    <2>1. CASE hand' = [hand EXCEPT ![c] = hand[c] \cup xray] /\ xray' = {}
      BY <1>0, <1>6, <2>1 DEF QueryStats, Apart
    <2>2. CASE hand' = hand /\ (xray' = xray \/ xray' = {})
      BY <1>6, <2>2 DEF QueryStats, Apart
    <2> QED BY <1>6, <2>1, <2>2 DEF QueryStats
  <1>7. ASSUME NEW c \in Conns, Collect(c) PROVE Apart'
    BY <1>0, <1>7 DEF Collect, Apart
  <1>8. CASE Dial \/ PanelRestart \/ \E usr \in Users : Reassign(usr)
    BY <1>1, <1>8 DEF Dial, PanelRestart, Reassign
  <1>9. ASSUME NEW c \in Conns,
               SendBatch(c) \/ SendFails(c) \/ TickStops(c) \/ ReceiveAck(c) \/ SessionEnds(c)
        PROVE  Apart'
    BY <1>1, <1>9 DEF SendBatch, SendFails, TickStops, ReceiveAck, SessionEnds
  <1>10. ASSUME NEW c \in Conns, Panel(c) PROVE Apart'
    BY <1>1, <1>10 DEF Panel, Register, HandlerEnds, BeginIngest, LookupUsers,
                       AddTraffic, SetSeq, WriteFails, SendAck, DropAck
  <1> QED BY <1>2, <1>3, <1>4, <1>5, <1>6, <1>7, <1>8, <1>9, <1>10 DEF Next, Node

LEMMA NewestNext == TypeOK /\ Newest /\ [Next]_vars => Newest'
  <1> SUFFICES ASSUME TypeOK, Newest, [Next]_vars PROVE Newest'
    OBVIOUS
  <1> USE BoundsAssumption
  <1>0. /\ nconns \in Nat /\ sess \in Nat /\ newest \in Nat
        /\ up \in [Conns -> Seq(Msg)]
    BY DEF TypeOK
  <1>1. ASSUME sess' \in {0, sess}, nconns' = nconns, newest' = newest,
               \A c \in Conns : up'[c] = up[c] \/ up'[c] = <<>>
        PROVE  Newest'
    BY <1>1 DEF Newest
  <1>2. CASE UNCHANGED vars
    BY <1>1, <1>2 DEF vars
  <1>3. CASE \E u \in Units : Transfer(u)
    BY <1>1, <1>3 DEF Transfer, wireVars, panelVars
  <1>4. CASE XrayRestart \/ AgentStop \/ AgentWiped \/ \E usr \in Users : Reassign(usr)
    BY <1>1, <1>4 DEF XrayRestart, AgentStop, AgentWiped, RestartWith, Reassign,
                      wireVars, panelVars
  <1>5. CASE Dial
    BY <1>0, <1>5 DEF Dial, Newest, wireVars
  <1>6. CASE PanelRestart
    BY <1>1, <1>6 DEF PanelRestart
  <1>7. ASSUME NEW c \in Conns,
               QueryStats(c) \/ Collect(c) \/ TickStops(c) \/ ReceiveAck(c) \/ SessionEnds(c)
        PROVE  Newest'
    BY <1>1, <1>7 DEF QueryStats, Collect, TickStops, ReceiveAck, SessionEnds, wireVars,
                      panelVars
  <1>8. ASSUME NEW c \in Conns, SendFails(c) PROVE Newest'
    BY <1>1, <1>8 DEF SendFails, wireVars, panelVars
  <1>9. ASSUME NEW c \in Conns, SendBatch(c) PROVE Newest'
    <2>1. CASE up' = up
      BY <1>1, <1>9, <2>1 DEF SendBatch, panelVars
    <2>2. CASE up' # up
      <3>1. sess = c /\ \A d \in Conns : d # c => up'[d] = up[d]
        BY <1>0, <1>9, <2>2 DEF SendBatch
      <3> QED BY <1>0, <1>9, <3>1 DEF SendBatch, Newest, panelVars
    <2> QED BY <2>1, <2>2
  <1>10. ASSUME NEW c \in Conns, BeginIngest(c) PROVE Newest'
    <2>1. \A d \in Conns : d # c => up'[d] = up[d]
      BY <1>0, <1>10 DEF BeginIngest
    <2>2. c <= nconns
      BY <1>0, <1>10 DEF BeginIngest, Newest
    <2> QED BY <1>0, <1>10, <2>1, <2>2 DEF BeginIngest, Newest
  <1>11. ASSUME NEW c \in Conns,
                Register(c) \/ LookupUsers(c) \/ SetSeq(c) \/ WriteFails(c)
                \/ SendAck(c) \/ DropAck(c)
                \/ \E usr \in Users : AddTraffic(c, usr)
         PROVE  Newest'
    BY <1>1, <1>11 DEF Register, LookupUsers, AddTraffic, SetSeq, WriteFails, SendAck, DropAck,
                       wireVars
  <1>12. ASSUME NEW c \in Conns, HandlerEnds(c) PROVE Newest'
    BY <1>0, <1>1, <1>12 DEF HandlerEnds
  <1> QED BY <1>2, <1>3, <1>4, <1>5, <1>6, <1>7, <1>8, <1>9, <1>10, <1>11, <1>12
          DEF Next, Node, Panel

-----------------------------------------------------------------------------
(* OnceFacts, for the steps that leave the batches alone. *)

LEMMA SentMember ==
    ASSUME NEW m
    PROVE  m \in Sent <=> \/ \E c \in Conns : \E i \in 1..Len(up[c]) : m = up[c][i]
                          \/ \E c \in Conns : Busy(c) /\ m = rd[c].m
                          \/ buf.flightAt /\ m = [seq |-> buf.seq, items |-> buf.flight]
  <1>1. m \in OnWire <=> \E c \in Conns : \E i \in 1..Len(up[c]) : m = up[c][i]
    BY DEF OnWire
  <1>2. m \in Reading <=> \E c \in Conns : Busy(c) /\ m = rd[c].m
    BY DEF Reading
  <1>3. m \in Flying <=> buf.flightAt /\ m = [seq |-> buf.seq, items |-> buf.flight]
    BY DEF Flying
  <1> QED BY <1>1, <1>2, <1>3 DEF Sent

LEMMA SentMemberNext ==
    ASSUME NEW m
    PROVE  m \in Sent' <=> \/ \E c \in Conns : \E i \in 1..Len(up'[c]) : m = up'[c][i]
                           \/ \E c \in Conns : Busy(c)' /\ m = rd'[c].m
                           \/ buf'.flightAt /\ m = [seq |-> buf'.seq, items |-> buf'.flight]
  <1>1. m \in OnWire' <=> \E c \in Conns : \E i \in 1..Len(up'[c]) : m = up'[c][i]
    BY DEF OnWire
  <1>2. m \in Reading' <=> \E c \in Conns : Busy(c)' /\ m = rd'[c].m
    BY DEF Reading, Busy
  <1>3. m \in Flying' <=> buf'.flightAt /\ m = [seq |-> buf'.seq, items |-> buf'.flight]
    BY DEF Flying
  <1> QED BY <1>1, <1>2, <1>3 DEF Sent

LEMMA SentType ==
    ASSUME TypeOK, NEW m \in Sent
    PROVE  m \in Msg /\ m.seq \in Nat /\ m.items \subseteq Units
  <1>1. ASSUME NEW c \in Conns, NEW i \in 1..Len(up[c]) PROVE up[c][i] \in Msg
    BY WireTypes
  <1>2. ASSUME NEW c \in Conns PROVE rd[c].m \in Msg
    BY DEF TypeOK, Reader
  <1>3. buf.flightAt => [seq |-> buf.seq, items |-> buf.flight] \in Msg
    BY DEF TypeOK, Buffer, Msg
  <1>4. m \in Msg
    BY <1>1, <1>2, <1>3, SentMember
  <1> QED BY <1>4 DEF Msg

LEMMA OnceTypes ==
    ASSUME TypeOK
    PROVE  /\ lastSeq \in Nat /\ newest \in Nat /\ buf.seq \in Nat
           /\ buf.flightAt \in BOOLEAN /\ buf.flight \subseteq Units /\ buf.pend \subseteq Units
           /\ \A c \in Conns : /\ c \in Nat
                               /\ up[c] \in Seq(Msg) /\ Len(up[c]) \in Nat
                               /\ rd[c].m.seq \in Nat /\ rd[c].m.items \subseteq Units
           /\ \A c \in Conns : \A i \in 1..Len(up[c]) :
                up[c][i] \in Msg /\ up[c][i].seq \in Nat
           /\ \A u \in Units : counted[u] \in Nat
           /\ Volatile \subseteq Units /\ Fresh \subseteq Units
  <1>1. /\ buf.seq \in Nat /\ buf.flightAt \in BOOLEAN /\ buf.flight \subseteq Units
        /\ buf.pend \subseteq Units
    BY DEF TypeOK, Buffer
  <1>2. ASSUME NEW c \in Conns
        PROVE  /\ c \in Nat
               /\ up[c] \in Seq(Msg) /\ Len(up[c]) \in Nat
               /\ rd[c].m.seq \in Nat /\ rd[c].m.items \subseteq Units
               /\ \A i \in 1..Len(up[c]) : up[c][i] \in Msg /\ up[c][i].seq \in Nat
    <2>1. up[c] \in Seq(Msg) /\ c \in Nat
      BY BoundsAssumption DEF TypeOK
    <2>2. rd[c].m \in Msg
      BY DEF TypeOK, Reader
    <2>3. Len(up[c]) \in Nat /\ \A i \in 1..Len(up[c]) : up[c][i] \in Msg
      BY <2>1
    <2>4. \A m \in Msg : m.seq \in Nat /\ m.items \subseteq Units
      BY DEF Msg
    <2> QED BY <2>1, <2>2, <2>3, <2>4
  <1>3. \A u \in Units : counted[u] \in Nat
    BY DEF TypeOK, CountCap
  <1>4. lastSeq \in Nat /\ newest \in Nat
    BY DEF TypeOK
  <1>5. Volatile \subseteq Units
    BY HeldType DEF Volatile, TypeOK
  <1> QED BY <1>1, <1>2, <1>3, <1>4, <1>5 DEF Fresh

LEMMA Calm ==
    ASSUME TypeOK, TypeOK', OnceFacts,
           Fresh' \subseteq Fresh, \A u \in buf'.pend : u \notin Volatile',
           disk' = buf', buf'.seq = buf.seq,
           buf'.flightAt => buf.flightAt /\ buf'.flight = buf.flight,
           counted' = counted, lastSeq' = lastSeq, newest' = newest,
           \A c \in Conns : up'[c] = up[c] \/ up'[c] = <<>>,
           \A c \in Conns : \/ rd'[c] = rd[c]
                            \/ rd'[c].pc \notin {"users", "add"} /\ rd[c].pc # "add"
    PROVE  OnceFacts'
  <1>1. \A c \in Conns : Busy(c)' => Busy(c) /\ rd'[c] = rd[c]
    BY DEF Busy
  <1>2. \A c \in Conns : \A i \in 1..Len(up'[c]) : up'[c] = up[c]
    OBVIOUS
  <1>3. Sent' \subseteq Sent
    <2> SUFFICES ASSUME NEW m \in Sent' PROVE m \in Sent
      OBVIOUS
    <2>1. \/ \E c \in Conns : \E i \in 1..Len(up'[c]) : m = up'[c][i]
          \/ \E c \in Conns : Busy(c)' /\ m = rd'[c].m
          \/ buf'.flightAt /\ m = [seq |-> buf'.seq, items |-> buf'.flight]
      BY SentMemberNext
    <2> QED BY <1>1, <1>2, <2>1, SentMember
  <1>4. \A s : Adding(s) => Adding(s)'
    BY DEF Adding
  <1>5. FreshOK'
    BY DEF FreshOK, OnceFacts
  <1>6. SentOK' /\ SentApart' /\ SentUncounted'
    BY <1>3, <1>4 DEF SentOK, SentApart, SentUncounted, OnceFacts
  <1>7. Ordered'
    BY <1>2 DEF Ordered, OnceFacts
  <1>8. Ahead'
    BY <1>1, <1>2 DEF Ahead, OnceFacts
  <1>9. BusyOK'
    BY <1>1 DEF BusyOK, OnceFacts
  <1> QED BY <1>5, <1>6, <1>7, <1>8, <1>9 DEF OnceFacts

\* Units that stay where they are, or move on within what is volatile.
LEMMA CalmUnits ==
    ASSUME OnceFacts, buf' = buf, Volatile' \subseteq Volatile
    PROVE  Fresh' \subseteq Fresh /\ \A u \in buf'.pend : u \notin Volatile'
  BY DEF OnceFacts, FreshOK, Fresh

-----------------------------------------------------------------------------
(* OnceFacts, for the steps that make, send, read and credit a batch. *)

\* batch() and send: a new batch takes fresh units and the next number.
LEMMA BatchOnce ==
    ASSUME TypeOK, TypeOK', OnceFacts, Newest, NEW c \in Conns,
           buf' = Batch(buf), disk' = buf', Volatile' = Volatile,
           counted' = counted, lastSeq' = lastSeq, newest' = newest, rd' = rd,
           \/ up' = up
           \/ /\ sess = c
              /\ buf'.flightAt
              /\ up' = [up EXCEPT ![c] =
                            Append(up[c], [seq |-> buf'.seq, items |-> buf'.flight])]
    PROVE  OnceFacts'
  <1> DEFINE n == [seq |-> buf'.seq, items |-> buf'.flight]
  <1>1. \/ buf' = buf
        \/ /\ buf'.seq = buf.seq + 1
           /\ buf'.flight = buf.pend
           /\ buf'.pend = {}
    BY DEF Batch
  <1>2. up \in [Conns -> Seq(Msg)] /\ n \in Msg
    BY DEF TypeOK, Buffer, Msg
  <1>3. ASSUME NEW d \in Conns, NEW i \in 1..Len(up'[d])
        PROVE  \/ i \in 1..Len(up[d]) /\ up'[d][i] = up[d][i]
               \/ d = c /\ sess = c /\ buf'.flightAt /\ i = Len(up[c]) + 1 /\ up'[d][i] = n
    <2> HIDE DEF n
    <2>1. CASE up' = up
      BY <2>1
    <2>2. CASE sess = c /\ buf'.flightAt /\ up' = [up EXCEPT ![c] = Append(up[c], n)]
      <3>1. CASE d = c
        <4>1. up'[c] = Append(up[c], n) /\ up[c] \in Seq(Msg)
          BY <1>2, <2>2
        <4> QED BY <1>2, <2>2, <3>1, <4>1
      <3>2. CASE d # c
        BY <1>2, <2>2, <3>2
      <3> QED BY <3>1, <3>2
    <2> QED BY <2>1, <2>2 DEF n
  <1>4. ASSUME NEW m \in Sent' PROVE m \in Sent \/ (m = n /\ buf'.flightAt)
    <2>1. \/ \E d \in Conns : \E i \in 1..Len(up'[d]) : m = up'[d][i]
          \/ \E d \in Conns : Busy(d)' /\ m = rd'[d].m
          \/ buf'.flightAt /\ m = n
      BY SentMemberNext
    <2>2. CASE \E d \in Conns : \E i \in 1..Len(up'[d]) : m = up'[d][i]
      BY <1>3, <2>2, SentMember
    <2>3. CASE \E d \in Conns : Busy(d)' /\ m = rd'[d].m
      BY <2>3, SentMember DEF Busy
    <2> QED BY <2>1, <2>2, <2>3
  <1>5. Fresh' \subseteq Fresh /\ \A u \in buf'.pend : u \notin Volatile'
    BY <1>1 DEF Fresh, OnceFacts, FreshOK
  <1>6. buf.seq \in Nat /\ buf'.seq \in Nat /\ buf'.seq >= buf.seq
        /\ lastSeq \in Nat /\ \A d \in Conns : rd[d].m.seq \in Nat /\ d \in Nat
    <2>1. /\ buf.seq \in Nat /\ lastSeq \in Nat
          /\ \A d \in Conns : rd[d].m.seq \in Nat /\ d \in Nat
      BY OnceTypes
    <2>2. buf' = buf \/ buf'.seq = buf.seq + 1
      BY <1>1
    <2> QED BY <2>1, <2>2
  <1>7. FreshOK'
    BY <1>5 DEF FreshOK, OnceFacts
  <1>8. SentOK' /\ SentApart' /\ SentUncounted'
    <2>0. \A s : Adding(s)' <=> Adding(s)
      BY DEF Adding
    <2>1. \A m \in Sent : m.seq \in 1..buf.seq /\ m.seq \in 1..buf'.seq
      BY <1>6 DEF OnceFacts, SentOK
    <2>2. CASE buf' = buf
      <3>1. Sent' \subseteq Sent
        BY <1>4, <2>2, SentMember
      <3> QED BY <1>5, <2>0, <2>2, <3>1
              DEF SentOK, SentApart, SentUncounted, OnceFacts
    <2>3. CASE /\ buf'.seq = buf.seq + 1
               /\ buf'.flight = buf.pend
               /\ buf'.pend = {}
      <3>1. n.seq = buf.seq + 1 /\ n.items = buf.pend
        BY <2>3
      <3> HIDE DEF n
      <3>2. \A u \in n.items : u \notin Fresh' /\ u \in Fresh /\ counted[u] = 0
        BY <2>3, <3>1 DEF Fresh, OnceFacts, FreshOK
      <3>3. SentOK'
        BY <1>4, <1>5, <1>6, <2>1, <2>3, <3>1, <3>2 DEF SentOK, OnceFacts
      <3>4. SentApart'
        BY <1>4, <3>2 DEF SentApart, SentOK, OnceFacts
      <3>5. SentUncounted'
        BY <1>4, <2>0, <3>2 DEF SentUncounted, OnceFacts
      <3> QED BY <3>3, <3>4, <3>5
    <2> QED BY <1>1, <2>2, <2>3
  <1>9. \A d \in Conns : \A i \in 1..Len(up[d]) :
            up[d][i].seq \in Nat /\ up[d][i].seq <= buf.seq /\ up[d][i].seq <= buf'.seq
    <2> SUFFICES ASSUME NEW d \in Conns, NEW i \in 1..Len(up[d])
                 PROVE  up[d][i].seq \in 1..buf.seq
      BY <1>6
    <2>1. up[d][i] \in Sent
      BY SentMember
    <2> QED BY <2>1 DEF OnceFacts, SentOK
  <1>10. Ordered'
    <2> SUFFICES ASSUME NEW d \in Conns, NEW e \in Conns,
                        NEW i \in 1..Len(up'[d]), NEW j \in 1..Len(up'[e]),
                        d < e \/ (d = e /\ i < j)
                 PROVE  up'[d][i].seq <= up'[e][j].seq
      BY DEF Ordered
    <2>1. n.seq = buf'.seq
      OBVIOUS
    <2> HIDE DEF n
    <2>2. CASE j \in 1..Len(up[e]) /\ up'[e][j] = up[e][j]
      <3>1. ~ (d = c /\ sess = c /\ i = Len(up[c]) + 1)
        BY <1>6, <2>2, OnceTypes DEF Newest, TypeOK
      <3> QED BY <1>3, <2>2, <3>1 DEF OnceFacts, Ordered
    <2>3. CASE e = c /\ sess = c /\ buf'.flightAt /\ j = Len(up[c]) + 1 /\ up'[e][j] = n
      <3>1. CASE i \in 1..Len(up[d]) /\ up'[d][i] = up[d][i]
        BY <1>9, <2>1, <2>3, <3>1
      <3>2. CASE d = c /\ i = Len(up[c]) + 1
        BY <1>6, <2>3, <3>2, OnceTypes
      <3> QED BY <1>3, <3>1, <3>2
    <2> QED BY <1>3, <2>2, <2>3
  <1>11. Ahead'
    <2>1. ASSUME NEW d \in Conns, Busy(d) PROVE rd[d].m.seq <= buf'.seq
      <3>1. rd[d].m \in Sent
        BY <2>1, SentMember
      <3>2. rd[d].m.seq \in 1..buf.seq
        BY <3>1 DEF OnceFacts, SentOK
      <3> QED BY <1>6, <3>2
    <2>2. lastSeq <= buf'.seq
      BY <1>6 DEF OnceFacts
    <2>3. n.seq = buf'.seq
      OBVIOUS
    <2> HIDE DEF n
    <2> QED BY <1>3, <2>1, <2>2, <2>3 DEF OnceFacts, Ahead, Busy
  <1>12. BusyOK'
    BY DEF BusyOK, OnceFacts, Busy
  <1>13. disk' = buf' /\ lastSeq' <= buf'.seq
    BY <1>6 DEF OnceFacts
  <1> QED BY <1>7, <1>8, <1>10, <1>11, <1>12, <1>13 DEF OnceFacts

\* NodeTrafficSeq, without an overlap: the reader is the newest and the only one,
\* and what is left on the wire is not behind what it takes.
LEMMA IngestOnce ==
    ASSUME TypeOK, TypeOK', OnceFacts, NEW c \in Conns, BeginIngest(c), ~ Overlaps(c)
    PROVE  OnceFacts'
  <1> DEFINE m == Head(up[c])
  <1>1. up[c] \in Seq(Msg) /\ up[c] # <<>> /\ m = up[c][1] /\ 1 \in 1..Len(up[c])
    BY OnceTypes DEF BeginIngest
  <1>2. c >= newest /\ newest' = c
    BY OnceTypes DEF BeginIngest, Overlaps
  <1>3. \A d \in Conns : ~ Busy(d)
    BY DEF Busy, Overlaps, BeginIngest
  <1>4. m \in Sent /\ m.seq \in 1..buf.seq /\ m.seq >= lastSeq
    <2>1. m \in Sent
      BY <1>1, SentMember
    <2>2. m.seq >= lastSeq
      BY <1>1, <1>2 DEF OnceFacts, Ahead
    <2> QED BY <2>1, <2>2 DEF OnceFacts, SentOK
  <1>5. /\ \A d \in Conns : d # c => rd'[d] = rd[d]
        /\ rd'[c].m = m
        /\ \/ rd'[c].pc = "ack"
           \/ rd'[c].pc = "users" /\ ~ Duplicate(m.seq)
    <2>1. rd \in [Conns -> Reader]
      BY DEF TypeOK
    <2>2. \/ rd' = [rd EXCEPT ![c] = ReaderAt("ack", m, {})]
          \/ rd' = [rd EXCEPT ![c] = ReaderAt("users", m, {})] /\ ~ Duplicate(m.seq)
      BY DEF BeginIngest
    <2>3. ASSUME NEW pc, rd' = [rd EXCEPT ![c] = ReaderAt(pc, m, {})]
          PROVE  /\ \A d \in Conns : d # c => rd'[d] = rd[d]
                 /\ rd'[c].m = m /\ rd'[c].pc = pc
      <3>1. rd'[c] = ReaderAt(pc, m, {})
        BY <2>1, <2>3
      <3> QED BY <2>1, <2>3, <3>1 DEF ReaderAt
    <2> QED BY <2>2, <2>3
  <1>6. \A d \in Conns : Busy(d)' => d = c /\ ~ Duplicate(m.seq)
    BY <1>3, <1>5 DEF Busy
  <1>7. ASSUME NEW d \in Conns, NEW i \in 1..Len(up'[d])
        PROVE  \/ d # c /\ i \in 1..Len(up[d]) /\ up'[d][i] = up[d][i]
               \/ d = c /\ i + 1 \in 1..Len(up[c]) /\ up'[c][i] = up[c][i + 1]
    <2>1. up' = [up EXCEPT ![c] = Tail(up[c])] /\ up \in [Conns -> Seq(Msg)]
      BY DEF BeginIngest, TypeOK
    <2>2. CASE d = c
      BY <1>1, <2>1, <2>2
    <2>3. CASE d # c
      BY <2>1, <2>3
    <2> QED BY <2>2, <2>3
  <1>8. Sent' \subseteq Sent
    <2> SUFFICES ASSUME NEW n \in Sent' PROVE n \in Sent
      OBVIOUS
    <2>1. \/ \E d \in Conns : \E i \in 1..Len(up'[d]) : n = up'[d][i]
          \/ \E d \in Conns : Busy(d)' /\ n = rd'[d].m
          \/ buf'.flightAt /\ n = [seq |-> buf'.seq, items |-> buf'.flight]
      BY SentMemberNext
    <2>2. CASE \E d \in Conns : \E i \in 1..Len(up'[d]) : n = up'[d][i]
      BY <1>7, <2>2, SentMember
    <2>3. CASE \E d \in Conns : Busy(d)' /\ n = rd'[d].m
      BY <1>4, <1>5, <1>6, <2>3
    <2>4. CASE buf'.flightAt /\ n = [seq |-> buf'.seq, items |-> buf'.flight]
      BY <2>4, SentMember DEF BeginIngest, bufVars
    <2> QED BY <2>1, <2>2, <2>3, <2>4
  <1>9. /\ Fresh' = Fresh /\ Volatile' = Volatile
        /\ UNCHANGED <<buf, disk, lastSeq, counted>>
    BY DEF BeginIngest, bufVars, dbVars, Fresh, Volatile, InHand
  <1>10. FreshOK'
    BY <1>9 DEF FreshOK, OnceFacts
  <1>11. SentOK' /\ SentApart' /\ SentUncounted'
    <2>1. \A s : ~ Adding(s)
      BY <1>3 DEF Adding, Busy
    <2> QED BY <1>8, <1>9, <2>1 DEF SentOK, SentApart, SentUncounted, OnceFacts
  <1>12. Ordered'
    <2> SUFFICES ASSUME NEW d \in Conns, NEW e \in Conns,
                        NEW i \in 1..Len(up'[d]), NEW j \in 1..Len(up'[e]),
                        d < e \/ (d = e /\ i < j)
                 PROVE  up'[d][i].seq <= up'[e][j].seq
      BY DEF Ordered
    <2>1. PICK k \in 1..Len(up[d]) : up'[d][i] = up[d][k] /\ k = IF d = c THEN i + 1 ELSE i
      BY <1>7
    <2>2. PICK l \in 1..Len(up[e]) : up'[e][j] = up[e][l] /\ l = IF e = c THEN j + 1 ELSE j
      BY <1>7
    <2>3. d < e \/ (d = e /\ k < l)
      BY <2>1, <2>2
    <2> QED BY <2>1, <2>2, <2>3 DEF OnceFacts, Ordered
  <1>13. Ahead'
    <2> SUFFICES ASSUME NEW d \in Conns, d >= c, NEW i \in 1..Len(up'[d])
                 PROVE  up'[d][i].seq >= lastSeq /\ up'[d][i].seq >= m.seq
      BY <1>2, <1>5, <1>6, <1>9 DEF Ahead
    <2>1. PICK k \in 1..Len(up[d]) : up'[d][i] = up[d][k] /\ (d = c => k > 1)
      BY <1>7
    <2>2. d >= newest
      BY <1>2, OnceTypes
    <2>3. c < d \/ (c = d /\ 1 < k)
      BY <2>1, OnceTypes
    <2>4. up[c][1].seq <= up[d][k].seq /\ up[d][k].seq >= lastSeq
      BY <1>1, <2>2, <2>3 DEF OnceFacts, Ordered, Ahead
    <2>5. up[c][1].seq \in Nat /\ up[d][k].seq \in Nat
      BY <1>1, OnceTypes
    <2> QED BY <1>1, <2>1, <2>4, <2>5
  <1>14. BusyOK'
    <2>1. ASSUME NEW d \in Conns, Busy(d)'
          PROVE  d = c /\ rd'[d].pc = "users" /\ rd'[d].m.seq > lastSeq
      BY <1>4, <1>5, <1>6, <2>1, OnceTypes DEF Busy, Duplicate
    <2> QED BY <1>2, <1>9, <2>1 DEF BusyOK
  <1> QED BY <1>9, <1>10, <1>11, <1>12, <1>13, <1>14 DEF OnceFacts

\* UsersForNode: the batch becomes the one being credited, and none of it is yet.
LEMMA LookupOnce ==
    ASSUME TypeOK, TypeOK', OnceFacts, NEW c \in Conns, LookupUsers(c)
    PROVE  OnceFacts'
  <1>1. Busy(c) /\ c = newest /\ rd[c].m.seq > lastSeq /\ rd[c].pc = "users"
    BY DEF LookupUsers, Busy, OnceFacts, BusyOK
  <1>2. /\ \A d \in Conns : d # c => rd'[d] = rd[d]
        /\ rd'[c].m = rd[c].m
        /\ rd'[c].pc \in {"add", "ack"}
    <2>1. rd \in [Conns -> Reader]
      BY DEF TypeOK
    <2>2. ASSUME NEW pc, NEW todo, rd' = [rd EXCEPT ![c] = ReaderAt(pc, rd[c].m, todo)]
          PROVE  /\ \A d \in Conns : d # c => rd'[d] = rd[d]
                 /\ rd'[c].m = rd[c].m /\ rd'[c].pc = pc
      <3>1. rd'[c] = ReaderAt(pc, rd[c].m, todo)
        BY <2>1, <2>2
      <3> QED BY <2>1, <2>2, <3>1 DEF ReaderAt
    <2> QED BY <2>2 DEF LookupUsers
  <1>3. /\ Fresh' = Fresh /\ Volatile' = Volatile
        /\ UNCHANGED <<buf, disk, up, lastSeq, counted, newest>>
    BY DEF LookupUsers, bufVars, wireVars, dbVars, Fresh, Volatile, InHand
  <1>4. \A d \in Conns : Busy(d)' => Busy(d) /\ rd'[d].m = rd[d].m
    BY <1>1, <1>2 DEF Busy
  <1>5. Sent' \subseteq Sent
    <2> SUFFICES ASSUME NEW n \in Sent' PROVE n \in Sent
      OBVIOUS
    <2>1. \/ \E d \in Conns : \E i \in 1..Len(up'[d]) : n = up'[d][i]
          \/ \E d \in Conns : Busy(d)' /\ n = rd'[d].m
          \/ buf'.flightAt /\ n = [seq |-> buf'.seq, items |-> buf'.flight]
      BY SentMemberNext
    <2> QED BY <1>3, <1>4, <2>1, SentMember
  <1>6. \A s : Adding(s) => Adding(s)'
    BY <1>1, <1>2 DEF Adding
  <1>7. FreshOK' /\ SentOK' /\ SentApart' /\ SentUncounted'
    BY <1>3, <1>5, <1>6 DEF FreshOK, SentOK, SentApart, SentUncounted, OnceFacts
  <1>8. Ordered' /\ Ahead'
    BY <1>3, <1>4 DEF Ordered, Ahead, OnceFacts
  <1>9. BusyOK'
    <2>1. \A u \in rd[c].m.items : counted[u] = 0
      <3>1. rd[c].m \in Sent
        BY <1>1, SentMember
      <3>2. ~ Adding(rd[c].m.seq)
        BY <1>1 DEF Adding, Busy, OnceFacts, BusyOK
      <3> QED BY <1>1, <3>1, <3>2 DEF OnceFacts, SentUncounted
    <2>2. \A d \in Conns : Busy(d) => d = c
      BY <1>1 DEF OnceFacts, BusyOK
    <2> QED BY <1>1, <1>2, <1>3, <1>4, <2>1, <2>2 DEF BusyOK
  <1> QED BY <1>3, <1>7, <1>8, <1>9 DEF OnceFacts

\* AddTraffic: only units of the batch that are still to be credited are touched.
LEMMA AddOnce ==
    ASSUME TypeOK, TypeOK', OnceFacts, NEW c \in Conns, NEW usr \in Users,
           AddTraffic(c, usr)
    PROVE  OnceFacts'
  <1>1. /\ Busy(c) /\ rd[c].pc = "add" /\ usr \in rd[c].todo
        /\ \A u \in rd[c].m.items : Owner[u] \in rd[c].todo => counted[u] = 0
    BY DEF AddTraffic, Busy, OnceFacts, BusyOK
  <1>2. /\ \A d \in Conns : d # c => rd'[d] = rd[d]
        /\ rd'[c].m = rd[c].m
        /\ rd'[c].pc = "add"
        /\ rd'[c].todo = rd[c].todo \ {usr}
    <2>1. rd'[c] = ReaderAt("add", rd[c].m, rd[c].todo \ {usr})
          /\ \A d \in Conns : d # c => rd'[d] = rd[d]
      BY DEF AddTraffic, TypeOK
    <2> QED BY <2>1 DEF ReaderAt
  <1>3. /\ Fresh' = Fresh /\ Volatile' = Volatile
        /\ UNCHANGED <<buf, disk, up, lastSeq, newest>>
    BY DEF AddTraffic, bufVars, wireVars, Fresh, Volatile, InHand
  <1>4. \A d \in Conns : Busy(d)' <=> Busy(d)
    BY <1>1, <1>2 DEF Busy
  <1>5. \A d \in Conns : rd'[d].m = rd[d].m /\ rd'[d].pc = rd[d].pc
    BY <1>1, <1>2
  <1>6. Sent' \subseteq Sent
    <2> SUFFICES ASSUME NEW n \in Sent' PROVE n \in Sent
      OBVIOUS
    <2>1. \/ \E d \in Conns : \E i \in 1..Len(up'[d]) : n = up'[d][i]
          \/ \E d \in Conns : Busy(d)' /\ n = rd'[d].m
          \/ buf'.flightAt /\ n = [seq |-> buf'.seq, items |-> buf'.flight]
      BY SentMemberNext
    <2> QED BY <1>3, <1>4, <1>5, <2>1, SentMember
  <1>7. \A s : Adding(s)' <=> Adding(s)
    BY <1>5 DEF Adding
  <1>8. rd[c].m \in Sent
    BY <1>1, SentMember
  <1>9. ASSUME NEW u \in Units
        PROVE  /\ counted'[u] <= 1
               /\ counted'[u] = counted[u]
                  \/ (u \in rd[c].m.items /\ Owner[u] = usr)
    <2>1. counted[u] \in Nat /\ counted[u] <= 1
      BY OnceTypes DEF OnceFacts
    <2>2. \/ counted' = counted
          \/ counted'[u] = IF u \in rd[c].m.items /\ Owner[u] = usr THEN Bump(counted[u])
                                                                   ELSE counted[u]
      BY DEF AddTraffic
    <2> QED BY <1>1, <2>1, <2>2 DEF Bump, CountCap
  <1>10. FreshOK'
    <2>1. \A u \in rd[c].m.items : u \notin Fresh
      BY <1>8 DEF OnceFacts, SentOK
    <2>2. \A u \in Fresh : u \in Units
      BY OnceTypes
    <2> QED BY <1>3, <1>9, <2>1, <2>2 DEF FreshOK, OnceFacts
  <1>11. SentOK' /\ SentApart'
    BY <1>3, <1>6 DEF SentOK, SentApart, OnceFacts
  <1>12. SentUncounted'
    <2> SUFFICES ASSUME NEW m \in Sent, m.seq > lastSeq, ~ Adding(m.seq), NEW u \in m.items
                 PROVE  counted'[u] = 0
      BY <1>3, <1>6, <1>7 DEF SentUncounted
    <2>1. counted[u] = 0 /\ u \in Units
      BY SentType DEF OnceFacts, SentUncounted
    <2>2. rd[c].m.seq # m.seq
      BY <1>1 DEF Adding
    <2>3. u \notin rd[c].m.items
      BY <1>8, <2>2 DEF OnceFacts, SentApart
    <2> QED BY <1>9, <2>1, <2>3
  <1>13. Ordered' /\ Ahead'
    BY <1>3, <1>4, <1>5 DEF Ordered, Ahead, OnceFacts
  <1>14. BusyOK'
    <2> SUFFICES ASSUME NEW d \in Conns, Busy(d)
                 PROVE  /\ d = newest
                        /\ rd[d].m.seq > lastSeq
                        /\ rd[d].pc = "add" =>
                             \A u \in rd[d].m.items : Owner[u] \in rd'[d].todo => counted'[u] = 0
      BY <1>3, <1>4, <1>5 DEF BusyOK
    <2>1. d = newest /\ rd[d].m.seq > lastSeq /\ d = c
      BY <1>1 DEF OnceFacts, BusyOK
    <2>2. ASSUME NEW u \in rd[c].m.items, Owner[u] \in rd[c].todo \ {usr}
          PROVE  counted'[u] = 0
      <3>1. u \in Units
        BY OnceTypes
      <3> QED BY <1>1, <1>9, <2>2, <3>1
    <2> QED BY <1>2, <2>1, <2>2
  <1> QED BY <1>3, <1>9, <1>10, <1>11, <1>12, <1>13, <1>14 DEF OnceFacts

\* SetNodeTrafficSeq: from now on a repetition of this batch is recognised.
LEMMA SetSeqOnce ==
    ASSUME TypeOK, TypeOK', OnceFacts, NEW c \in Conns, SetSeq(c),
           lastSeq' = IF rd[c].m.seq # 0 THEN rd[c].m.seq ELSE lastSeq
    PROVE  OnceFacts'
  <1>1. Busy(c) /\ rd[c].pc = "add" /\ c = newest /\ rd[c].m.seq > lastSeq
    BY DEF SetSeq, Busy, OnceFacts, BusyOK
  <1>2. /\ lastSeq \in Nat /\ buf.seq \in Nat /\ rd[c].m.seq \in Nat
        /\ lastSeq' = rd[c].m.seq
    BY <1>1, OnceTypes
  <1>3. \A d \in Conns : d # c => rd'[d] = rd[d] /\ ~ Busy(d)
    BY <1>1 DEF SetSeq, TypeOK, OnceFacts, BusyOK
  <1>4. rd'[c].pc = "ack"
    <2>1. rd'[c] = ReaderAt("ack", rd[c].m, {})
      BY DEF SetSeq, TypeOK
    <2> QED BY <2>1 DEF ReaderAt
  <1>5. /\ Fresh' = Fresh /\ Volatile' = Volatile
        /\ UNCHANGED <<buf, disk, up, counted, newest>>
    BY DEF SetSeq, bufVars, wireVars, Fresh, Volatile, InHand
  <1>6. \A d \in Conns : ~ Busy(d)'
    BY <1>3, <1>4 DEF Busy
  <1>7. Sent' \subseteq Sent
    <2> SUFFICES ASSUME NEW n \in Sent' PROVE n \in Sent
      OBVIOUS
    <2>1. \/ \E d \in Conns : \E i \in 1..Len(up'[d]) : n = up'[d][i]
          \/ \E d \in Conns : Busy(d)' /\ n = rd'[d].m
          \/ buf'.flightAt /\ n = [seq |-> buf'.seq, items |-> buf'.flight]
      BY SentMemberNext
    <2> QED BY <1>5, <1>6, <2>1, SentMember
  <1>8. FreshOK' /\ SentOK' /\ SentApart'
    BY <1>5, <1>7 DEF FreshOK, SentOK, SentApart, OnceFacts
  <1>9. SentUncounted'
    <2> SUFFICES ASSUME NEW m \in Sent, m.seq > rd[c].m.seq
                 PROVE  \A u \in m.items : counted[u] = 0
      BY <1>2, <1>5, <1>7 DEF SentUncounted
    <2>1. m.seq > lastSeq
      BY <1>1, <1>2, SentType
    <2>2. ~ Adding(m.seq)
      BY <1>2, <1>3, SentType DEF Adding, Busy
    <2> QED BY <2>1, <2>2 DEF OnceFacts, SentUncounted
  <1>10. Ordered'
    BY <1>5 DEF OnceFacts, Ordered
  <1>11. Ahead' /\ BusyOK'
    BY <1>1, <1>2, <1>5, <1>6 DEF OnceFacts, Ahead, BusyOK
  <1>12. lastSeq' <= buf'.seq
    <2>1. rd[c].m \in Sent
      BY <1>1, SentMember
    <2>2. rd[c].m.seq \in 1..buf.seq
      BY <2>1 DEF OnceFacts, SentOK
    <2> QED BY <1>2, <1>5, <2>2
  <1> QED BY <1>5, <1>8, <1>9, <1>10, <1>11, <1>12 DEF OnceFacts

-----------------------------------------------------------------------------
(* Every step keeps OnceInv. *)

\* What went wrong once is never taken back.
LEMMA CausesGrow == [Next]_vars => causes \subseteq causes'
  <1> SUFFICES ASSUME [Next]_vars PROVE causes \subseteq causes'
    OBVIOUS
  <1>1. CASE UNCHANGED vars
    BY <1>1 DEF vars
  <1>2. CASE \/ \E u \in Units : Transfer(u)
             \/ XrayRestart \/ Dial \/ AgentStop \/ AgentWiped \/ PanelRestart
             \/ \E usr \in Users : Reassign(usr)
    BY <1>2 DEF Transfer, XrayRestart, Dial, AgentStop, AgentWiped, PanelRestart, Reassign
  <1>3. ASSUME NEW c \in Conns, Node(c) PROVE causes \subseteq causes'
    BY <1>3 DEF Node, QueryStats, Collect, CollectInto, SendBatch, SendFails, TakeBatch,
                Save, TickStops, ReceiveAck, SessionEnds
  <1>4. ASSUME NEW c \in Conns, Panel(c) PROVE causes \subseteq causes'
    <2>1. CASE Register(c) \/ HandlerEnds(c) \/ WriteFails(c) \/ SendAck(c) \/ DropAck(c)
      BY <2>1 DEF Register, HandlerEnds, WriteFails, SendAck, DropAck
    <2>2. CASE BeginIngest(c)
      BY <2>2 DEF BeginIngest
    <2>3. CASE LookupUsers(c) \/ SetSeq(c) \/ \E usr \in Users : AddTraffic(c, usr)
      BY <2>3 DEF LookupUsers, SetSeq, AddTraffic
    <2> QED BY <1>4, <2>1, <2>2, <2>3 DEF Panel
  <1> QED BY <1>1, <1>2, <1>3, <1>4 DEF Next

LEMMA IdleNotBusy ==
    ASSUME NEW pc \in {"none", "dialed", "read", "off"}
    PROVE  IdleReader(pc).pc \notin {"users", "add"}
  BY DEF IdleReader, ReaderAt

LEMMA OnceNext ==
    TypeOK /\ TypeOK' /\ Apart /\ Newest /\ OnceInv /\ [Next]_vars => OnceInv'
  <1> SUFFICES ASSUME TypeOK, TypeOK', Apart, Newest, OnceInv, [Next]_vars,
                      causes' \cap DoubleCauses = {}
               PROVE  OnceFacts'
    BY DEF OnceInv
  <1>0. OnceFacts
    BY CausesGrow DEF OnceInv
  <1>a. rd \in [Conns -> Reader] /\ up \in [Conns -> Seq(Msg)] /\ hand \in [Conns -> SUBSET Units]
    BY DEF TypeOK
  <1>b. ASSUME Volatile' \subseteq Volatile,
               UNCHANGED <<buf, disk, counted, lastSeq, newest>>,
               \A c \in Conns : up'[c] = up[c] \/ up'[c] = <<>>,
               \A c \in Conns : \/ rd'[c] = rd[c]
                                \/ rd'[c].pc \notin {"users", "add"} /\ rd[c].pc # "add"
        PROVE  OnceFacts'
    <2>1. disk' = buf' /\ buf' = buf
      BY <1>0, <1>b DEF OnceFacts
    <2> QED BY <1>0, <1>b, <2>1, Calm, CalmUnits
  <1>c. ASSUME unused' = unused, xray' = xray, hand' = hand PROVE Volatile' = Volatile
    BY <1>c DEF Volatile, InHand
  <1>1. CASE UNCHANGED vars
    BY <1>1, <1>b, <1>c DEF vars
  <1>2. ASSUME NEW u \in Units, Transfer(u) PROVE OnceFacts'
    <2>1. Volatile' \subseteq Volatile
      BY <1>2 DEF Transfer, Volatile, InHand
    <2> QED BY <1>2, <1>b, <2>1 DEF Transfer, bufVars, wireVars, panelVars, dbVars
  <1>3. CASE XrayRestart
    <2>1. Volatile' \subseteq Volatile
      BY <1>3 DEF XrayRestart, Volatile, InHand
    <2> QED BY <1>3, <1>b, <2>1 DEF XrayRestart, bufVars, wireVars, panelVars, dbVars
  <1>4. CASE Dial
    <2>1. nconns' \in Conns /\ rd' = [rd EXCEPT ![nconns'] = IdleReader("dialed")]
      BY <1>4, BoundsAssumption DEF Dial, TypeOK
    <2>2. rd[nconns'].pc # "add"
      <3>1. nconns' > newest
        BY <1>4 DEF Dial, Newest, TypeOK
      <3> QED BY <1>0, <2>1, <3>1, OnceTypes DEF OnceFacts, BusyOK, Busy
    <2>3. \A c \in Conns : \/ rd'[c] = rd[c]
                           \/ rd'[c].pc \notin {"users", "add"} /\ rd[c].pc # "add"
      BY <1>a, <2>1, <2>2, IdleNotBusy
    <2> QED BY <1>4, <1>b, <1>c, <2>3 DEF Dial, bufVars, wireVars, dbVars
  <1>5. CASE AgentStop
    <2>1. Volatile' \subseteq Volatile
      BY <1>5 DEF AgentStop, RestartWith, Volatile, InHand
    <2>2. buf' = buf /\ disk' = disk
      BY <1>0, <1>5 DEF AgentStop, RestartWith, OnceFacts
    <2> QED BY <1>5, <1>b, <2>1, <2>2 DEF AgentStop, RestartWith, panelVars, dbVars
  <1>6. CASE AgentWiped
    BY <1>6 DEF AgentWiped, DoubleCauses
  <1>7. CASE PanelRestart
    <2>1. \A c \in Conns : rd[c].pc # "add"
      BY <1>7 DEF PanelRestart, DoubleCauses
    <2>2. \A c \in Conns : rd'[c].pc \notin {"users", "add"}
      BY <1>7, IdleNotBusy DEF PanelRestart
    <2> QED BY <1>7, <1>b, <1>c, <2>1, <2>2 DEF PanelRestart, bufVars, dbVars
  <1>8. ASSUME NEW usr \in Users, Reassign(usr) PROVE OnceFacts'
    BY <1>8, <1>b, <1>c DEF Reassign, bufVars, wireVars, panelVars
  <1>9. ASSUME NEW c \in Conns, QueryStats(c) PROVE OnceFacts'
    <2>1. CASE hand' = [hand EXCEPT ![c] = hand[c] \cup xray] /\ xray' = {}
      <3>1. \A d \in Conns : hand'[d] \subseteq hand[d] \cup xray
        BY <1>a, <2>1
      <3>2. unused' = unused
        BY <1>9 DEF QueryStats
      <3> QED BY <2>1, <3>1, <3>2, <1>9, <1>b
              DEF QueryStats, Volatile, InHand, bufVars, wireVars, panelVars, dbVars
    <2>2. CASE hand' = hand /\ (xray' = xray \/ xray' = {})
      <3>1. Volatile' \subseteq Volatile
        BY <1>9, <2>2 DEF QueryStats, Volatile, InHand
      <3> QED BY <3>1, <1>9, <1>b DEF QueryStats, bufVars, wireVars, panelVars, dbVars
    <2> QED BY <1>9, <2>1, <2>2 DEF QueryStats
  <1>10. ASSUME NEW c \in Conns, Collect(c) PROVE OnceFacts'
    <2>1. /\ buf'.seq = buf.seq /\ buf'.flightAt = buf.flightAt /\ buf'.flight = buf.flight
          /\ buf'.pend = buf.pend \cup hand[c]
          /\ disk' = buf'
      <3>1. CASE hand[c] = {}
        BY <1>0, <1>10, <3>1 DEF Collect, CollectInto, OnceFacts
      <3>2. CASE hand[c] # {}
        BY <1>10, <3>2 DEF Collect, CollectInto, Save, Merge, DoubleCauses
      <3> QED BY <3>1, <3>2
    <2>2. /\ \A d \in Conns : hand'[d] = IF d = c THEN {} ELSE hand[d]
          /\ unused' = unused /\ xray' = xray
      BY <1>10, <1>a DEF Collect
    <2>3. \A u \in hand[c] : u \in Volatile /\ u \notin Volatile'
      BY <2>2 DEF Volatile, InHand, Apart
    <2>4. Volatile' \subseteq Volatile
      BY <2>2 DEF Volatile, InHand
    <2>5. Fresh' \subseteq Fresh
      BY <2>1, <2>3, <2>4 DEF Fresh
    <2>6. \A u \in buf'.pend : u \notin Volatile'
      BY <1>0, <2>1, <2>3, <2>4 DEF OnceFacts, FreshOK
    <2> QED BY <1>0, <1>10, <2>1, <2>5, <2>6, Calm
            DEF Collect, wireVars, panelVars, dbVars
  <1>11. ASSUME NEW c \in Conns, SendBatch(c) PROVE OnceFacts'
    <2>1. buf' = Batch(buf) /\ disk' = buf'
      BY <1>0, <1>11 DEF SendBatch, TakeBatch, Save, OnceFacts, DoubleCauses
    <2>2. buf'.flight # {} => buf'.flightAt
      BY DEF TypeOK, Buffer
    <2>3. \/ up' = up
          \/ /\ sess = c
             /\ buf'.flightAt
             /\ up' = [up EXCEPT ![c] =
                           Append(up[c], [seq |-> buf'.seq, items |-> buf'.flight])]
      BY <1>11, <2>1, <2>2 DEF SendBatch
    <2> QED BY <1>0, <1>11, <1>c, <2>1, <2>3, BatchOnce DEF SendBatch, panelVars, dbVars
  <1>12. ASSUME NEW c \in Conns, SendFails(c) PROVE OnceFacts'
    <2>1. buf' = Batch(buf) /\ disk' = buf'
      BY <1>0, <1>12 DEF SendFails, TakeBatch, Save, OnceFacts, DoubleCauses
    <2> QED BY <1>0, <1>12, <1>c, <2>1, BatchOnce DEF SendFails, wireVars, panelVars, dbVars
  <1>13. ASSUME NEW c \in Conns, TickStops(c) PROVE OnceFacts'
    BY <1>13, <1>b, <1>c DEF TickStops, bufVars, wireVars, panelVars, dbVars
  <1>14. ASSUME NEW c \in Conns, ReceiveAck(c) PROVE OnceFacts'
    <2>1. buf' = Acked(buf, Head(down[c])) /\ disk' = buf'
      BY <1>0, <1>14 DEF ReceiveAck, Save, OnceFacts, DoubleCauses
    <2>2. /\ buf'.seq = buf.seq /\ buf'.pend = buf.pend
          /\ buf'.flightAt => buf.flightAt /\ buf'.flight = buf.flight
      BY <2>1 DEF Acked, Cleared
    <2>3. Volatile' = Volatile
      BY <1>14, <1>c DEF ReceiveAck
    <2>4. Fresh' \subseteq Fresh /\ \A u \in buf'.pend : u \notin Volatile'
      BY <1>0, <2>2, <2>3 DEF Fresh, OnceFacts, FreshOK
    <2> QED BY <1>0, <1>14, <2>1, <2>2, <2>4, Calm DEF ReceiveAck, panelVars, dbVars
  <1>15. ASSUME NEW c \in Conns, SessionEnds(c) PROVE OnceFacts'
    BY <1>15, <1>b, <1>c DEF SessionEnds, bufVars, panelVars, dbVars
  <1>16. ASSUME NEW c \in Conns,
                rd[c].pc # "add", NEW pc \in {"none", "dialed", "read", "off"},
                rd' = [rd EXCEPT ![c] = IdleReader(pc)]
         PROVE  \A d \in Conns : \/ rd'[d] = rd[d]
                                 \/ rd'[d].pc \notin {"users", "add"} /\ rd[d].pc # "add"
    BY <1>a, <1>16, IdleNotBusy
  <1>17. ASSUME NEW c \in Conns, Register(c) PROVE OnceFacts'
    BY <1>16, <1>17, <1>b, <1>c DEF Register, bufVars, wireVars, dbVars
  <1>18. ASSUME NEW c \in Conns, HandlerEnds(c) PROVE OnceFacts'
    <2>1. \A d \in Conns : up'[d] = up[d] \/ up'[d] = <<>>
      BY <1>a, <1>18 DEF HandlerEnds
    <2> QED BY <1>16, <1>18, <1>b, <1>c, <2>1 DEF HandlerEnds, bufVars, dbVars
  <1>19. ASSUME NEW c \in Conns, BeginIngest(c) PROVE OnceFacts'
    <2>1. ~ Overlaps(c)
      BY <1>19 DEF BeginIngest, DoubleCauses
    <2> QED BY <1>0, <1>19, <2>1, IngestOnce
  <1>20. ASSUME NEW c \in Conns, LookupUsers(c) PROVE OnceFacts'
    BY <1>0, <1>20, LookupOnce
  <1>21. ASSUME NEW c \in Conns, NEW usr \in Users, AddTraffic(c, usr) PROVE OnceFacts'
    BY <1>0, <1>21, AddOnce
  <1>22. ASSUME NEW c \in Conns, SetSeq(c) PROVE OnceFacts'
    <2>1. lastSeq' = IF rd[c].m.seq # 0 THEN rd[c].m.seq ELSE lastSeq
      BY <1>22 DEF SetSeq, DoubleCauses
    <2> QED BY <1>0, <1>22, <2>1, SetSeqOnce
  <1>23. ASSUME NEW c \in Conns, SendAck(c) PROVE OnceFacts'
    BY <1>16, <1>23, <1>b, <1>c DEF SendAck, bufVars, dbVars
  <1>24. ASSUME NEW c \in Conns, DropAck(c) PROVE OnceFacts'
    BY <1>16, <1>24, <1>b, <1>c DEF DropAck, bufVars, wireVars, dbVars
  <1>25. ASSUME NEW c \in Conns, WriteFails(c) PROVE OnceFacts'
    BY <1>25, <1>b, <1>c DEF WriteFails, bufVars, dbVars
  <1> QED
    BY <1>1, <1>2, <1>3, <1>4, <1>5, <1>6, <1>7, <1>8, <1>9, <1>10, <1>11, <1>12, <1>13,
       <1>14, <1>15, <1>17, <1>18, <1>19, <1>20, <1>21, <1>22, <1>23, <1>24, <1>25
       DEF Next, Node, Panel

\* Initially nothing was transferred, sent or credited.
LEMMA OnceInit == Init => Apart /\ Newest /\ OnceInv
  <1> SUFFICES ASSUME Init PROVE Apart /\ Newest /\ OnceFacts
    BY DEF OnceInv
  <1>1. \A c \in Conns : hand[c] = {} /\ up[c] = <<>> /\ rd[c].pc = "none"
    BY IdleReaderAt DEF Init
  <1>2. Apart
    BY <1>1 DEF Init, Apart
  <1>3. Newest
    BY <1>1 DEF Init, Newest
  <1>4. buf.seq = 0 /\ ~ buf.flightAt /\ buf.pend = {}
    BY DEF Init, FreshBuffer
  <1>5. \A c \in Conns : ~ Busy(c)
    BY <1>1 DEF Busy
  <1>6. Sent = {}
    <2>1. \A m : m \notin Sent
      BY <1>1, <1>4, <1>5, SentMember
    <2> QED BY <2>1
  <1>7. SentOK /\ SentApart /\ SentUncounted
    BY <1>6 DEF SentOK, SentApart, SentUncounted
  <1>8. Ordered /\ Ahead /\ BusyOK
    BY <1>1, <1>5 DEF Ordered, Ahead, BusyOK
  <1>9. FreshOK
    <2>1. Fresh \subseteq Units
      BY <1>1, <1>4 DEF Init, Fresh, Volatile, InHand
    <2> QED BY <1>4, <2>1 DEF Init, FreshOK
  <1> QED BY <1>2, <1>3, <1>4, <1>7, <1>8, <1>9 DEF Init, OnceFacts

LEMMA OnceAlways == Spec => [](Apart /\ Newest /\ OnceInv)
  BY OnceInit, ApartNext, NewestNext, OnceNext, TypeCorrect, PTL DEF Spec

\* For every number of users, units, connections and resends: unless two readers
\* of the node overlap in ingestTraffic, the panel dies inside it, its sequence
\* number is not stored or the agent's buffer goes back in time, no unit is added
\* to data_used twice (traffic.go ingestTraffic, "we apply each seq at most once").
THEOREM CreditedOnce == Spec => []NoDoubleCount
  <1>1. OnceInv => NoDoubleCount
    BY DEF OnceInv, OnceFacts, NoDoubleCount
  <1> QED BY <1>1, OnceAlways, PTL

-----------------------------------------------------------------------------
(* StepInv: the panel is at most one batch behind. *)

LEMMA StepNext ==
    TypeOK /\ TypeOK' /\ LossInv /\ OnceInv /\ StepInv /\ [Next]_vars => StepInv'
  <1> SUFFICES ASSUME TypeOK, TypeOK', LossInv, OnceInv, StepInv, [Next]_vars, causes' = {}
               PROVE  InStep'
    BY DEF StepInv
  <1>0. causes = {} /\ LossFacts /\ OnceFacts /\ InStep
    BY CausesGrow DEF StepInv, LossInv, OnceInv
  <1>a. /\ rd \in [Conns -> Reader] /\ down \in [Conns -> Seq(Nat)]
        /\ buf.seq \in Nat /\ lastSeq \in Nat
        /\ \A c \in Conns : rd[c].m.seq \in Nat
    BY OnceTypes DEF TypeOK
  <1>b. ASSUME buf' = buf, lastSeq' = lastSeq,
               \A c \in Conns : down'[c] = down[c] \/ down'[c] = <<>>,
               \A c \in Conns : \/ rd'[c] = rd[c]
                                \/ rd'[c].pc # "ack"
                                \/ rd'[c].m.seq <= lastSeq
        PROVE  InStep'
    BY <1>0, <1>b DEF InStep
  <1>c. ASSUME NEW c \in Conns, NEW pc \in {"none", "dialed", "read", "off"},
               rd' = [rd EXCEPT ![c] = IdleReader(pc)]
        PROVE  \A d \in Conns : rd'[d] = rd[d] \/ rd'[d].pc # "ack"
    BY <1>a, <1>c, IdleReaderAt
  <1>d. ASSUME NEW c \in Conns, NEW pc, NEW m, NEW todo,
               rd' = [rd EXCEPT ![c] = ReaderAt(pc, m, todo)]
        PROVE  /\ \A d \in Conns : d # c => rd'[d] = rd[d]
               /\ rd'[c].pc = pc /\ rd'[c].m = m
    <2>1. rd'[c] = ReaderAt(pc, m, todo)
      BY <1>a, <1>d
    <2> QED BY <1>a, <1>d, <2>1 DEF ReaderAt
  <1>1. CASE UNCHANGED vars
    BY <1>1, <1>b DEF vars
  <1>2. CASE (\E u \in Units : Transfer(u)) \/ XrayRestart \/ \E usr \in Users : Reassign(usr)
    BY <1>2, <1>b DEF Transfer, XrayRestart, Reassign, bufVars, wireVars, panelVars, dbVars
  <1>3. CASE Dial
    <2>1. nconns' \in Conns
      BY <1>3, BoundsAssumption DEF Dial, TypeOK
    <2> QED BY <1>3, <1>b, <1>c, <2>1 DEF Dial, bufVars, wireVars, dbVars
  <1>4. CASE AgentStop
    <2>1. buf' = buf
      BY <1>0, <1>4 DEF AgentStop, RestartWith, LossFacts
    <2> QED BY <1>4, <1>b, <2>1 DEF AgentStop, RestartWith, panelVars, dbVars
  <1>5. CASE AgentWiped
    BY <1>5 DEF AgentWiped
  <1>6. CASE PanelRestart
    <2>1. \A c \in Conns : rd'[c].pc # "ack"
      BY <1>6, IdleReaderAt DEF PanelRestart
    <2> QED BY <1>6, <1>b, <2>1 DEF PanelRestart, bufVars, dbVars
  <1>7. ASSUME NEW c \in Conns, QueryStats(c) \/ TickStops(c) PROVE InStep'
    BY <1>7, <1>b DEF QueryStats, TickStops, bufVars, wireVars, panelVars, dbVars
  <1>8. ASSUME NEW c \in Conns, Collect(c) PROVE InStep'
    <2>1. buf'.seq = buf.seq /\ buf'.flightAt = buf.flightAt
      BY <1>8 DEF Collect, CollectInto, Save, Merge
    <2> QED BY <1>0, <1>8, <2>1 DEF InStep, Collect, wireVars, panelVars, dbVars
  <1>9. ASSUME NEW c \in Conns, SendBatch(c) \/ SendFails(c) PROVE InStep'
    <2>1. buf' = Batch(buf)
      BY <1>9 DEF SendBatch, SendFails, TakeBatch, Save
    <2>2. buf' = buf \/ (~ buf.flightAt /\ buf'.seq = buf.seq + 1 /\ buf'.flightAt)
      BY <2>1 DEF Batch
    <2>3. UNCHANGED <<down, rd, lastSeq>>
      BY <1>9 DEF SendBatch, SendFails, wireVars, panelVars, dbVars
    <2> QED BY <1>0, <2>2, <2>3 DEF InStep
  <1>10. ASSUME NEW c \in Conns, ReceiveAck(c) PROVE InStep'
    <2>0. down' = [down EXCEPT ![c] = Tail(down[c])]
      BY <1>10 DEF ReceiveAck
    <2>1. down[c] \in Seq(Nat) /\ down[c] # <<>>
      BY <1>10, <1>a DEF ReceiveAck
    <2>2. Head(down[c]) \in Nat /\ Head(down[c]) <= lastSeq
      <3>1. Head(down[c]) = down[c][1] /\ 1 \in 1..Len(down[c]) /\ Head(down[c]) \in Nat
        BY <2>1
      <3> QED BY <1>0, <3>1 DEF InStep
    <2>3. \/ buf' = buf
          \/ Head(down[c]) = buf.seq /\ buf'.seq = buf.seq
      BY <1>10 DEF ReceiveAck, Save, Acked, Cleared
    <2>4. \/ buf'.seq = lastSeq
          \/ buf'.seq = lastSeq + 1 /\ buf'.flightAt
      BY <1>0, <1>a, <2>2, <2>3 DEF InStep
    <2>5. ASSUME NEW d \in Conns, NEW i \in 1..Len(down'[d]) PROVE down'[d][i] <= lastSeq
      <3>1. CASE d = c
        <4>1. down'[c] = Tail(down[c])
          BY <1>a, <2>0
        <4>2. i + 1 \in 1..Len(down[c]) /\ down'[c][i] = down[c][i + 1]
          BY <2>1, <3>1, <4>1
        <4> QED BY <1>0, <3>1, <4>2 DEF InStep
      <3>2. CASE d # c
        BY <1>0, <1>a, <2>0, <3>2 DEF InStep
      <3> QED BY <3>1, <3>2
    <2>6. rd' = rd /\ lastSeq' = lastSeq
      BY <1>10 DEF ReceiveAck, panelVars, dbVars
    <2> QED BY <1>0, <2>4, <2>5, <2>6 DEF InStep
  <1>11. ASSUME NEW c \in Conns, SessionEnds(c) PROVE InStep'
    <2>1. \A d \in Conns : down'[d] = down[d] \/ down'[d] = <<>>
      BY <1>11, <1>a DEF SessionEnds
    <2> QED BY <1>11, <1>b, <2>1 DEF SessionEnds, bufVars, panelVars, dbVars
  <1>12. ASSUME NEW c \in Conns, Register(c) PROVE InStep'
    BY <1>12, <1>b, <1>c DEF Register, bufVars, wireVars, dbVars
  <1>13. ASSUME NEW c \in Conns, HandlerEnds(c) PROVE InStep'
    BY <1>13, <1>b, <1>c DEF HandlerEnds, bufVars, dbVars
  <1>14. ASSUME NEW c \in Conns, BeginIngest(c) PROVE InStep'
    <2> DEFINE pc == IF Duplicate(Head(up[c]).seq) THEN "ack" ELSE "users"
    <2>1. rd' = [rd EXCEPT ![c] = ReaderAt(pc, Head(up[c]), {})]
      BY <1>14 DEF BeginIngest
    <2> HIDE DEF pc
    <2>2. \A d \in Conns : d # c => rd'[d] = rd[d]
      BY <1>d, <2>1
    <2>3. rd'[c].pc = pc /\ rd'[c].m = Head(up[c])
      <3>1. rd'[c] = ReaderAt(pc, Head(up[c]), {})
        BY <1>a, <2>1
      <3> QED BY <3>1 DEF ReaderAt
    <2>4. rd'[c].pc # "ack" \/ rd'[c].m.seq <= lastSeq
      BY <1>a, <2>3 DEF Duplicate, pc
    <2> QED BY <1>14, <1>b, <2>2, <2>4 DEF BeginIngest, bufVars, dbVars
  <1>15. ASSUME NEW c \in Conns, LookupUsers(c) PROVE InStep'
    <2>1. rd' = [rd EXCEPT ![c] = ReaderAt("add", rd[c].m,
                              {Owner[u] : u \in rd[c].m.items} \cap assigned)]
      BY <1>15 DEF LookupUsers
    <2>2. \A d \in Conns : rd'[d] = rd[d] \/ rd'[d].pc # "ack"
      BY <1>d, <2>1
    <2> QED BY <1>15, <1>b, <2>2 DEF LookupUsers, bufVars, wireVars, dbVars
  <1>16. ASSUME NEW c \in Conns, NEW usr \in Users, AddTraffic(c, usr) PROVE InStep'
    <2>1. \A d \in Conns : rd'[d] = rd[d] \/ rd'[d].pc # "ack"
      BY <1>d, <1>16 DEF AddTraffic
    <2> QED BY <1>16, <1>b, <2>1 DEF AddTraffic, bufVars, wireVars
  <1>17. ASSUME NEW c \in Conns, SetSeq(c) PROVE InStep'
    <2>1. rd[c].m \in Sent /\ rd[c].m.seq > lastSeq
      BY <1>0, <1>17, SentMember DEF SetSeq, Busy, OnceFacts, BusyOK
    <2>2. rd[c].m.seq \in 1..buf.seq
      BY <1>0, <2>1 DEF OnceFacts, SentOK
    <2>3. lastSeq' = buf.seq /\ rd[c].m.seq = buf.seq /\ buf.seq > lastSeq
      BY <1>0, <1>17, <1>a, <2>1, <2>2 DEF SetSeq, InStep
    <2>4. /\ \A d \in Conns : d # c => rd'[d] = rd[d]
          /\ rd'[c].m = rd[c].m
      <3>1. rd' = [rd EXCEPT ![c] = ReaderAt("ack", rd[c].m, {})]
        BY <1>17 DEF SetSeq
      <3> QED BY <1>d, <3>1
    <2>5. \A d \in Conns : rd'[d].pc = "ack" => rd'[d].m.seq <= lastSeq'
      BY <1>0, <1>a, <2>3, <2>4 DEF InStep
    <2>6. \A d \in Conns : \A i \in 1..Len(down[d]) : down[d][i] <= lastSeq'
      <3> SUFFICES ASSUME NEW d \in Conns, NEW i \in 1..Len(down[d])
                   PROVE  down[d][i] <= lastSeq'
        OBVIOUS
      <3>1. down[d][i] \in Nat /\ down[d][i] <= lastSeq
        BY <1>0, WireTypes DEF InStep
      <3> QED BY <1>a, <2>3, <3>1
    <2>7. buf' = buf /\ down' = down
      BY <1>17 DEF SetSeq, bufVars, wireVars
    <2> QED BY <2>3, <2>5, <2>6, <2>7 DEF InStep
  <1>18. ASSUME NEW c \in Conns, SendAck(c) PROVE InStep'
    <2>1. down' = [down EXCEPT ![c] = Append(down[c], rd[c].m.seq)] /\ rd[c].m.seq <= lastSeq
      BY <1>0, <1>18 DEF SendAck, InStep
    <2>2. ASSUME NEW d \in Conns, NEW i \in 1..Len(down'[d]) PROVE down'[d][i] <= lastSeq
      <3>1. CASE d = c
        <4>1. down'[c] = Append(down[c], rd[c].m.seq) /\ down[c] \in Seq(Nat)
          BY <1>a, <2>1
        <4>2. CASE i \in 1..Len(down[c])
          BY <1>0, <1>a, <3>1, <4>1, <4>2 DEF InStep
        <4>3. CASE i = Len(down[c]) + 1
          BY <1>a, <2>1, <3>1, <4>1, <4>3
        <4> QED BY <1>a, <3>1, <4>1, <4>2, <4>3
      <3>2. CASE d # c
        BY <1>0, <1>a, <2>1, <3>2 DEF InStep
      <3> QED BY <3>1, <3>2
    <2>3. \A d \in Conns : rd'[d] = rd[d] \/ rd'[d].pc # "ack"
      BY <1>c, <1>18 DEF SendAck
    <2>4. buf' = buf /\ lastSeq' = lastSeq
      BY <1>18 DEF SendAck, bufVars, dbVars
    <2> QED BY <1>0, <2>2, <2>3, <2>4 DEF InStep
  <1>19. ASSUME NEW c \in Conns, DropAck(c) PROVE InStep'
    BY <1>19, <1>b, <1>c DEF DropAck, bufVars, wireVars, dbVars
  <1>20. ASSUME NEW c \in Conns, WriteFails(c) PROVE InStep'
    <2>1. \A d \in Conns : \A i \in 1..Len(down'[d]) : down'[d][i] <= lastSeq
      BY <1>0, <1>20, WriteCuts DEF InStep
    <2>2. buf' = buf /\ lastSeq' = lastSeq /\ rd' = rd
      BY <1>20 DEF WriteFails, bufVars, dbVars
    <2> QED BY <1>0, <2>1, <2>2 DEF InStep
  <1> QED
    BY <1>1, <1>2, <1>3, <1>4, <1>5, <1>6, <1>7, <1>8, <1>9, <1>10, <1>11, <1>12, <1>13,
       <1>14, <1>15, <1>16, <1>17, <1>18, <1>19, <1>20
       DEF Next, Node, Panel

LEMMA StepAlways == Spec => []StepInv
  <1>1. Init => StepInv
    <2> SUFFICES ASSUME Init PROVE InStep
      BY DEF StepInv
    <2>1. \A c \in Conns : rd[c].pc = "none" /\ down[c] = <<>>
      BY IdleReaderAt DEF Init
    <2> QED BY <2>1 DEF Init, InStep, FreshBuffer
  <1> QED BY <1>1, StepNext, OnceAlways, LossAlways, TypeCorrect, PTL DEF Spec

-----------------------------------------------------------------------------
(* The refinement: every step of the protocol is a step of the ledger. *)

LEMMA LedgerDrop ==
    ASSUME causes \subseteq causes', NEW S \in SUBSET (xray \cup InHand),
           (xray \cup InHand)' = (xray \cup InHand) \ S,
           UNCHANGED <<unused, Buffered, counted, ignored>>
    PROVE  Ledger!Next
  <1>1. Ledger!Drop(S)
    BY DEF Ledger!Drop
  <1> QED BY <1>1 DEF Ledger!Next

\* A step the ledger does not see, except that something may have gone wrong.
LEMMA LedgerSkip ==
    ASSUME causes \subseteq causes', UNCHANGED <<unused, Buffered, counted, ignored>>,
           UNCHANGED (xray \cup InHand)
    PROVE  Ledger!Next
  <1>1. (xray \cup InHand)' = (xray \cup InHand) \ {}
    OBVIOUS
  <1>2. {} \in SUBSET (xray \cup InHand)
    OBVIOUS
  <1> QED BY <1>1, <1>2, LedgerDrop

\* What a reader may credit or refuse without anything having gone wrong is in flight.
LEMMA BusyInFlight ==
    ASSUME TypeOK, LossInv, OnceInv, StepInv, causes = {}, NEW c \in Conns, Busy(c)
    PROVE  rd[c].m.items = buf.flight
  <1>1. LossFacts /\ OnceFacts /\ InStep
    BY DEF LossInv, OnceInv, StepInv
  <1>2. rd[c].m.seq \in 1..buf.seq /\ rd[c].m.seq > lastSeq
    <2>1. rd[c].m \in Sent
      BY SentMember
    <2> QED BY <1>1, <2>1 DEF OnceFacts, SentOK, BusyOK
  <1>3. InFlight(rd[c].m.seq)
    BY <1>1, <1>2, OnceTypes DEF InStep, InFlight
  <1> QED BY <1>1, <1>3 DEF LossFacts, ReadersOK, ReaderOK, Busy, MsgOK

LEMMA CausesSplit ==
    ASSUME TypeOK, causes \cap LossCauses = {}, causes \cap DoubleCauses = {}
    PROVE  causes = {}
  BY DEF TypeOK, CauseKinds, LossCauses, DoubleCauses

LEMMA LedgerNext ==
    ASSUME TypeOK, TypeOK', Apart, LossInv, OnceInv, StepInv, [Next]_vars
    PROVE  Ledger!Next
  <1>0. causes \subseteq causes'
    BY CausesGrow
  <1>a. /\ hand \in [Conns -> SUBSET Units]
        /\ xray \cup InHand \subseteq Units /\ Buffered \subseteq Units
    BY HeldType DEF TypeOK
  <1>b. ASSUME UNCHANGED <<unused, xray, hand, buf, counted, ignored>> PROVE Ledger!Next
    BY <1>0, <1>b, LedgerSkip DEF InHand, Buffered
  <1>c. ASSUME UNCHANGED <<unused, xray, hand, counted, ignored>>, buf' = Batch(buf)
        PROVE  Ledger!Next
    <2>1. Buffered' = Buffered
      BY <1>c DEF Batch, Buffered, TypeOK, Buffer
    <2> QED BY <1>0, <1>c, <2>1, LedgerSkip DEF InHand
  <1>1. CASE UNCHANGED vars
    BY <1>1, <1>b DEF vars
  <1>2. ASSUME NEW u \in Units, Transfer(u) PROVE Ledger!Next
    <2>1. Ledger!Use(u)
      BY <1>2 DEF Transfer, Ledger!Use, InHand, Buffered, bufVars, dbVars
    <2> QED BY <1>0, <2>1 DEF Ledger!Next
  <1>3. CASE XrayRestart
    <2>1. (xray \cup InHand)' = (xray \cup InHand) \ xray
      BY <1>3 DEF XrayRestart, InHand, Apart
    <2> QED BY <1>0, <1>3, <2>1, LedgerDrop DEF XrayRestart, Buffered, bufVars, dbVars
  <1>4. CASE Dial
    BY <1>4, <1>b DEF Dial, bufVars, dbVars
  <1>5. CASE AgentStop
    <2>1. (xray \cup InHand)' = (xray \cup InHand) \ InHand
      BY <1>5 DEF AgentStop, RestartWith, InHand, Apart
    <2>2. CASE causes \cap LossCauses = {}
      <3>1. buf' = buf
        BY <1>5, <2>2 DEF AgentStop, RestartWith, LossInv, LossFacts
      <3> QED BY <1>0, <1>5, <2>1, <3>1, LedgerDrop
              DEF AgentStop, RestartWith, Buffered, dbVars
    <2>3. CASE causes \cap LossCauses # {}
      <3>1. Buffered' \in SUBSET Units
        BY HeldType DEF TypeOK, Buffered, Buffer
      <3>2. Ledger!Forget(InHand)
        BY <1>0, <1>5, <2>1, <2>3, <3>1 DEF AgentStop, RestartWith, Ledger!Forget, dbVars
      <3> QED BY <1>0, <3>2 DEF Ledger!Next
    <2> QED BY <2>2, <2>3
  <1>6. CASE AgentWiped
    <2>1. (xray \cup InHand)' = (xray \cup InHand) \ InHand
      BY <1>6 DEF AgentWiped, RestartWith, InHand, Apart
    <2>2. Buffered' \in SUBSET Units
      BY DEF TypeOK, Buffered, Buffer
    <2>3. causes' \cap LossCauses # {}
      BY <1>6 DEF AgentWiped, LossCauses
    <2>4. Ledger!Forget(InHand)
      BY <1>6, <2>1, <2>2, <2>3 DEF AgentWiped, RestartWith, Ledger!Forget, dbVars
    <2> QED BY <1>0, <2>4 DEF Ledger!Next
  <1>7. CASE PanelRestart \/ \E usr \in Users : Reassign(usr)
    BY <1>7, <1>b DEF PanelRestart, Reassign, bufVars, dbVars
  <1>8. ASSUME NEW c \in Conns, QueryStats(c) PROVE Ledger!Next
    <2>0. UNCHANGED <<unused, Buffered, counted, ignored>>
      BY <1>8 DEF QueryStats, bufVars, dbVars, Buffered
    <2>1. CASE hand' = [hand EXCEPT ![c] = hand[c] \cup xray] /\ xray' = {}
      <3>1. \A d \in Conns : hand'[d] = IF d = c THEN hand[c] \cup xray ELSE hand[d]
        BY <1>a, <2>1
      <3>2. (xray \cup InHand)' = xray \cup InHand
        BY <2>1, <3>1 DEF InHand
      <3> QED BY <1>0, <2>0, <3>2, LedgerSkip
    <2>2. CASE hand' = hand /\ xray' = xray
      BY <1>0, <2>0, <2>2, LedgerSkip DEF InHand
    <2>3. CASE hand' = hand /\ xray' = {}
      <3>1. (xray \cup InHand)' = (xray \cup InHand) \ xray
        BY <2>3 DEF InHand, Apart
      <3> QED BY <1>0, <2>0, <3>1, LedgerDrop
    <2> QED BY <1>8, <2>1, <2>2, <2>3 DEF QueryStats
  <1>9. ASSUME NEW c \in Conns, Collect(c) PROVE Ledger!Next
    <2>1. buf'.flight = buf.flight /\ buf'.pend = buf.pend \cup hand[c]
      BY <1>9 DEF Collect, CollectInto, Save, Merge
    <2>2. \A d \in Conns : hand'[d] = IF d = c THEN {} ELSE hand[d]
      BY <1>9, <1>a DEF Collect
    <2>3. (xray \cup InHand)' = (xray \cup InHand) \ hand[c]
      BY <1>9, <2>2 DEF Collect, InHand, Apart
    <2>4. Ledger!Keep(hand[c])
      BY <1>9, <2>1, <2>3 DEF Collect, Ledger!Keep, Buffered, dbVars
    <2>5. hand[c] \in SUBSET (xray \cup InHand)
      BY DEF InHand
    <2> QED BY <1>0, <2>4, <2>5 DEF Ledger!Next
  <1>10. ASSUME NEW c \in Conns, SendBatch(c) \/ SendFails(c) PROVE Ledger!Next
    <2>1. buf' = Batch(buf)
      BY <1>10 DEF SendBatch, SendFails, TakeBatch, Save
    <2> QED BY <1>10, <1>c, <2>1 DEF SendBatch, SendFails, dbVars
  <1>11. ASSUME NEW c \in Conns, TickStops(c) \/ SessionEnds(c) PROVE Ledger!Next
    BY <1>11, <1>b DEF TickStops, SessionEnds, bufVars, dbVars
  <1>12. ASSUME NEW c \in Conns, ReceiveAck(c) PROVE Ledger!Next
    <2>1. down[c] \in Seq(Nat) /\ down[c] # <<>>
      BY <1>12, WireTypes DEF ReceiveAck
    <2>2. Head(down[c]) = down[c][1] /\ 1 \in 1..Len(down[c])
      BY <2>1
    <2>3. \/ buf' = buf
          \/ InFlight(Head(down[c])) /\ buf'.flight = {} /\ buf'.pend = buf.pend
      BY <1>12 DEF ReceiveAck, Save, Acked, Cleared, InFlight
    <2>4. CASE buf' = buf
      BY <1>12, <1>b, <2>4 DEF ReceiveAck, dbVars
    <2>5. CASE InFlight(Head(down[c])) /\ buf'.flight = {} /\ buf'.pend = buf.pend
      <3> DEFINE S == buf.flight \ buf.pend
      <3>1. causes' \cap LossCauses # {} \/ \A u \in S : counted[u] > 0 \/ u \in ignored
        <4>1. causes' \cap LossCauses = {} => LossFacts
          BY <1>0 DEF LossInv
        <4> QED BY <2>2, <2>5, <4>1 DEF LossFacts, DownOK, AckOK, Credited
      <3>2. Buffered' = Buffered \ S
        BY <2>5 DEF Buffered
      <3>3. Ledger!Release(S)
        BY <1>12, <3>1, <3>2 DEF ReceiveAck, Ledger!Release, InHand, dbVars
      <3>4. S \in SUBSET Buffered
        BY DEF Buffered
      <3> HIDE DEF S
      <3> QED BY <1>0, <3>3, <3>4 DEF Ledger!Next
    <2> QED BY <2>3, <2>4, <2>5
  <1>13. ASSUME NEW c \in Conns,
                Register(c) \/ HandlerEnds(c) \/ SetSeq(c) \/ WriteFails(c) \/ SendAck(c)
                \/ DropAck(c)
         PROVE  Ledger!Next
    BY <1>13, <1>b DEF Register, HandlerEnds, SetSeq, WriteFails, SendAck, DropAck, bufVars, dbVars
  <1>14. ASSUME NEW c \in Conns, BeginIngest(c) PROVE Ledger!Next
    BY <1>14, <1>b DEF BeginIngest, bufVars, dbVars
  <1>15. ASSUME NEW c \in Conns, Busy(c), NEW S \in SUBSET rd[c].m.items
         PROVE  Ledger!Reported(S)
    <2>1. CASE causes' \cap LossCauses = {} /\ causes' \cap DoubleCauses = {}
      <3>1. causes = {}
        BY <1>0, <2>1, CausesSplit
      <3> QED BY <1>15, <3>1, BusyInFlight DEF Ledger!Reported, Buffered
    <2> QED BY <2>1 DEF Ledger!Reported
  <1>16. ASSUME NEW c \in Conns, LookupUsers(c) PROVE Ledger!Next
    <2>1. CASE ignored' = ignored
      BY <1>16, <1>b, <2>1 DEF LookupUsers, bufVars, dbVars
    <2>2. CASE ignored' = ignored \cup {u \in rd[c].m.items : Owner[u] \notin assigned}
      <3> DEFINE S == {u \in rd[c].m.items : Owner[u] \notin assigned}
      <3>1. Ledger!Reported(S) /\ S \in SUBSET Units
        BY <1>15, <1>16, OnceTypes DEF LookupUsers, Busy
      <3>2. Ledger!Refuse(S)
        BY <1>16, <2>2, <3>1 DEF LookupUsers, Ledger!Refuse, InHand, Buffered, bufVars, dbVars
      <3> HIDE DEF S
      <3> QED BY <1>0, <3>1, <3>2 DEF Ledger!Next
    <2> QED BY <1>16, <2>1, <2>2 DEF LookupUsers
  <1>17. ASSUME NEW c \in Conns, NEW usr \in Users, AddTraffic(c, usr) PROVE Ledger!Next
    <2>1. CASE counted' = counted
      BY <1>17, <1>b, <2>1 DEF AddTraffic, bufVars
    <2>2. CASE counted' = [u \in Units |->
                IF u \in rd[c].m.items /\ Owner[u] = usr THEN Bump(counted[u])
                                                         ELSE counted[u]]
      <3> DEFINE S == {u \in rd[c].m.items : Owner[u] = usr}
      <3>1. Ledger!Reported(S) /\ S \in SUBSET Units
        BY <1>15, <1>17, OnceTypes DEF AddTraffic, Busy
      <3>2. causes' \cap DoubleCauses # {} \/ \A u \in S : counted[u] = 0
        <4>1. causes' \cap DoubleCauses = {} => OnceFacts
          BY <1>0 DEF OnceInv
        <4> QED BY <1>17, <4>1 DEF OnceFacts, BusyOK, Busy, AddTraffic
      <3>3. counted' = [u \in Units |-> IF u \in S /\ counted[u] < CountCap
                                          THEN counted[u] + 1 ELSE counted[u]]
        BY <2>2 DEF Bump
      <3>4. Ledger!Credit(S)
        BY <1>17, <3>1, <3>2, <3>3 DEF AddTraffic, Ledger!Credit, InHand, Buffered, bufVars
      <3> HIDE DEF S
      <3> QED BY <1>0, <3>1, <3>4 DEF Ledger!Next
    <2> QED BY <1>17, <2>1, <2>2 DEF AddTraffic
  <1> QED
    BY <1>1, <1>2, <1>3, <1>4, <1>5, <1>6, <1>7, <1>8, <1>9, <1>10, <1>11, <1>12, <1>13,
       <1>14, <1>16, <1>17
       DEF Next, Node, Panel

\* The agent's buffer, resends and acks and the panel's ingestTraffic implement the
\* abstract ledger, whatever the number of users, units and connections: a unit is
\* credited once, only while the durable buffer holds it, and released only when it
\* was credited or refused, until one of the named causes has occurred.
THEOREM Refinement == Spec => ImplementsLedger
  <1>1. Init => Ledger!Init
    <2>1. ASSUME Init PROVE xray \cup InHand = {} /\ Buffered = {}
      BY <2>1 DEF Init, InHand, Buffered, FreshBuffer
    <2> QED BY <2>1 DEF Init, Ledger!Init
  <1>2. TypeOK /\ TypeOK' /\ Apart /\ LossInv /\ OnceInv /\ StepInv /\ [Next]_vars
        => [Ledger!Next]_(Ledger!vars)
    BY LedgerNext
  <1> QED BY <1>1, <1>2, TypeCorrect, OnceAlways, LossAlways, StepAlways, PTL
          DEF Spec, ImplementsLedger, Ledger!Spec
=============================================================================

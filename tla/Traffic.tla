------------------------------ MODULE Traffic ------------------------------
(***************************************************************************)
(* Traffic accounting between one node's agent and the panel: Xray's       *)
(* counters, the agent's durable buffer (internal/agent/pending.go), the   *)
(* WebSocket sessions that carry batches and acks (internal/agent/agent.go,*)
(* internal/panel/hub.go) and the panel's ingestTraffic                    *)
(* (internal/panel/traffic.go).  Sequence numbers are per node, so one     *)
(* node is the whole protocol.                                             *)
(*                                                                         *)
(* Bytes are abstracted to Units: indivisible, distinguishable quantities  *)
(* of one user's traffic.  Adding counters is set union, and "how often    *)
(* was this byte added to data_used" becomes counted[u].                   *)
(***************************************************************************)
EXTENDS Integers, Sequences

CONSTANTS
    Users,      \* emails
    Units,      \* quantities of traffic
    Owner,      \* whose traffic a unit is
    MaxConns,   \* bound: how often the agent dials
    MaxWire,    \* bound: messages in flight on one connection, per direction
    Faults      \* which FaultKinds the run injects

FaultKinds == {"agentStop", "wipe", "saveError", "rpcLost", "xrayRestart",
               "panelCrash", "dbError", "reassign", "writeError"}

ASSUME OwnerAssumption == Owner \in [Units -> Users]
ASSUME BoundsAssumption == MaxConns \in Nat /\ MaxWire \in Nat \ {0}
ASSUME FaultsAssumption == Faults \subseteq FaultKinds

Conns == 1..MaxConns    \* in the order in which the agent dials them

VARIABLES
    (* the node *)
    unused,     \* units no user has transferred yet
    xray,       \* units in Xray's per-user counters
    hand,       \* hand[c]: read and reset in Xray by session c's goroutine, not saved yet
    buf,        \* pendingTraffic in memory
    disk,       \* pending-traffic.json
    sess,       \* the connection the agent's session runs on, 0 between sessions
    tick,       \* tick[c]: where session c's sending goroutine is
    nconns,     \* connections dialed so far
    (* the wire *)
    up,         \* up[c]: traffic messages on their way to the panel
    down,       \* down[c]: acks queued or on their way to the agent
    (* the panel *)
    hub,        \* Hub.conns[node], 0 when none
    closed,     \* connections on which nodeConn.close has run
    deaf,       \* open connections whose writeLoop has returned
    rd,         \* rd[c]: the handler goroutine of connection c
    lastSeq,    \* nodes.traffic_seq
    assigned,   \* users with a user_nodes row for this node
    counted,    \* how often a unit was added to data_used (saturates at CountCap)
    (* history, read by no action of the system *)
    lost,       \* units that vanished before they reached the durable buffer
    ignored,    \* units reported while their user was not assigned
    newest,     \* newest connection whose reader has begun an ingest
    causes      \* what has gone wrong so far

bufVars   == <<buf, disk>>
wireVars  == <<up, down>>
panelVars == <<hub, closed, deaf, rd, newest>>
dbVars    == <<lastSeq, assigned, counted>>
vars == <<unused, xray, hand, buf, disk, sess, tick, nconns, up, down, hub,
          closed, deaf, rd, lastSeq, assigned, counted, lost, ignored, newest, causes>>

CountCap == 2           \* "twice or more"

CauseKinds == {"overlap", "torn", "wipe", "saveError", "ingestError", "seqError"}

\* FlightAt is set exactly while there are items to resend: batch() would
\* otherwise report nothing to send for ever.
Buffer == {b \in [seq: Nat, flightAt: BOOLEAN, flight: SUBSET Units,
                  pend: SUBSET Units] :
              (b.flightAt <=> b.flight # {}) /\ (b.flightAt => b.seq > 0)}
Msg    == [seq: Nat, items: SUBSET Units]
Reader == [pc: {"none", "dialed", "read", "users", "add", "ack", "off"},
           m: Msg, todo: SUBSET Users]

FreshBuffer == [seq |-> 0, flightAt |-> FALSE, flight |-> {}, pend |-> {}]
NoMsg       == [seq |-> 0, items |-> {}]
ReaderAt(pc, m, todo) == [pc |-> pc, m |-> m, todo |-> todo]
IdleReader(pc) == ReaderAt(pc, NoMsg, {})

(***************************************************************************)
(* Of the last connection the run may dial nothing fails any more: the     *)
(* bound MaxConns stands for "finitely many failures".                     *)
(***************************************************************************)
MayFail == nconns < MaxConns

Init ==
    /\ unused = Units
    /\ xray = {}
    /\ hand = [c \in Conns |-> {}]
    /\ buf = FreshBuffer
    /\ disk = FreshBuffer
    /\ sess = 0
    /\ tick = [c \in Conns |-> "off"]
    /\ nconns = 0
    /\ up = [c \in Conns |-> <<>>]
    /\ down = [c \in Conns |-> <<>>]
    /\ hub = 0
    /\ closed = {}
    /\ deaf = {}
    /\ rd = [c \in Conns |-> IdleReader("none")]
    /\ lastSeq = 0
    /\ assigned = Users
    /\ counted = [u \in Units |-> 0]
    /\ lost = {}
    /\ ignored = {}
    /\ newest = 0
    /\ causes = {}

-----------------------------------------------------------------------------
(* The node: Xray and the durable buffer. *)

\* A user transfers a unit through Xray.
Transfer(u) ==
    /\ u \in unused
    /\ unused' = unused \ {u}
    /\ xray' = xray \cup {u}
    /\ UNCHANGED <<hand, bufVars, sess, tick, nconns, wireVars, panelVars, dbVars,
                   lost, ignored, causes>>

\* The Xray container restarts (any config change liveApply cannot apply).
XrayRestart ==
    /\ "xrayRestart" \in Faults
    /\ xray # {}
    /\ xray' = {}
    /\ lost' = lost \cup xray
    /\ UNCHANGED <<unused, hand, bufVars, sess, tick, nconns, wireVars, panelVars,
                   dbVars, ignored, causes>>

\* save: the buffer goes to disk after every change; a write error is ignored.
Save(b) ==
    /\ buf' = b
    /\ \/ disk' = b /\ UNCHANGED causes
       \/ /\ "saveError" \in Faults
          /\ disk' = disk
          /\ causes' = causes \cup {"saveError"}

\* mergeInto pend.
Merge(b, items) == [seq |-> b.seq, flightAt |-> b.flightAt, flight |-> b.flight,
                    pend |-> b.pend \cup items]

\* collect: nothing to merge, nothing saved.
CollectInto(items) ==
    IF items = {} THEN UNCHANGED <<buf, disk, causes>>
                  ELSE Save(Merge(buf, items))

\* batch: pend is promoted to a new batch unless one is in flight.
Batch(b) ==
    IF b.flightAt \/ b.pend = {} THEN b
    ELSE [seq |-> b.seq + 1, flightAt |-> TRUE, flight |-> b.pend, pend |-> {}]

Cleared(b) == [seq |-> b.seq, flightAt |-> FALSE, flight |-> {}, pend |-> b.pend]

\* Bug: the sequence number of an ack is not compared.
BugAckAnySeq(b, seq) ==
    IF b.flightAt THEN Cleared(b) ELSE b

\* Bug: FlightAt is not reset.
BugAckKeepsFlightAt(b, seq) ==
    IF b.flightAt /\ seq = b.seq THEN [b EXCEPT !.flight = {}] ELSE b

\* ack: only the batch in flight can be acknowledged.
Acked(b, seq) ==
    IF b.flightAt /\ seq = b.seq THEN Cleared(b) ELSE b

\* A stats tick begins: read and reset Xray's counters.  An error leaves the
\* goroutine with nothing; the reset may have happened all the same.
QueryStats(c) ==
    /\ tick[c] = "idle"
    /\ tick' = [tick EXCEPT ![c] = "got"]
    /\ \/ /\ hand' = [hand EXCEPT ![c] = @ \cup xray]
          /\ xray' = {}
          /\ UNCHANGED lost
       \/ UNCHANGED <<hand, xray, lost>>
       \/ /\ "rpcLost" \in Faults
          /\ xray' = {}
          /\ lost' = lost \cup xray
          /\ UNCHANGED hand
    /\ UNCHANGED <<unused, bufVars, sess, nconns, wireVars, panelVars, dbVars,
                   ignored, causes>>

\* pend.collect of what the tick has read.
Collect(c) ==
    /\ tick[c] = "got"
    /\ CollectInto(hand[c])
    /\ hand' = [hand EXCEPT ![c] = {}]
    /\ tick' = [tick EXCEPT ![c] = "send"]
    /\ UNCHANGED <<unused, xray, sess, nconns, wireVars, panelVars, dbVars,
                   lost, ignored>>

-----------------------------------------------------------------------------
(* The agent's sessions. *)

\* RunManaged dials again; the panel has upgraded the connection.
Dial ==
    /\ sess = 0
    /\ nconns < MaxConns
    /\ nconns' = nconns + 1
    /\ sess' = nconns'
    /\ tick' = [tick EXCEPT ![nconns'] = "flush"]
    /\ rd' = [rd EXCEPT ![nconns'] = IdleReader("dialed")]
    /\ UNCHANGED <<unused, xray, hand, bufVars, wireVars, hub, closed, deaf, newest, dbVars,
                   lost, ignored, causes>>

\* Promote or repeat the batch; b is the buffer afterwards.
TakeBatch(b) ==
    /\ b = Batch(buf)
    /\ IF b = buf THEN UNCHANGED <<buf, disk, causes>> ELSE Save(b)

\* batch() and send, at the start of a session ("flush") and in a stats tick.
SendBatch(c) ==
    /\ tick[c] \in {"flush", "send"}
    /\ \E b \in {Batch(buf)} :
        /\ TakeBatch(b)
        /\ \/ b.flight = {} /\ UNCHANGED up
           \/ /\ b.flight # {}
              /\ sess = c
              /\ Len(up[c]) < MaxWire
              /\ up' = [up EXCEPT ![c] = Append(@, [seq |-> b.seq, items |-> b.flight])]
    /\ tick' = [tick EXCEPT ![c] = "idle"]
    /\ UNCHANGED <<unused, xray, hand, sess, nconns, down, panelVars, dbVars,
                   lost, ignored>>

\* The send fails.  The flush ends the session; in a tick only the goroutine
\* stops (closeStop), and the session lives on until its reader fails.
SendFails(c) ==
    /\ tick[c] \in {"flush", "send"}
    /\ Batch(buf).flight # {}
    /\ sess # c \/ c \in closed \/ MayFail
    /\ TakeBatch(Batch(buf))
    /\ tick' = [tick EXCEPT ![c] = "off"]
    /\ sess' = IF tick[c] = "flush" THEN 0 ELSE sess
    /\ UNCHANGED <<unused, xray, hand, nconns, wireVars, panelVars, dbVars,
                   lost, ignored>>

\* The goroutine sees stop closed, or its heartbeat or device report fails.
TickStops(c) ==
    /\ tick[c] = "idle"
    /\ sess # c \/ c \in closed \/ MayFail
    /\ tick' = [tick EXCEPT ![c] = "off"]
    /\ UNCHANGED <<unused, xray, hand, bufVars, sess, nconns, wireVars, panelVars,
                   dbVars, lost, ignored, causes>>

\* The session's read loop receives an ack.
ReceiveAck(c) ==
    /\ sess = c
    /\ tick[c] # "flush"
    /\ down[c] # <<>>
    /\ down' = [down EXCEPT ![c] = Tail(@)]
    /\ IF Acked(buf, Head(down[c])) = buf THEN UNCHANGED <<buf, disk, causes>>
                                          ELSE Save(Acked(buf, Head(down[c])))
    /\ UNCHANGED <<unused, xray, hand, sess, tick, nconns, up, panelVars, dbVars,
                   lost, ignored>>

\* The session's ReadJSON fails: closed by the panel, or the network broke.
SessionEnds(c) ==
    /\ sess = c
    /\ tick[c] # "flush"
    /\ c \in closed \/ MayFail
    /\ sess' = 0
    /\ down' = [down EXCEPT ![c] = <<>>]
    /\ UNCHANGED <<unused, xray, hand, bufVars, tick, nconns, up, panelVars, dbVars,
                   lost, ignored, causes>>

\* What the agent holds: in its durable buffer, and in its goroutines only.
Buffered == buf.flight \cup buf.pend
InHand   == UNION {hand[c] : c \in Conns}

\* The agent process ends (SIGTERM's os.Exit, a crash) and starts again.
RestartWith(b) ==
    /\ MayFail
    /\ buf' = b
    /\ disk' = b
    /\ sess' = 0
    /\ tick' = [c \in Conns |-> "off"]
    /\ hand' = [c \in Conns |-> {}]
    /\ down' = [c \in Conns |-> <<>>]
    /\ UNCHANGED <<unused, xray, nconns, up, panelVars, dbVars, ignored>>

AgentStop ==
    /\ "agentStop" \in Faults
    /\ RestartWith(disk)
    /\ lost' = lost \cup InHand
    /\ UNCHANGED causes

\* The agent comes back without a readable pending-traffic.json (loadPending).
AgentWiped ==
    /\ "wipe" \in Faults
    /\ RestartWith(FreshBuffer)
    /\ lost' = lost \cup InHand \cup Buffered
    /\ causes' = causes \cup {"wipe"}

-----------------------------------------------------------------------------
(* The panel: connections. *)

\* handleWS registers the connection and closes the one it replaces.  A slow
\* handler may register an older connection after a newer one.
Register(c) ==
    /\ rd[c].pc = "dialed"
    /\ c = nconns \/ MayFail
    /\ hub' = c
    /\ closed' = closed \cup ({hub} \ {0})
    /\ deaf' = deaf \ closed'
    /\ rd' = [rd EXCEPT ![c] = IdleReader("read")]
    /\ UNCHANGED <<unused, xray, hand, bufVars, sess, tick, nconns, wireVars, dbVars,
                   lost, ignored, newest, causes>>

\* The handler ends: no register message, or readLoop's ReadJSON failed; then
\* unregister, which only removes this very connection from the hub.
HandlerEnds(c) ==
    /\ rd[c].pc \in {"dialed", "read"}
    /\ c \in closed \/ sess # c \/ MayFail
    /\ rd' = [rd EXCEPT ![c] = IdleReader("off")]
    /\ up' = [up EXCEPT ![c] = <<>>]
    /\ hub' = IF hub = c THEN 0 ELSE hub
    /\ closed' = closed \cup {c}
    /\ deaf' = deaf \ closed'
    /\ UNCHANGED <<unused, xray, hand, bufVars, sess, tick, nconns, down, newest,
                   dbVars, lost, ignored, causes>>

\* The panel process ends and starts again: every handler dies where it is.
PanelRestart ==
    /\ "panelCrash" \in Faults
    /\ MayFail
    /\ hub' = 0
    /\ closed' = closed \cup 1..nconns
    /\ deaf' = {}
    /\ rd' = [c \in Conns |-> IdleReader(IF c <= nconns THEN "off" ELSE "none")]
    /\ up' = [c \in Conns |-> <<>>]
    /\ causes' = IF \E c \in Conns : rd[c].pc = "add" THEN causes \cup {"torn"}
                                                      ELSE causes
    /\ UNCHANGED <<unused, xray, hand, bufVars, sess, tick, nconns, down, dbVars,
                   lost, ignored, newest>>

-----------------------------------------------------------------------------
(* The panel: ingestTraffic, one step per statement that touches the store. *)

\* Another reader is between its read of traffic_seq and its write, or this
\* message comes from an older connection than one already ingested.
Overlaps(c) ==
    \/ \E d \in Conns \ {c} : rd[d].pc \in {"users", "add"}
    \/ c < newest

\* Bug: only a lower seq is a resend.
BugDuplicateLower(seq) == seq # 0 /\ seq < lastSeq

\* A resend of the batch applied last.
Duplicate(seq) == seq # 0 /\ seq = lastSeq

\* Bug: a duplicate is skipped without an ack.
BugDuplicateNotAcked(c) ==
    /\ rd[c].pc = "read"
    /\ up[c] # <<>>
    /\ up' = [up EXCEPT ![c] = Tail(@)]
    /\ newest' = IF c > newest THEN c ELSE newest
    /\ rd' = [rd EXCEPT ![c] =
                IF Duplicate(Head(up[c]).seq) THEN IdleReader("read")
                ELSE ReaderAt("users", Head(up[c]), {})]
    /\ UNCHANGED <<unused, xray, hand, bufVars, sess, tick, nconns, down, hub, closed, deaf,
                   dbVars, lost, ignored, causes>>

\* readLoop reads a traffic message; NodeTrafficSeq; a duplicate is skipped.
\* Messages already received stay readable after the connection is closed.
BeginIngest(c) ==
    /\ rd[c].pc = "read"
    /\ up[c] # <<>>
    /\ up' = [up EXCEPT ![c] = Tail(@)]
    /\ newest' = IF c > newest THEN c ELSE newest
    /\ LET m == Head(up[c])
           raced == IF Overlaps(c) THEN {"overlap"} ELSE {}
       IN  \/ /\ rd' = [rd EXCEPT ![c] =
                    ReaderAt(IF Duplicate(m.seq) THEN "ack" ELSE "users", m, {})]
              /\ causes' = causes \cup raced
           \/ /\ "dbError" \in Faults      \* return, and readLoop acks
              /\ rd' = [rd EXCEPT ![c] = ReaderAt("ack", m, {})]
              /\ causes' = causes \cup raced \cup {"ingestError"}
    /\ UNCHANGED <<unused, xray, hand, bufVars, sess, tick, nconns, down, hub, closed, deaf,
                   dbVars, lost, ignored>>

\* UsersForNode: only users assigned to the node are credited.
LookupUsers(c) ==
    /\ rd[c].pc = "users"
    /\ \/ /\ rd' = [rd EXCEPT ![c] = ReaderAt("add", rd[c].m,
                              {Owner[u] : u \in rd[c].m.items} \cap assigned)]
          /\ ignored' = ignored \cup {u \in rd[c].m.items : Owner[u] \notin assigned}
          /\ UNCHANGED causes
       \/ /\ "dbError" \in Faults
          /\ rd' = [rd EXCEPT ![c] = ReaderAt("ack", rd[c].m, {})]
          /\ causes' = causes \cup {"ingestError"}
          /\ UNCHANGED ignored
    /\ UNCHANGED <<unused, xray, hand, bufVars, sess, tick, nconns, wireVars, hub,
                   closed, deaf, newest, dbVars, lost>>

Bump(n) == IF n < CountCap THEN n + 1 ELSE n

\* AddTraffic for one item, one transaction; an error is logged and skipped.
AddTraffic(c, usr) ==
    /\ rd[c].pc = "add"
    /\ usr \in rd[c].todo
    /\ rd' = [rd EXCEPT ![c] = ReaderAt("add", rd[c].m, rd[c].todo \ {usr})]
    /\ \/ /\ counted' = [u \in Units |->
                IF u \in rd[c].m.items /\ Owner[u] = usr THEN Bump(counted[u])
                                                         ELSE counted[u]]
          /\ UNCHANGED causes
       \/ /\ "dbError" \in Faults
          /\ causes' = causes \cup {"ingestError"}
          /\ UNCHANGED counted
    /\ UNCHANGED <<unused, xray, hand, bufVars, sess, tick, nconns, wireVars, hub,
                   closed, deaf, newest, lastSeq, assigned, lost, ignored>>

\* Bug: the sequence number is stored, and the batch done, before its items.
BugSetSeqFirst(c) ==
    /\ rd[c].pc = "add"
    /\ rd' = [rd EXCEPT ![c] = ReaderAt("ack", rd[c].m, {})]
    /\ lastSeq' = rd[c].m.seq
    /\ UNCHANGED <<unused, xray, hand, bufVars, sess, tick, nconns, wireVars, hub,
                   closed, deaf, newest, assigned, counted, lost, ignored, causes>>

\* SetNodeTrafficSeq once every item was tried; then syncNode (ConfigSync).
SetSeq(c) ==
    /\ rd[c].pc = "add"
    /\ rd[c].todo = {}
    /\ rd' = [rd EXCEPT ![c] = ReaderAt("ack", rd[c].m, {})]
    /\ \/ /\ lastSeq' = IF rd[c].m.seq # 0 THEN rd[c].m.seq ELSE lastSeq
          /\ UNCHANGED causes
       \/ /\ "dbError" \in Faults
          /\ causes' = causes \cup {"seqError"}
          /\ UNCHANGED lastSeq
    /\ UNCHANGED <<unused, xray, hand, bufVars, sess, tick, nconns, wireVars, hub,
                   closed, deaf, newest, assigned, counted, lost, ignored>>

\* writeLoop's write or ping fails, at the latest on its deadline: it returns and
\* leaves the connection open.  What it has not written is never written.
WriteFails(c) ==
    /\ "writeError" \in Faults
    /\ MayFail
    /\ rd[c].pc \notin {"none", "dialed", "off"}
    /\ c \notin closed \cup deaf
    /\ deaf' = deaf \cup {c}
    /\ \E k \in 0..Len(down[c]) : down' = [down EXCEPT ![c] = SubSeq(@, 1, k)]
    /\ UNCHANGED <<unused, xray, hand, bufVars, sess, tick, nconns, up, hub, closed, rd,
                   newest, dbVars, lost, ignored, causes>>

\* readLoop acks whatever ingestTraffic did.
SendAck(c) ==
    /\ rd[c].pc = "ack"
    /\ c \notin closed \cup deaf
    /\ Len(down[c]) < MaxWire
    /\ down' = [down EXCEPT ![c] = Append(@, rd[c].m.seq)]
    /\ rd' = [rd EXCEPT ![c] = IdleReader("read")]
    /\ UNCHANGED <<unused, xray, hand, bufVars, sess, tick, nconns, up, hub, closed, deaf,
                   newest, dbVars, lost, ignored, causes>>

\* trySend drops the ack: the connection is closed, or the queue it shares
\* with config pushes is full; or no writeLoop takes it from the queue any more.
DropAck(c) ==
    /\ rd[c].pc = "ack"
    /\ rd' = [rd EXCEPT ![c] = IdleReader("read")]
    /\ UNCHANGED <<unused, xray, hand, bufVars, sess, tick, nconns, wireVars, hub,
                   closed, deaf, newest, dbVars, lost, ignored, causes>>

\* An admin (un)assigns a user.
Reassign(usr) ==
    /\ "reassign" \in Faults
    /\ assigned' = IF usr \in assigned THEN assigned \ {usr} ELSE assigned \cup {usr}
    /\ UNCHANGED <<unused, xray, hand, bufVars, sess, tick, nconns, wireVars, panelVars,
                   lastSeq, counted, lost, ignored, causes>>

-----------------------------------------------------------------------------
Node(c) ==
    \/ QueryStats(c) \/ Collect(c) \/ SendBatch(c) \/ SendFails(c) \/ TickStops(c)
    \/ ReceiveAck(c) \/ SessionEnds(c)

Panel(c) ==
    \/ Register(c) \/ HandlerEnds(c) \/ BeginIngest(c) \/ LookupUsers(c)
    \/ \E usr \in Users : AddTraffic(c, usr)
    \/ SetSeq(c) \/ WriteFails(c) \/ SendAck(c) \/ DropAck(c)

Next ==
    \/ \E u \in Units : Transfer(u)
    \/ XrayRestart \/ Dial \/ AgentStop \/ AgentWiped \/ PanelRestart
    \/ \E usr \in Users : Reassign(usr)
    \/ \E c \in Conns : Node(c) \/ Panel(c)

Spec == Init /\ [][Next]_vars

(***************************************************************************)
(* Fairness.  Goroutines run and tickers fire; RunManaged dials for ever;  *)
(* a connection that one end has closed, or lost, is eventually reported   *)
(* to the other (TCP gives up on unacknowledged data and on keep-alives);  *)
(* a handler that has the register message registers.  An ack is not       *)
(* dropped for ever while writeLoop lives: it drains the queue, and pushes *)
(* come at most once per reconciliation.  Nothing forces a connection that *)
(* only one goroutine has given up on to end: the agent's read loop has no *)
(* deadline and does not look at stop, and writeLoop closes nothing.       *)
(***************************************************************************)
Fairness ==
    /\ WF_vars(Dial)
    /\ \A c \in Conns :
        /\ WF_vars(QueryStats(c))
        /\ WF_vars(Collect(c))
        /\ WF_vars(SendBatch(c) \/ SendFails(c))
        /\ WF_vars(sess # c /\ TickStops(c))
        /\ WF_vars(ReceiveAck(c))
        /\ WF_vars(c \in closed /\ SessionEnds(c))
        /\ WF_vars(Register(c))
        /\ WF_vars((c \in closed \/ sess # c) /\ HandlerEnds(c))
        /\ WF_vars(BeginIngest(c))
        /\ WF_vars(LookupUsers(c))
        /\ WF_vars(\E usr \in Users : AddTraffic(c, usr))
        /\ WF_vars(SetSeq(c))
        /\ WF_vars(DropAck(c))
        /\ SF_vars(SendAck(c))

FairSpec == Spec /\ Fairness

-----------------------------------------------------------------------------
(* Properties. *)

\* Type invariant.
TypeOK ==
    /\ unused \subseteq Units
    /\ xray \subseteq Units
    /\ hand \in [Conns -> SUBSET Units]
    /\ buf \in Buffer
    /\ disk \in Buffer
    /\ sess \in 0..MaxConns
    /\ tick \in [Conns -> {"off", "flush", "idle", "got", "send"}]
    /\ nconns \in 0..MaxConns
    /\ up \in [Conns -> Seq(Msg)]
    /\ down \in [Conns -> Seq(Nat)]
    /\ hub \in 0..MaxConns
    /\ closed \subseteq Conns
    /\ deaf \subseteq Conns
    /\ rd \in [Conns -> Reader]
    /\ lastSeq \in Nat
    /\ assigned \subseteq Users
    /\ counted \in [Units -> 0..CountCap]
    /\ lost \subseteq Units
    /\ ignored \subseteq Units
    /\ newest \in 0..MaxConns
    /\ causes \subseteq CauseKinds

\* What can make an acknowledged batch vanish uncounted: a buffer file that
\* did not survive, a failed save, a store error inside ingestTraffic.
LossCauses == {"wipe", "saveError", "ingestError"}

\* What can make a batch count twice: two readers of the same node in
\* ingestTraffic, a panel that dies inside it, a buffer that went back in
\* time, a sequence number that was not stored.
DoubleCauses == {"overlap", "torn", "wipe", "saveError", "seqError"}

\* A unit that reached the buffer is cleared from it only when the panel has
\* credited it, or refused it because its user is not assigned.  (A unit in
\* lost never reached the buffer, or went with a buffer file that was removed.)
AckedIsCounted ==
    \A u \in Units : \/ u \in unused \cup xray \cup InHand \cup Buffered
                     \/ u \in lost \cup ignored
                     \/ counted[u] > 0

\* "An Agent restart or a dropped connection never loses a window": whatever
\* restarts, breaks, overlaps or is resent, AckedIsCounted holds as long as no
\* listed cause occurred (pending.go, hub.go readLoop, traffic.go).
NoWindowLost == causes \cap LossCauses = {} => AckedIsCounted

\* "We apply each seq at most once": unless a listed cause occurred, no unit is
\* added to data_used twice, however often its batch is resent over however
\* many connections (traffic.go ingestTraffic).
NoDoubleCount ==
    causes \cap DoubleCauses = {} => \A u \in Units : counted[u] <= 1

(***************************************************************************)
(* The inductive invariant behind NoWindowLost.  A message or an ack that  *)
(* carries the sequence number in flight speaks of the very batch in       *)
(* flight, and whoever may cause its ack has already credited it.          *)
(***************************************************************************)
InFlight(seq) == buf.flightAt /\ seq = buf.seq

Credited(u) == counted[u] > 0 \/ u \in ignored

MsgOK(m) == m.seq \in 1..buf.seq /\ (InFlight(m.seq) => m.items = buf.flight)

AckOK(seq) == seq <= buf.seq /\ (InFlight(seq) => \A u \in buf.flight : Credited(u))

ReaderOK(r) ==
    /\ r.pc \in {"users", "add", "ack"} => MsgOK(r.m)
    /\ r.pc = "ack" => AckOK(r.m.seq)
    /\ r.pc = "add" => \A u \in r.m.items : Owner[u] \notin r.todo => Credited(u)

UpOK      == \A c \in Conns : \A i \in 1..Len(up[c]) : MsgOK(up[c][i])
DownOK    == \A c \in Conns : \A i \in 1..Len(down[c]) : AckOK(down[c][i])
ReadersOK == \A c \in Conns : ReaderOK(rd[c])

LossFacts ==
    /\ disk = buf
    /\ AckedIsCounted
    /\ AckOK(lastSeq)
    /\ UpOK
    /\ DownOK
    /\ ReadersOK

LossInv == causes \cap LossCauses = {} => LossFacts

\* A session that lives on though its sending goroutine has ended, or though no
\* ack can reach it: neither end notices as long as the connection stands.
Stuck == sess # 0 /\ sess \notin closed /\ (tick[sess] = "off" \/ sess \in deaf)

\* What ever reached the durable buffer has left it, credited or refused for an
\* unassigned user.
Settled ==
    /\ Buffered = {}
    /\ \A u \in Units : \/ u \in unused \cup xray \cup InHand \cup lost
                        \/ counted[u] > 0 \/ u \in ignored

\* The durable buffer is emptied again and again, and all it held is accounted for:
\* a batch is resent until it gets through, and its ack repeated until it arrives
\* (agent.go session, hub.go readLoop).  Unless a session stays stuck for ever: then
\* the batch waits in the buffer until the connection breaks or the agent restarts.
EventuallyCounted == []<>~Stuck => (Buffered # {} ~> Settled)
=============================================================================

------------------------------ MODULE Accounts ------------------------------
(***************************************************************************)
(* User rows, node assignments and usage tables of the panel's database    *)
(* (internal/panel/store.go) under the handlers that change them at the    *)
(* same time: the admin API (api.go), the Telegram bot (bot.go), traffic   *)
(* ingestion and the monthly reset (traffic.go).  A store method is one    *)
(* atomic step (one statement or one transaction under Store.mu); what     *)
(* lies between two store calls of a handler is open to every other one.   *)
(*                                                                         *)
(* A sync of a connected node is abstracted to "the node now serves the    *)
(* effective user set": what its cached signature stands for, so that an   *)
(* equal signature changes nothing.  How a push reaches the node is        *)
(* ConfigSync's subject.  Time passes in days, MonthDays of them a month;  *)
(* expiry is ConfigSync's Expire.                                          *)
(***************************************************************************)
EXTENDS Integers, FiniteSets

CONSTANTS
    Ids,        \* user ids, never reused (AUTOINCREMENT)
    First,      \* ids of the users that exist at the start
    NoRow,      \* a row that is not there
    Nodes,      \* node ids
    Workers,    \* goroutines of handlers, the bot and the nodes' readers
    Days,       \* reset days users may have, 0: none
    MonthDays,  \* days of a month
    MaxLimit,   \* the largest data_limit, in units
    Ops,        \* which OpKinds the run starts
    MaxOps,     \* bound: handler runs
    MaxDays,    \* bound: days that pass
    Faults      \* which FaultKinds the run injects

OpKinds == {"create", "update", "nodes", "uuid", "del", "reset",
            "botUpdate", "botDel", "botReset", "ingest", "delNode"}
BotOps    == {"botUpdate", "botDel", "botReset"}
FaultKinds == {"panelCrash", "dbError", "offline"}

ASSUME FirstAssumption == First \subseteq Ids /\ NoRow \notin Ids
ASSUME AccountBounds == /\ MaxOps \in Nat /\ MaxDays \in Nat /\ MaxLimit \in Nat
                        /\ MonthDays \in Nat \ {0}
ASSUME DaysAssumption == Days \subseteq 0..MonthDays /\ 0 \in Days
ASSUME AccountChoices == Ops \subseteq OpKinds /\ Faults \subseteq FaultKinds

VARIABLES
    row,        \* users
    made,       \* ids handed out so far
    nodes,      \* nodes: the ids that exist
    assign,     \* user_nodes
    split,      \* node_traffic: split[u][n]
    online,     \* Hub.conns: the nodes that are connected
    serves,     \* serves[n]: the (user, UUID) pairs of node n's last sync
    wk,         \* wk[w]: where a goroutine is in its handler
    loop,       \* autoResetLoop's goroutine
    today,      \* the clock
    ops,        \* handler runs so far
    (* history, read by no action of the system *)
    dropped,    \* usage whose node_traffic row went with its node
    missed,     \* nodes not connected, or that a change concerns whose handler
                \* does not know it
    resetFor,   \* resetFor[u]: reset instants that were carried out
    again,      \* users reset a second time in the same month
    torn,       \* users whose reset was carried out and not recorded
    moved,      \* users whose reset day was moved to a later one once they had
                \* been reset, or while autoResetLoop had them in hand
    swept,      \* now of autoResetLoop's last round, Never before its first
    late        \* users whose reset failed in that round, or whose reset day
                \* has changed since it listed them

dbVars    == <<row, made, nodes, assign, split>>
resetVars == <<resetFor, again, torn, moved, swept, late>>
histVars  == <<dropped, missed, resetVars>>
vars == <<row, made, nodes, assign, split, online, serves, wk, loop, today, ops,
          dropped, missed, resetFor, again, torn, moved, swept, late>>

Never == -1     \* last_reset of a user never reset

Row == [on: BOOLEAN, limit: 0..MaxLimit, used: 0..MaxOps, uuid: 0..MaxOps,
        day: Days, last: Never..MaxDays]

ASSUME NoRowAssumption ==
    NoRow \notin [on: BOOLEAN, limit: 0..MaxLimit, used: Nat, uuid: 0..MaxOps, day: Days,
                  last: Never..MaxDays]

\* Which settings a request sets, and to what.
Patches == [on: BOOLEAN] \cup [limit: 0..MaxLimit] \cup [day: Days]

NewRow(l, d) == [on |-> TRUE, limit |-> l, used |-> 0, uuid |-> 0, day |-> d,
                 last |-> Never]

Idle == [pc |-> "idle"]

\* active: enabled and under quota.
Active(r) == r # NoRow /\ r.on /\ (r.limit = 0 \/ r.used < r.limit)

\* UsersForNode joined with active: whom node n is to serve.
Effective(n) == {<<u, row[u].uuid>> : u \in {v \in Ids : <<v, n>> \in assign
                                                          /\ Active(row[v])}}

NodesOf(u) == {n \in Nodes : <<u, n>> \in assign}

Init ==
    /\ row \in [Ids -> {NoRow} \cup {NewRow(l, d) : l \in 0..MaxLimit, d \in Days}]
    /\ \A u \in Ids : row[u] # NoRow <=> u \in First
    /\ made = First
    /\ nodes = Nodes
    /\ assign = First \X Nodes
    /\ split = [u \in Ids |-> [n \in Nodes |-> 0]]
    /\ online = Nodes
    /\ serves = [n \in Nodes |-> Effective(n)]
    /\ wk = [w \in Workers |-> Idle]
    /\ loop = Idle
    /\ today = 0
    /\ ops = 0
    /\ dropped = [u \in Ids |-> 0]
    /\ missed = {}
    /\ resetFor = [u \in Ids |-> {}]
    /\ again = {}
    /\ torn = {}
    /\ moved = {}
    /\ swept = Never
    /\ late = {}

-----------------------------------------------------------------------------
(* Store methods.  Each sets the tables it writes. *)

\* Bug: the whole row is written back as it was read.
BugUpdated(u, r, patch) ==
    IF row[u] = NoRow THEN row
    ELSE [row EXCEPT ![u] = [f \in DOMAIN @ |-> IF f \in DOMAIN patch THEN patch[f]
                                                                     ELSE r[f]]]

\* UpdateUser: the settings, all of them as read and patched, and nothing else.
Updated(u, r, patch) ==
    LET new(f) == IF f \in DOMAIN patch THEN patch[f] ELSE r[f]
    IN  IF row[u] = NoRow THEN row
        ELSE [row EXCEPT ![u].on = new("on"), ![u].limit = new("limit"), ![u].day = new("day")]

\* ResetUserTraffic: the aggregate and the per-node rows in one transaction.
ResetUsage(u) ==
    /\ row' = IF row[u] = NoRow THEN row ELSE [row EXCEPT ![u].used = 0]
    /\ split' = [split EXCEPT ![u] = [n \in Nodes |-> 0]]
    /\ dropped' = [dropped EXCEPT ![u] = 0]

\* DeleteUser.
Deleted(u) ==
    /\ row' = [row EXCEPT ![u] = NoRow]
    /\ assign' = assign \ ({u} \X Nodes)
    /\ split' = [split EXCEPT ![u] = [n \in Nodes |-> 0]]

\* SetUserNodes: replace; nothing ties the rows to an existing user or node.
Assigned(u, S) == (assign \ ({u} \X Nodes)) \cup ({u} \X S)

-----------------------------------------------------------------------------
(* Handlers.  A worker carries the operation, the user, the patch or node  *)
(* set it was asked for, and what it has read.                             *)

Goto(w, pc) == [wk EXCEPT ![w].pc = pc]
Done(w)     == [wk EXCEPT ![w] = Idle]

Request(op, u, patch, set, pc) ==
    [pc |-> pc, op |-> op, u |-> u, patch |-> patch, set |-> set, r |-> NoRow, todo |-> {}]

NoPatch == [note |-> TRUE]

Ask(w, op, u, patch, set, pc) ==
    /\ op \in Ops
    /\ wk[w].pc = "idle"
    /\ ops < MaxOps
    /\ ops' = ops + 1
    /\ wk' = [wk EXCEPT ![w] = Request(op, u, patch, set, pc)]
    /\ UNCHANGED <<dbVars, serves, loop, online, today, histVars>>

\* A request arrives.  Handlers begin with GetUser, the bot with GetUserByName;
\* handleResetUserTraffic resets first and reads afterwards.
Begin(w) ==
    \/ \E u \in made :
        \/ \E p \in Patches : Ask(w, "update", u, p, {}, "get")
        \/ \E S \in SUBSET Nodes : Ask(w, "nodes", u, NoPatch, S, "get")
        \/ \E op \in {"uuid", "del"} : Ask(w, op, u, NoPatch, {}, "get")
        \/ Ask(w, "reset", u, NoPatch, {}, "write")
        \/ \E b \in BOOLEAN : Ask(w, "botUpdate", u, [on |-> b], {}, "name")
        \/ \E op \in {"botDel", "botReset"} : Ask(w, op, u, NoPatch, {}, "name")
    \/ \E u \in Ids \ made, S \in SUBSET Nodes : Ask(w, "create", u, NoPatch, S, "insert")
    \/ \E n \in Nodes, u \in Ids : Ask(w, "ingest", u, NoPatch, {n}, "users")

\* The process dies and starts again: handlers and connections are gone.
Crash ==
    /\ wk' = [w \in Workers |-> Idle]
    /\ loop' = Idle
    /\ online' = {}
    /\ missed' = Nodes
    /\ torn' = IF loop.pc = "record" THEN torn \cup {loop.u} ELSE torn
    /\ swept' = Never
    /\ UNCHANGED <<dbVars, serves, today, ops, dropped, resetFor, again, moved, late>>

\* botMutateUser: GetUserByName.
GetByName(w) ==
    /\ wk[w].pc = "name"
    /\ wk' = IF row[wk[w].u] = NoRow THEN Done(w) ELSE Goto(w, "get")
    /\ UNCHANGED <<dbVars, serves, loop, online, today, ops, histVars>>

\* GetUser's first query.  Without the row a handler answers 404; the reset
\* handler has nothing to sync.
GetRow(w) ==
    /\ wk[w].pc = "get"
    /\ row[wk[w].u] # NoRow \/ wk[w].op \notin BotOps
    /\ wk' = IF row[wk[w].u] = NoRow THEN Done(w)
             ELSE [wk EXCEPT ![w].r = row[wk[w].u], ![w].pc = "nids"]
    /\ UNCHANGED <<dbVars, serves, loop, online, today, ops, histVars>>

\* The bot ignores GetUser's error and dereferences nil: the panel dies.
BotPanics(w) ==
    /\ wk[w].pc = "get"
    /\ wk[w].op \in BotOps
    /\ row[wk[w].u] = NoRow \/ "dbError" \in Faults
    /\ Crash

\* GetUser's second query, userNodeIDs.
GetNodes(w) ==
    /\ wk[w].pc = "nids"
    /\ wk' = [wk EXCEPT ![w].todo = NodesOf(wk[w].u),
                        ![w].pc = IF wk[w].op = "reset" THEN "sync" ELSE "write"]
    /\ UNCHANGED <<dbVars, serves, loop, online, today, ops, histVars>>

\* A store call fails.  A handler answers with an error and stops; the bot, and
\* handleCreateUser's SetUserNodes, carry on to the sync without the result.
StoreFails(w) ==
    LET x == wk[w]
        ignored == (x.op \in BotOps /\ x.pc \in {"nids", "write"} /\ x.op # "botDel")
                   \/ (x.op = "create" /\ x.pc = "write") \/ x.pc = "add"
    IN  /\ "dbError" \in Faults
        /\ x.pc \in {"name", "get", "nids", "insert", "write", "users", "add"}
        /\ x.pc = "get" => x.op \notin BotOps
        /\ wk' = IF x.pc = "nids" /\ x.op \in BotOps THEN Goto(w, "write")
                 ELSE IF ignored THEN [wk EXCEPT ![w].todo = @ \cup x.set, ![w].pc = "sync"]
                 ELSE Done(w)
        /\ missed' = IF x.op = "reset" /\ x.pc # "write" THEN missed \cup NodesOf(x.u)
                     ELSE missed
        /\ UNCHANGED <<dbVars, serves, loop, online, today, ops, dropped, resetVars>>

\* CreateUser.
Insert(w) ==
    /\ wk[w].pc = "insert"
    /\ LET u == wk[w].u IN
        IF u \in made THEN /\ wk' = Done(w)
                           /\ UNCHANGED <<row, made>>
        ELSE /\ row' = [row EXCEPT ![u] = NewRow(0, 0)]
             /\ made' = made \cup {u}
             /\ wk' = IF wk[w].set = {} THEN Done(w) ELSE Goto(w, "write")
    /\ UNCHANGED <<nodes, assign, split, serves, loop, online, today, ops, histVars>>

\* Bug: only the nodes the user joins are synced.
BugTouched(x) == IF x.op \in {"nodes", "create"} THEN x.set ELSE x.todo

\* The nodes the handler will sync: those it read, left and joined.
Touched(x) == x.todo \cup x.set

\* autoResetLoop has listed user u and is not done with it.
InRound(u) == \/ loop.pc = "list" /\ u \in DOMAIN loop.rows
              \/ loop.pc \in {"next", "record", "sync"} /\ u \in DOMAIN loop.due

\* The handler's write; what it does not know of is missed.
Write(w) ==
    LET x == wk[w]
        u == x.u
    IN  /\ x.pc = "write"
        /\ wk' = [wk EXCEPT ![w].todo = Touched(x),
                            ![w].pc = IF x.op = "reset" THEN "get" ELSE "sync"]
        /\ missed' = IF x.op = "reset" THEN missed
                     ELSE missed \cup (NodesOf(u) \ (x.todo \cup x.set))
        /\ \/ /\ x.op \in {"update", "botUpdate"}
              /\ row' = Updated(u, x.r, x.patch)
              /\ UNCHANGED <<assign, split, dropped>>
           \/ /\ x.op = "uuid"
              /\ row' = IF row[u] = NoRow THEN row ELSE [row EXCEPT ![u].uuid = ops]
              /\ UNCHANGED <<assign, split, dropped>>
           \/ /\ x.op \in {"nodes", "create"}
              /\ assign' = Assigned(u, x.set)
              /\ UNCHANGED <<row, split, dropped>>
           \/ /\ x.op \in {"del", "botDel"}
              /\ Deleted(u)
              /\ UNCHANGED dropped
           \/ /\ x.op \in {"reset", "botReset"}
              /\ ResetUsage(u)
              /\ UNCHANGED assign
        /\ moved' = moved \cup {v \in {u} : row[v] # NoRow /\ row'[v] # NoRow
                                           /\ row'[v].day > row[v].day
                                           /\ (resetFor[v] # {} \/ InRound(v))}
        /\ late' = late \cup {v \in {u} : row[v] # NoRow /\ row'[v] # NoRow
                                         /\ row'[v].day # row[v].day}
        /\ UNCHANGED <<made, nodes, serves, loop, online, today, ops, resetFor, again, torn,
                       swept>>

\* syncNode: PushConfig fails when the node is not connected, or (GetNode) gone.
SyncNode(n) ==
    IF n \in online
    THEN /\ serves' = IF n \in nodes THEN [serves EXCEPT ![n] = Effective(n)] ELSE serves
         /\ missed' = missed \ {n}
    ELSE UNCHANGED <<serves, missed>>

\* A handler syncs one of its nodes.
SyncOne(w, n) ==
    /\ wk[w].pc = "sync"
    /\ n \in wk[w].todo
    /\ wk' = [wk EXCEPT ![w].todo = @ \ {n}]
    /\ SyncNode(n)
    /\ UNCHANGED <<dbVars, loop, online, today, ops, dropped, resetVars>>

Finish(w) ==
    /\ wk[w].pc = "sync"
    /\ wk[w].todo = {}
    /\ wk' = Done(w)
    /\ UNCHANGED <<dbVars, serves, loop, online, today, ops, histVars>>

\* ingestTraffic, UsersForNode: is the user this node's?
Lookup(w) ==
    /\ wk[w].pc = "users"
    /\ wk' = IF \E n \in wk[w].set : <<wk[w].u, n>> \in assign /\ row[wk[w].u] # NoRow
             THEN Goto(w, "add") ELSE [wk EXCEPT ![w].pc = "sync", ![w].todo = wk[w].set]
    /\ UNCHANGED <<dbVars, serves, loop, online, today, ops, histVars>>

\* Bug: both directions are added for each.
BugAddTwice(w) ==
    LET u == wk[w].u
    IN  /\ wk[w].pc = "add"
        /\ row' = IF row[u] = NoRow THEN row ELSE [row EXCEPT ![u].used = @ + 2]
        /\ split' = [split EXCEPT ![u] = [n \in Nodes |->
                        split[u][n] + IF n \in wk[w].set THEN 2 ELSE 0]]
        /\ missed' = IF row[u] # NoRow /\ Active(row'[u]) # Active(row[u])
                     THEN missed \cup (NodesOf(u) \ wk[w].set) ELSE missed
        /\ wk' = [wk EXCEPT ![w].pc = "sync", ![w].todo = wk[w].set]
        /\ UNCHANGED <<made, nodes, assign, serves, loop, online, today, ops, dropped,
                       resetVars>>

\* AddTraffic; a user over quota leaves this node at once, others later.
AddTraffic(w) ==
    LET u == wk[w].u
    IN  /\ wk[w].pc = "add"
        /\ row' = IF row[u] = NoRow THEN row ELSE [row EXCEPT ![u].used = @ + 1]
        /\ split' = [split EXCEPT ![u] = [n \in Nodes |->
                        split[u][n] + IF n \in wk[w].set THEN 1 ELSE 0]]
        /\ missed' = IF row[u] # NoRow /\ Active(row'[u]) # Active(row[u])
                     THEN missed \cup (NodesOf(u) \ wk[w].set) ELSE missed
        /\ wk' = [wk EXCEPT ![w].pc = "sync", ![w].todo = wk[w].set]
        /\ UNCHANGED <<made, nodes, assign, serves, loop, online, today, ops, dropped,
                       resetVars>>

\* handleDeleteNode: the node's rows go; usage already counted stays counted.
DeleteNode(n) ==
    /\ "delNode" \in Ops
    /\ n \in nodes
    /\ nodes' = nodes \ {n}
    /\ assign' = assign \ (Ids \X {n})
    /\ split' = [u \in Ids |-> [split[u] EXCEPT ![n] = 0]]
    /\ dropped' = [u \in Ids |-> dropped[u] + split[u][n]]
    /\ UNCHANGED <<row, made, serves, wk, loop, online, today, ops, missed, resetVars>>

\* enforcementLoop's tick visits the connected nodes.
Enforce(n) ==
    /\ n \in online
    /\ SyncNode(n)
    /\ UNCHANGED <<dbVars, wk, loop, online, today, ops, dropped, resetVars>>

\* Bug: a node that connects is not pushed to.
BugConnect(n) ==
    /\ n \in nodes \ online
    /\ online' = online \cup {n}
    /\ missed' = missed \ {n}
    /\ UNCHANGED <<dbVars, serves, wk, loop, today, ops, dropped, resetVars>>

\* handleWS: a node that exists registers, and forceSyncNode pushes; a store error
\* leaves that to the next sync.
Connect(n) ==
    /\ n \in nodes \ online
    /\ online' = online \cup {n}
    /\ \/ /\ serves' = [serves EXCEPT ![n] = Effective(n)]
          /\ missed' = missed \ {n}
       \/ "dbError" \in Faults /\ UNCHANGED <<serves, missed>>
    /\ UNCHANGED <<dbVars, wk, loop, today, ops, dropped, resetVars>>

\* unregister.
Disconnect(n) ==
    /\ "offline" \in Faults
    /\ n \in online
    /\ online' = online \ {n}
    /\ missed' = missed \cup {n}
    /\ UNCHANGED <<dbVars, serves, wk, loop, today, ops, dropped, resetVars>>

-----------------------------------------------------------------------------
(* autoResetLoop. *)

Month(d) == d \div MonthDays

\* The reset instant of the month that contains day d.
Instant(d, day) == Month(d) * MonthDays + (day - 1)

\* Bug: a reset at the very instant does not count as one.
BugResetDue(now, r) ==
    r.day >= 1 /\ now >= Instant(now, r.day) /\ r.last <= Instant(now, r.day)

\* Bug: no catching up after the day itself.
BugResetDueToday(now, r) ==
    r.day >= 1 /\ now = Instant(now, r.day) /\ r.last < Instant(now, r.day)

\* monthlyResetDue.
ResetDue(now, r) ==
    r.day >= 1 /\ now >= Instant(now, r.day) /\ r.last < Instant(now, r.day)

\* A new day.
NextDay ==
    /\ today < MaxDays
    /\ today' = today + 1
    /\ UNCHANGED <<dbVars, online, serves, wk, loop, ops, histVars>>

\* The hourly check: ListUsers' rows (only a reset day can make one due).
ListUsers ==
    /\ loop.pc = "idle"
    /\ \E u \in Ids : row[u] # NoRow /\ row[u].day >= 1
    /\ loop' = [pc |-> "list", rows |-> [u \in {v \in Ids : row[v] # NoRow} |->
                                          [day |-> row[u].day, last |-> row[u].last]]]
    /\ late' = {}
    /\ UNCHANGED <<dbVars, serves, wk, online, today, ops, dropped, missed, resetFor, again,
                   torn, moved, swept>>

\* Its assignments, then now, and who is due.
Check ==
    /\ loop.pc = "list"
    /\ LET due == {u \in DOMAIN loop.rows : ResetDue(today, loop.rows[u])}
       IN  /\ loop' = IF due = {} THEN Idle
                      ELSE [pc |-> "next", now |-> today,
                            due |-> [u \in due |-> [at |-> Instant(today, loop.rows[u].day),
                                                    nids |-> NodesOf(u)]]]
           /\ swept' = IF due = {} THEN today ELSE swept
    /\ UNCHANGED <<dbVars, serves, wk, online, today, ops, dropped, missed, resetFor, again,
                   torn, moved, late>>

Without(f, u) == [v \in DOMAIN f \ {u} |-> f[v]]

\* ResetUserTraffic of the next due user.
AutoReset(u) ==
    /\ loop.pc = "next"
    /\ u \in DOMAIN loop.due
    /\ loop' = [pc |-> "record", now |-> loop.now, due |-> loop.due, u |-> u]
    /\ ResetUsage(u)
    /\ again' = IF \E i \in resetFor[u] : Month(i) = Month(loop.due[u].at)
                THEN again \cup {u} ELSE again
    /\ resetFor' = [resetFor EXCEPT ![u] = @ \cup {loop.due[u].at}]
    /\ missed' = missed \cup (NodesOf(u) \ loop.due[u].nids)
    /\ UNCHANGED <<made, nodes, assign, serves, wk, online, today, ops, torn, moved, swept, late>>

\* It fails: logged, and the next one.
AutoResetFails(u) ==
    /\ "dbError" \in Faults
    /\ loop.pc = "next"
    /\ u \in DOMAIN loop.due
    /\ loop' = [pc |-> "sync", now |-> loop.now, due |-> Without(loop.due, u), todo |-> {}]
    /\ late' = late \cup {u}
    /\ UNCHANGED <<dbVars, serves, wk, online, today, ops, dropped, missed, resetFor, again,
                   torn, moved, swept>>

Recorded == [pc |-> "sync", now |-> loop.now, due |-> Without(loop.due, loop.u),
             todo |-> loop.due[loop.u].nids]

\* SetUserLastReset.  Then syncNode for each node.
RecordReset ==
    /\ loop.pc = "record"
    /\ row' = IF row[loop.u] = NoRow THEN row ELSE [row EXCEPT ![loop.u].last = loop.now]
    /\ loop' = Recorded
    /\ UNCHANGED <<made, nodes, assign, split, serves, wk, online, today, ops, histVars>>

\* Its error is ignored.
RecordFails ==
    /\ "dbError" \in Faults
    /\ loop.pc = "record"
    /\ torn' = torn \cup {loop.u}
    /\ loop' = Recorded
    /\ UNCHANGED <<dbVars, serves, wk, online, today, ops, dropped, missed, resetFor, again,
                   moved, swept, late>>

LoopSync(n) ==
    /\ loop.pc = "sync"
    /\ n \in loop.todo
    /\ loop' = [loop EXCEPT !.todo = @ \ {n}]
    /\ SyncNode(n)
    /\ UNCHANGED <<dbVars, wk, online, today, ops, dropped, resetVars>>

LoopNext ==
    /\ loop.pc = "sync"
    /\ loop.todo = {}
    /\ loop' = IF DOMAIN loop.due = {} THEN Idle
               ELSE [pc |-> "next", now |-> loop.now, due |-> loop.due]
    /\ swept' = IF DOMAIN loop.due = {} THEN loop.now ELSE swept
    /\ UNCHANGED <<dbVars, serves, wk, online, today, ops, dropped, missed, resetFor, again,
                   torn, moved, late>>

\* The panel process ends, by a signal or a crash, and starts again.
PanelCrash == "panelCrash" \in Faults /\ Crash

-----------------------------------------------------------------------------
Handle(w) ==
    \/ GetByName(w) \/ GetRow(w) \/ BotPanics(w) \/ GetNodes(w) \/ StoreFails(w)
    \/ Insert(w) \/ Write(w) \/ Lookup(w) \/ AddTraffic(w)
    \/ \E n \in Nodes : SyncOne(w, n)
    \/ Finish(w)

Loop ==
    \/ ListUsers \/ Check
    \/ \E u \in Ids : AutoReset(u) \/ AutoResetFails(u)
    \/ RecordReset \/ RecordFails
    \/ \E n \in Nodes : LoopSync(n)
    \/ LoopNext

Next ==
    \/ \E w \in Workers : Begin(w) \/ Handle(w)
    \/ \E n \in Nodes : DeleteNode(n) \/ Enforce(n) \/ Connect(n) \/ Disconnect(n)
    \/ Loop \/ NextDay \/ PanelCrash

Spec == Init /\ [][Next]_vars

-----------------------------------------------------------------------------
\* Type invariant.
TypeOK ==
    /\ row \in [Ids -> Row \cup {NoRow}]
    /\ made \subseteq Ids
    /\ nodes \subseteq Nodes
    /\ assign \subseteq Ids \X Nodes
    /\ split \in [Ids -> [Nodes -> 0..MaxOps]]
    /\ online \subseteq Nodes
    /\ serves \in [Nodes -> SUBSET (Ids \X (0..MaxOps))]
    /\ \A w \in Workers : wk[w].pc \in {"idle", "name", "get", "nids", "insert", "write",
                                        "users", "add", "sync"}
    /\ loop.pc \in {"idle", "list", "next", "record", "sync"}
    /\ today \in 0..MaxDays
    /\ ops \in 0..MaxOps
    /\ dropped \in [Ids -> 0..MaxOps]
    /\ missed \subseteq Nodes
    /\ resetFor \in [Ids -> SUBSET (0..MaxDays)]
    /\ again \subseteq Ids
    /\ torn \subseteq Ids
    /\ moved \subseteq Ids
    /\ swept \in Never..MaxDays
    /\ late \subseteq Ids

\* What the breakdown says of user u, each unit of traffic by its node and number.
Units(u) == UNION {{n} \X (1..split[u][n]) : n \in Nodes}

\* A user's aggregate usage is the sum of the per-node breakdown ("keeping the
\* two consistent", store.go:1090) and of what went with deleted nodes, though
\* edits that read the row earlier, resets, deletions and reports interleave.
BooksAgree ==
    \A u \in Ids : row[u] # NoRow => row[u].used = Cardinality(Units(u)) + dropped[u]

\* No goroutine is at work.
Quiet == loop.pc \in {"idle", "list"} /\ \A w \in Workers : wk[w].pc = "idle"

\* Every handler syncs every node its change concerns: once all are done a node
\* serves exactly its effective users, unless it is not connected, was assigned
\* after the handler read the assignments, had a report cross the quota on another
\* node, or had its handler cut short (api.go, bot.go, traffic.go).
HandlersSync ==
    Quiet => \A n \in nodes \ missed : serves[n] = Effective(n)

\* "A reset fires once per month" (traffic.go:208, docs/users.md:14): no user is
\* reset twice in a month, unless the panel or the store failed between a reset
\* and its record, or the reset day was moved to a later day after a reset.
ResetOnce == again \subseteq torn \cup moved

\* And no less: when a round of autoResetLoop ends, every user whose reset day had
\* come when it looked has been reset in that month, whether the panel ran on the
\* day itself or not (traffic.go:208, "on or after resetDay").  Not so a user whose
\* reset failed in this round or whose reset day changed meanwhile; and a month that
\* ends before the panel runs again is not made up for.
MadeUp ==
    loop.pc = "idle" /\ swept # Never =>
        \A u \in Ids \ late :
            row[u] # NoRow /\ row[u].day >= 1 /\ swept >= Instant(swept, row[u].day) =>
                \E i \in resetFor[u] : Month(i) = Month(swept)

=============================================================================

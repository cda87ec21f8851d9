--------------------------- MODULE AccountsProofs ---------------------------
(***************************************************************************)
(* Proofs about Accounts, for any users, nodes, handlers and faults: its   *)
(* types, that a user's aggregate usage is the sum of its breakdown, that  *)
(* a quiet panel has synced what it changed, that no user is reset twice   *)
(* in a month, and that a round of resets leaves nobody out.               *)
(***************************************************************************)
EXTENDS Accounts, FiniteSetTheorems, TLAPS

\* Row without the bound on usage, which follows from the sums.
WideRow == [on: BOOLEAN, limit: 0..MaxLimit, used: Nat, uuid: 0..MaxOps, day: Days,
            last: Never..MaxDays]

ShapeOK ==
    /\ row \in [Ids -> WideRow \cup {NoRow}]
    /\ made \subseteq Ids
    /\ nodes \subseteq Nodes
    /\ assign \subseteq made \X Nodes
    /\ split \in [Ids -> [Nodes -> Nat]]
    /\ online \subseteq Nodes
    /\ Nodes \ online \subseteq missed
    /\ serves \in [Nodes -> SUBSET (Ids \X (0..MaxOps))]
    /\ today \in 0..MaxDays
    /\ ops \in 0..MaxOps
    /\ dropped \in [Ids -> Nat]
    /\ missed \subseteq Nodes
    /\ resetFor \in [Ids -> SUBSET (0..MaxDays)]
    /\ again \subseteq Ids
    /\ torn \subseteq Ids
    /\ moved \subseteq Ids
    /\ swept \in Never..MaxDays
    /\ late \subseteq Ids

\* What a worker holds, by where it is in its handler.
Job == [pc: {"name", "get", "nids", "insert", "write", "users", "add", "sync"}, op: OpKinds,
        u: Ids, patch: Patches \cup {NoPatch}, set: SUBSET Nodes, r: WideRow \cup {NoRow},
        todo: SUBSET Nodes]

JobOK(x) ==
    /\ x.pc \in {"name", "get", "nids"} => x.op \notin {"create", "ingest"}
    /\ x.pc \in {"write", "nids"} /\ x.op \in {"update", "botUpdate"} => x.r \in WideRow
    /\ x.op \in {"update", "botUpdate"} => x.patch \in Patches
    /\ x.pc = "insert" => x.op = "create"
    /\ x.pc = "write" => x.op # "ingest"
    /\ x.pc \in {"users", "add"} => x.op = "ingest" /\ \E n \in Nodes : x.set = {n}
    /\ x.pc \in {"name", "get", "nids", "write", "add"} => x.u \in made

WorkersOK ==
    /\ wk \in [Workers -> {Idle} \cup Job]
    /\ \A w \in Workers : wk[w].pc # "idle" => JobOK(wk[w])

\* What the reset loop holds.
DueOK(f) ==
    /\ DOMAIN f \subseteq made
    /\ \A u \in DOMAIN f : f[u].at \in 0..MaxDays /\ f[u].at <= loop.now /\ f[u].nids \subseteq Nodes

LoopOK ==
    /\ loop.pc \in {"idle", "list", "next", "record", "sync"}
    /\ loop.pc = "list" =>
          /\ DOMAIN loop.rows \subseteq made
          /\ \A u \in DOMAIN loop.rows : /\ loop.rows[u].day \in Days
                                         /\ loop.rows[u].last \in Never..MaxDays
    /\ loop.pc \in {"next", "record", "sync"} => loop.now \in 0..today /\ DueOK(loop.due)
    /\ loop.pc = "record" => loop.u \in DOMAIN loop.due
    /\ loop.pc = "sync" =>
          /\ loop = [pc |-> "sync", now |-> loop.now, due |-> loop.due, todo |-> loop.todo]
          /\ loop.todo \subseteq Nodes

\* Of an id that was not handed out there is nothing.
FreshOK ==
    \A u \in Ids \ made : /\ row[u] = NoRow
                          /\ split[u] = [n \in Nodes |-> 0]
                          /\ dropped[u] = 0
                          /\ resetFor[u] = {}

\* A unit of usage, in the breakdown or gone with its node, or one that a report still
\* carries, is a request that came.
Adding == {w \in Workers : wk[w].pc \in {"users", "add"}}

SumsOK ==
    /\ IsFiniteSet(Adding)
    /\ \A u \in Ids : /\ IsFiniteSet(Units(u))
                      /\ Cardinality(Units(u)) + dropped[u] + Cardinality(Adding) <= ops

BaseInv == ShapeOK /\ WorkersOK /\ LoopOK /\ FreshOK /\ SumsOK /\ BooksAgree

\* A node that is not missed and serves other users than it should is on the list of a
\* goroutine, or assigned to a user whose reset has yet to read its nodes.
Syncing(n) ==
    \/ \E w \in Workers : wk[w].pc = "sync" /\ n \in wk[w].todo
    \/ loop.pc = "sync" /\ n \in loop.todo
    \/ loop.pc = "record" /\ n \in loop.due[loop.u].nids

Owes(w, n) == /\ wk[w].pc \in {"get", "nids"}
              /\ wk[w].op = "reset"
              /\ row[wk[w].u] # NoRow
              /\ <<wk[w].u, n>> \in assign

Owed(n) == \E w \in Workers : Owes(w, n)

ServesInStep ==
    \A n \in nodes \ missed : serves[n] = Effective(n) \/ Syncing(n) \/ Owed(n)

Recording(u) == loop.pc = "record" /\ loop.u = u
Listed(u)    == loop.pc = "list" /\ u \in DOMAIN loop.rows
Due(u)       == loop.pc \in {"next", "record", "sync"} /\ u \in DOMAIN loop.due /\ ~Recording(u)

\* While the loop has a user in hand, its reset day is none later than the one listed.
DayKept(u) ==
    row[u] # NoRow => /\ Listed(u) => row[u].day <= loop.rows[u].day
                      /\ Due(u) => Instant(loop.due[u].at, row[u].day) <= loop.due[u].at

\* An instant a user was reset for lies behind its last reset and not before the reset day
\* of its month; what the loop has in hand for that user belongs to another month.
Behind(u, a) ==
    /\ row[u] # NoRow => /\ Instant(a, row[u].day) <= a
                         /\ a <= IF Recording(u) THEN loop.now ELSE row[u].last
    /\ Listed(u) => Instant(a, loop.rows[u].day) <= a /\ a <= loop.rows[u].last
    /\ Due(u) => a < loop.due[u].at /\ Month(a) # Month(loop.due[u].at)

ResetInStep ==
    /\ again \subseteq torn \cup moved
    /\ \A u \in Ids \ (torn \cup moved) : DayKept(u) /\ \A a \in resetFor[u] : Behind(u, a)

\* What autoResetLoop leaves undone, for each user and at each point of its round: nothing
\* that had come, but for the late ones.
HasReset(u, d) == \E i \in resetFor[u] : Month(i) = Month(d)
Came(d, day)   == day >= 1 /\ d >= Instant(d, day)

MadeFor(u) ==
    /\ row[u] # NoRow /\ row[u].last # Never => row[u].last <= today /\ HasReset(u, row[u].last)
    /\ Listed(u) /\ loop.rows[u].last # Never =>
          loop.rows[u].last <= today /\ HasReset(u, loop.rows[u].last)
    /\ u \notin late /\ row[u] # NoRow =>
          /\ loop.pc = "list" => row[u].day = IF Listed(u) THEN loop.rows[u].day ELSE 0
          /\ loop.pc \in {"next", "record", "sync"} /\ ~Due(u) /\ Came(loop.now, row[u].day) =>
                HasReset(u, loop.now)
          /\ loop.pc = "idle" /\ swept # Never /\ Came(swept, row[u].day) => HasReset(u, swept)

MadeInStep ==
    /\ \A u \in Ids : MadeFor(u)
    /\ loop.pc = "record" => HasReset(loop.u, loop.now)
    /\ loop.pc \in {"next", "record", "sync"} =>
          \A u \in DOMAIN loop.due : Month(loop.due[u].at) = Month(loop.now)

-----------------------------------------------------------------------------
(* Handlers: what a worker holds. *)

LEMMA JobFields ==
    ASSUME WorkersOK, NEW w \in Workers, wk[w].pc # "idle"
    PROVE  /\ wk[w] \in Job /\ JobOK(wk[w])
           /\ DOMAIN wk = Workers
           /\ wk[w].u \in Ids /\ wk[w].op \in OpKinds /\ wk[w].set \subseteq Nodes
           /\ wk[w].todo \subseteq Nodes /\ wk[w].r \in WideRow \cup {NoRow}
           /\ wk[w].patch \in Patches \cup {NoPatch}
  BY DEF WorkersOK, Job, Idle

\* A worker that goes on with a job in order leaves the others' as they are.
LEMMA WorkerKept ==
    ASSUME WorkersOK, NEW w \in Workers, NEW x \in {Idle} \cup Job, x.pc # "idle" => JobOK(x)',
           wk' = [wk EXCEPT ![w] = x], made \subseteq made'
    PROVE  WorkersOK'
<1>1. wk' \in [Workers -> {Idle} \cup Job]
  BY DEF WorkersOK
<1>2. ASSUME NEW v \in Workers, wk'[v].pc # "idle" PROVE JobOK(wk[v])'
  <2>1. CASE v = w
    <3>1. wk'[v] = x
      BY <2>1 DEF WorkersOK
    <3> QED BY <1>2, <3>1 DEF JobOK
  <2>2. CASE v # w
    <3>1. wk'[v] = wk[v] /\ JobOK(wk[v])
      BY <1>2, <2>2 DEF WorkersOK
    <3> QED BY <3>1 DEF JobOK
  <2> QED BY <2>1, <2>2
<1> QED BY <1>1, <1>2 DEF WorkersOK

LEMMA WorkersStay ==
    ASSUME WorkersOK, wk' = wk, made' = made PROVE WorkersOK'
  BY DEF WorkersOK, JobOK

LEMMA AskJob ==
    ASSUME NEW w \in Workers, NEW op \in OpKinds, NEW u \in Ids, NEW S \in SUBSET Nodes,
           NEW patch \in Patches \cup {NoPatch},
           NEW pc \in {"name", "get", "insert", "write", "users"}
    PROVE  /\ Request(op, u, patch, S, pc) \in Job
           /\ Request(op, u, patch, S, pc).pc = pc
           /\ Request(op, u, patch, S, pc).op = op
           /\ Request(op, u, patch, S, pc).u = u
           /\ Request(op, u, patch, S, pc).set = S
           /\ Request(op, u, patch, S, pc).patch = patch
  BY DEF Request, Job

LEMMA PatchOn == \A b \in BOOLEAN : [on |-> b] \in Patches
  BY DEF Patches

\* A request that comes is a job in order, and all that a step of Begin changes.
LEMMA BeginJob ==
    ASSUME ShapeOK, NEW w \in Workers, Begin(w)
    PROVE  /\ \E x \in Job : /\ wk' = [wk EXCEPT ![w] = x]
                             /\ JobOK(x)
                             /\ x.pc \in {"name", "get", "insert", "write", "users"}
                             /\ x.pc = "get" => x.op # "reset"
           /\ wk[w].pc = "idle" /\ ops < MaxOps /\ ops' = ops + 1
           /\ UNCHANGED <<dbVars, serves, loop, online, today, histVars>>
<1> DEFINE Good(x) == /\ JobOK(x)
                      /\ x.pc \in {"name", "get", "insert", "write", "users"}
                      /\ x.pc = "get" => x.op # "reset"
           Asked(op, u, patch, S, pc) ==
               Ask(w, op, u, patch, S, pc) /\ Request(op, u, patch, S, pc) \in Job
                  /\ Good(Request(op, u, patch, S, pc))
<1>1. ASSUME NEW u \in made
      PROVE  /\ \A p \in Patches : Ask(w, "update", u, p, {}, "get")
                                     => Asked("update", u, p, {}, "get")
             /\ \A S \in SUBSET Nodes : Ask(w, "nodes", u, NoPatch, S, "get")
                                     => Asked("nodes", u, NoPatch, S, "get")
             /\ \A op \in {"uuid", "del"} : Ask(w, op, u, NoPatch, {}, "get")
                                     => Asked(op, u, NoPatch, {}, "get")
             /\ Ask(w, "reset", u, NoPatch, {}, "write") => Asked("reset", u, NoPatch, {}, "write")
             /\ \A b \in BOOLEAN : Ask(w, "botUpdate", u, [on |-> b], {}, "name")
                                     => Asked("botUpdate", u, [on |-> b], {}, "name")
             /\ \A op \in {"botDel", "botReset"} : Ask(w, op, u, NoPatch, {}, "name")
                                     => Asked(op, u, NoPatch, {}, "name")
  <2>0. u \in Ids
    BY DEF ShapeOK
  <2>1. ASSUME NEW p \in Patches PROVE Ask(w, "update", u, p, {}, "get") =>
                                          Asked("update", u, p, {}, "get")
    BY <2>0, AskJob DEF OpKinds, JobOK
  <2>2. ASSUME NEW S \in SUBSET Nodes PROVE Ask(w, "nodes", u, NoPatch, S, "get")
                                              => Asked("nodes", u, NoPatch, S, "get")
    BY <2>0, AskJob DEF OpKinds, JobOK
  <2>3. ASSUME NEW op \in {"uuid", "del"} PROVE Ask(w, op, u, NoPatch, {}, "get")
                                              => Asked(op, u, NoPatch, {}, "get")
    BY <2>0, AskJob DEF OpKinds, JobOK
  <2>4. Ask(w, "reset", u, NoPatch, {}, "write") => Asked("reset", u, NoPatch, {}, "write")
    BY <2>0, AskJob DEF OpKinds, JobOK
  <2>5. ASSUME NEW b \in BOOLEAN, NEW p, p = [on |-> b]
        PROVE Ask(w, "botUpdate", u, p, {}, "name") => Asked("botUpdate", u, p, {}, "name")
    <3>1. p \in Patches
      BY <2>5, PatchOn
    <3> QED BY <2>0, <3>1, AskJob DEF OpKinds, JobOK
  <2>6. ASSUME NEW op \in {"botDel", "botReset"} PROVE Ask(w, op, u, NoPatch, {}, "name")
                                              => Asked(op, u, NoPatch, {}, "name")
    BY <2>0, AskJob DEF OpKinds, JobOK
  <2> HIDE DEF Asked
  <2> QED BY <2>1, <2>2, <2>3, <2>4, <2>5, <2>6
<1>2. ASSUME NEW u \in Ids \ made, NEW S \in SUBSET Nodes
      PROVE  Ask(w, "create", u, NoPatch, S, "insert") => Asked("create", u, NoPatch, S, "insert")
  BY AskJob DEF OpKinds, JobOK
<1>3. ASSUME NEW n \in Nodes, NEW u \in Ids
      PROVE  Ask(w, "ingest", u, NoPatch, {n}, "users") => Asked("ingest", u, NoPatch, {n}, "users")
  BY AskJob DEF OpKinds, JobOK
<1>4. ASSUME NEW op, NEW u, NEW p, NEW S, NEW pc, Asked(op, u, p, S, pc)
      PROVE  /\ \E x \in Job : wk' = [wk EXCEPT ![w] = x] /\ Good(x)
             /\ wk[w].pc = "idle" /\ ops < MaxOps /\ ops' = ops + 1
             /\ UNCHANGED <<dbVars, serves, loop, online, today, histVars>>
  <2> HIDE DEF Good
  <2> QED BY <1>4 DEF Ask
<1>5. \E op, u, p, S, pc : Asked(op, u, p, S, pc)
  <2> HIDE DEF Asked
  <2> QED BY <1>1, <1>2, <1>3 DEF Begin
<1> QED BY <1>4, <1>5

LEMMA CrashedWorkers == ASSUME Crash PROVE WorkersOK'
  BY DEF Crash, WorkersOK, Idle

LEMMA HandleWorkers ==
    ASSUME ShapeOK, WorkersOK, FreshOK, NEW w \in Workers, Handle(w) PROVE WorkersOK'
<1> DEFINE x == wk[w]
<1>0. ASSUME x.pc # "idle"
      PROVE  /\ x \in Job /\ JobOK(x) /\ wk \in [Workers -> {Idle} \cup Job]
             /\ x.set \subseteq Nodes /\ x.todo \subseteq Nodes /\ x.u \in Ids
  BY <1>0, JobFields DEF WorkersOK
<1>1. CASE GetByName(w)
  <2>0. x \in Job /\ JobOK(x) /\ x.pc = "name"
    BY <1>0, <1>1 DEF GetByName
  <2>1. PICK y \in {Idle, [x EXCEPT !.pc = "get"]} : wk' = [wk EXCEPT ![w] = y]
    BY <1>0, <1>1, <2>0 DEF GetByName, Done, Goto
  <2>2. y \in {Idle} \cup Job /\ (y.pc # "idle" => JobOK(y)') /\ made' = made
    BY <1>1, <2>0 DEF GetByName, Job, JobOK, Idle, dbVars
  <2> QED BY <2>1, <2>2, WorkerKept
<1>2. CASE GetRow(w)
  <2>0. x \in Job /\ JobOK(x) /\ x.pc = "get" /\ x.u \in Ids
    BY <1>0, <1>2 DEF GetRow
  <2>1. PICK y \in {Idle, [x EXCEPT !.r = row[x.u], !.pc = "nids"]} :
               /\ wk' = [wk EXCEPT ![w] = y]
               /\ row[x.u] = NoRow => y = Idle
    BY <1>0, <1>2, <2>0 DEF GetRow, Done
  <2>2. row[x.u] \in WideRow \cup {NoRow}
    BY <2>0 DEF ShapeOK
  <2>3. y \in {Idle} \cup Job /\ (y.pc # "idle" => JobOK(y)') /\ made' = made
    <3>1. CASE row[x.u] = NoRow
      BY <1>2, <2>1, <3>1 DEF GetRow, Idle, dbVars
    <3>2. CASE row[x.u] # NoRow
      <4>0. PICK r \in WideRow : r = row[x.u]
        BY <2>2, <3>2
      <4>1. [x EXCEPT !.r = r, !.pc = "nids"] \in Job
        BY <2>0 DEF Job
      <4>2. made' = made
        BY <1>2 DEF GetRow, dbVars
      <4>3. CASE y = [x EXCEPT !.r = r, !.pc = "nids"]
        BY <2>0, <4>1, <4>2, <4>3 DEF Job, JobOK
      <4> QED BY <2>1, <4>0, <4>2, <4>3 DEF Idle
    <3> QED BY <3>1, <3>2
  <2> QED BY <2>1, <2>3, WorkerKept
<1>3. CASE BotPanics(w)
  BY <1>3, CrashedWorkers DEF BotPanics
<1>4. CASE GetNodes(w)
  <2>0. x \in Job /\ JobOK(x) /\ x.pc = "nids" /\ NodesOf(x.u) \subseteq Nodes
    BY <1>0, <1>4 DEF GetNodes, NodesOf
  <2>1. PICK y \in {[x EXCEPT !.todo = NodesOf(x.u), !.pc = "sync"],
                    [x EXCEPT !.todo = NodesOf(x.u), !.pc = "write"]} :
               wk' = [wk EXCEPT ![w] = y]
    BY <1>0, <1>4, <2>0 DEF GetNodes
  <2>2. y \in {Idle} \cup Job /\ (y.pc # "idle" => JobOK(y)') /\ made' = made
    BY <1>4, <2>0 DEF GetNodes, Job, JobOK, Idle, dbVars
  <2> QED BY <2>1, <2>2, WorkerKept
<1>5. CASE StoreFails(w)
  <2>0. x \in Job /\ JobOK(x) /\ x.set \subseteq Nodes /\ x.todo \subseteq Nodes /\ made' = made
    BY <1>0, <1>5 DEF StoreFails, dbVars
  <2>1. \/ wk' = [wk EXCEPT ![w] = Idle]
        \/ wk' = [wk EXCEPT ![w] = [x EXCEPT !.pc = "write"]] /\ x.pc = "nids" /\ x.op \in BotOps
        \/ wk' = [wk EXCEPT ![w] = [x EXCEPT !.todo = @ \cup x.set, !.pc = "sync"]]
    BY <1>0, <1>5, <2>0 DEF StoreFails, Done, Goto
  <2>2. CASE wk' = [wk EXCEPT ![w] = Idle]
    BY <2>0, <2>2, WorkerKept DEF Idle
  <2>3. CASE wk' = [wk EXCEPT ![w] = [x EXCEPT !.pc = "write"]] /\ x.pc = "nids" /\ x.op \in BotOps
    <3>y. PICK y : y = [x EXCEPT !.pc = "write"]
      OBVIOUS
    <3>1. y \in Job /\ JobOK(y)'
      BY <3>y, <2>0, <2>3 DEF Job, JobOK, BotOps
    <3> QED BY <3>y, <2>0, <2>3, <3>1, WorkerKept
  <2>4. CASE wk' = [wk EXCEPT ![w] = [x EXCEPT !.todo = @ \cup x.set, !.pc = "sync"]]
    <3>y. PICK y : y = [x EXCEPT !.todo = @ \cup x.set, !.pc = "sync"]
      OBVIOUS
    <3>1. y \in Job /\ JobOK(y)'
      BY <3>y, <2>0 DEF Job, JobOK
    <3> QED BY <3>y, <2>0, <2>4, <3>1, WorkerKept
  <2> QED BY <2>1, <2>2, <2>3, <2>4
<1>6. CASE Insert(w)
  <2>0. x \in Job /\ JobOK(x) /\ x.pc = "insert"
    BY <1>0, <1>6 DEF Insert
  <2>1. PICK y \in {Idle, [x EXCEPT !.pc = "write"]} :
           wk' = [wk EXCEPT ![w] = y] /\ (y # Idle => made' = made \cup {x.u}) /\ made \subseteq made'
    BY <1>0, <1>6, <2>0 DEF Insert, Done, Goto
  <2>2. y \in {Idle} \cup Job /\ (y.pc # "idle" => JobOK(y)')
    BY <2>0, <2>1 DEF Job, JobOK, Idle
  <2> QED BY <2>1, <2>2, WorkerKept
<1>7. CASE Write(w)
  <2>0. /\ x \in Job /\ JobOK(x) /\ x.pc = "write" /\ made' = made
        /\ x.set \subseteq Nodes /\ x.todo \subseteq Nodes
    BY <1>0, <1>7 DEF Write
  <2>1. PICK pc \in {"get", "sync"} : wk' = [wk EXCEPT ![w] = [x EXCEPT !.todo = x.todo \cup x.set,
                                                                        !.pc = pc]]
                                       /\ (pc = "get" => x.op = "reset")
    BY <1>0, <1>7, <2>0 DEF Write, Touched
  <2>y. PICK y : y = [x EXCEPT !.todo = x.todo \cup x.set, !.pc = pc]
    OBVIOUS
  <2>2. y \in Job /\ JobOK(y)'
    BY <2>y, <2>0, <2>1 DEF Job, JobOK
  <2> QED BY <2>y, <2>0, <2>1, <2>2, WorkerKept
<1>8. CASE Lookup(w)
  <2>0. /\ x \in Job /\ JobOK(x) /\ x.pc = "users" /\ made' = made /\ x.set \subseteq Nodes
        /\ x.u \in Ids
    BY <1>0, <1>8 DEF Lookup, dbVars
  <2>1. \/ wk' = [wk EXCEPT ![w] = [x EXCEPT !.pc = "add"]] /\ row[x.u] # NoRow
        \/ wk' = [wk EXCEPT ![w] = [x EXCEPT !.pc = "sync", !.todo = x.set]]
    BY <1>0, <1>8, <2>0 DEF Lookup, Goto
  <2>2. CASE wk' = [wk EXCEPT ![w] = [x EXCEPT !.pc = "add"]] /\ row[x.u] # NoRow
    <3>y. PICK y : y = [x EXCEPT !.pc = "add"]
      OBVIOUS
    <3>1. x.u \in made
      BY <2>0, <2>2 DEF FreshOK
    <3>2. y \in Job /\ JobOK(y)'
      BY <3>y, <2>0, <3>1 DEF Job, JobOK
    <3> QED BY <3>y, <2>0, <2>2, <3>2, WorkerKept
  <2>3. CASE wk' = [wk EXCEPT ![w] = [x EXCEPT !.pc = "sync", !.todo = x.set]]
    <3>y. PICK y : y = [x EXCEPT !.pc = "sync", !.todo = x.set]
      OBVIOUS
    <3>1. y \in Job /\ JobOK(y)'
      BY <3>y, <2>0 DEF Job, JobOK
    <3> QED BY <3>y, <2>0, <2>3, <3>1, WorkerKept
  <2> QED BY <2>1, <2>2, <2>3
<1>9. CASE AddTraffic(w)
  <2>0. x \in Job /\ JobOK(x) /\ made' = made /\ x.set \subseteq Nodes
    BY <1>0, <1>9 DEF AddTraffic
  <2>y. PICK y : y = [x EXCEPT !.pc = "sync", !.todo = x.set]
    OBVIOUS
  <2>1. wk' = [wk EXCEPT ![w] = y]
    BY <2>y, <1>0, <1>9, <2>0 DEF AddTraffic
  <2>2. y \in Job /\ JobOK(y)'
    BY <2>y, <2>0 DEF Job, JobOK
  <2> QED BY <2>0, <2>1, <2>2, WorkerKept
<1>10. ASSUME NEW n \in Nodes, SyncOne(w, n) PROVE WorkersOK'
  <2>0. x \in Job /\ JobOK(x) /\ made' = made /\ x.todo \subseteq Nodes /\ x.pc = "sync"
    BY <1>0, <1>10 DEF SyncOne, dbVars
  <2>y. PICK y : y = [x EXCEPT !.todo = @ \ {n}]
    OBVIOUS
  <2>1. wk' = [wk EXCEPT ![w] = y]
    BY <2>y, <1>0, <1>10, <2>0 DEF SyncOne
  <2>2. y \in Job /\ JobOK(y)'
    BY <2>y, <2>0 DEF Job, JobOK
  <2> QED BY <2>0, <2>1, <2>2, WorkerKept
<1>11. CASE Finish(w)
  <2>1. wk' = [wk EXCEPT ![w] = Idle] /\ made' = made
    BY <1>11 DEF Finish, Done, dbVars
  <2> QED BY <2>1, WorkerKept DEF Idle
<1> HIDE DEF x
<1> QED BY <1>1, <1>2, <1>3, <1>4, <1>5, <1>6, <1>7, <1>8, <1>9, <1>10, <1>11 DEF Handle

LEMMA NextWorkers ==
    ASSUME ShapeOK, WorkersOK, FreshOK, Next PROVE WorkersOK'
<1>1. ASSUME NEW w \in Workers, Begin(w) PROVE WorkersOK'
  <2>1. PICK x \in Job : wk' = [wk EXCEPT ![w] = x] /\ JobOK(x)
    BY <1>1, BeginJob
  <2>2. made' = made
    BY <1>1, BeginJob DEF dbVars
  <2>3. JobOK(x)'
    BY <2>1, <2>2 DEF JobOK
  <2> QED BY <2>1, <2>2, <2>3, WorkerKept
<1>2. ASSUME NEW w \in Workers, Handle(w) PROVE WorkersOK'
  BY <1>2, HandleWorkers
<1>3. ASSUME NEW n \in Nodes, DeleteNode(n) \/ Enforce(n) \/ Connect(n) \/ Disconnect(n)
      PROVE  WorkersOK'
  BY <1>3, WorkersStay DEF DeleteNode, Enforce, Connect, Disconnect, dbVars
<1>4. CASE Loop
  <2>1. wk' = wk /\ made' = made
    BY <1>4 DEF Loop, ListUsers, Check, AutoReset, AutoResetFails, RecordReset, RecordFails,
       LoopSync, LoopNext, dbVars
  <2> QED BY <2>1, WorkersStay
<1>5. CASE NextDay
  BY <1>5, WorkersStay DEF NextDay, dbVars
<1>6. CASE PanelCrash
  BY <1>6, CrashedWorkers DEF PanelCrash
<1> QED BY <1>1, <1>2, <1>3, <1>4, <1>5, <1>6 DEF Next

-----------------------------------------------------------------------------
(* The reset loop: what it holds. *)

LEMMA InstantType ==
    ASSUME NEW d \in Nat, NEW day \in Days, day >= 1 PROVE Instant(d, day) \in Nat
<1>1. d \div MonthDays \in Nat
  BY AccountBounds
<1>2. \A q \in Nat : q * MonthDays \in Nat
  BY AccountBounds
<1> QED BY <1>1, <1>2, DaysAssumption, AccountBounds DEF Instant, Month

LEMMA LoopIdle == ASSUME loop' = Idle PROVE LoopOK'
  BY DEF LoopOK, Idle

LEMMA LoopStays ==
    ASSUME ShapeOK, LoopOK, loop' = loop, made \subseteq made', today' \in Nat, today <= today'
    PROVE  LoopOK'
<1>1. ASSUME loop.pc \in {"next", "record", "sync"}
      PROVE  loop.now \in 0..today' /\ DueOK(loop.due)'
  BY <1>1 DEF ShapeOK, LoopOK, DueOK
<1> QED BY <1>1 DEF LoopOK

LEMMA LoopSteps ==
    ASSUME ShapeOK, LoopOK, FreshOK, Loop PROVE LoopOK'
<1>0. /\ made' = made /\ today' = today /\ today \in 0..MaxDays /\ MaxDays \in Nat
      /\ row \in [Ids -> WideRow \cup {NoRow}] /\ made \subseteq Ids
  BY AccountBounds
     DEF ShapeOK, Loop, ListUsers, Check, AutoReset, AutoResetFails, RecordReset, RecordFails,
         LoopSync, LoopNext, dbVars
<1>1. CASE ListUsers
  <2>1. ASSUME NEW u \in Ids, row[u] # NoRow
        PROVE  u \in made /\ row[u].day \in Days /\ row[u].last \in Never..MaxDays
    <3>1. row[u] \in WideRow /\ u \in made
      BY <1>0, <2>1 DEF FreshOK
    <3> QED BY <3>1 DEF WideRow
  <2>2. loop'.pc = "list"
    BY <1>1 DEF ListUsers
  <2>3. /\ DOMAIN loop'.rows = {v \in Ids : row[v] # NoRow}
        /\ \A u \in DOMAIN loop'.rows : /\ loop'.rows[u].day = row[u].day
                                        /\ loop'.rows[u].last = row[u].last
    BY <1>1 DEF ListUsers
  <2>4. /\ DOMAIN loop'.rows \subseteq made'
        /\ \A u \in DOMAIN loop'.rows : /\ loop'.rows[u].day \in Days
                                        /\ loop'.rows[u].last \in Never..MaxDays
    BY <1>0, <2>1, <2>3
  <2> QED BY <2>2, <2>4 DEF LoopOK
<1>2. CASE Check
  <2> DEFINE due == {u \in DOMAIN loop.rows : ResetDue(today, loop.rows[u])}
             f   == [u \in due |-> [at |-> Instant(today, loop.rows[u].day), nids |-> NodesOf(u)]]
  <2>1. ASSUME NEW u \in due
        PROVE  /\ u \in made /\ f[u].at \in 0..MaxDays /\ f[u].at <= today
               /\ f[u].nids \subseteq Nodes
    <3>1. u \in made /\ loop.rows[u].day \in Days /\ ResetDue(today, loop.rows[u])
      BY <1>2 DEF Check, LoopOK
    <3>2. Instant(today, loop.rows[u].day) \in Nat
      BY <1>0, <3>1, InstantType DEF ResetDue
    <3>3. Instant(today, loop.rows[u].day) <= today
      BY <1>0, <3>1, <3>2 DEF ResetDue
    <3> QED BY <1>0, <3>1, <3>2, <3>3 DEF NodesOf
  <2>2. CASE due = {}
    BY <1>2, <2>2, LoopIdle DEF Check
  <2>3. CASE due # {}
    <3>1. loop' = [pc |-> "next", now |-> today, due |-> f]
      BY <1>2, <2>3 DEF Check
    <3>2. DOMAIN f = due
      OBVIOUS
    <3> HIDE DEF f, due
    <3>3. loop'.pc = "next" /\ loop'.now = today /\ loop'.due = f
      BY <3>1
    <3>4. DueOK(loop.due)'
      BY <1>0, <2>1, <3>2, <3>3 DEF DueOK
    <3> QED BY <1>0, <3>3, <3>4 DEF LoopOK
  <2> QED BY <2>2, <2>3
<1>3. ASSUME NEW u \in Ids, AutoReset(u) PROVE LoopOK'
  <2>1. /\ loop'.pc = "record" /\ loop'.now = loop.now /\ loop'.due = loop.due /\ loop'.u = u
        /\ loop.pc = "next" /\ u \in DOMAIN loop.due
    BY <1>3 DEF AutoReset
  <2>2. DueOK(loop.due)'
    BY <1>0, <2>1 DEF LoopOK, DueOK
  <2> QED BY <1>0, <2>1, <2>2 DEF LoopOK
<1>4. ASSUME NEW u, u \in DOMAIN loop.due, NEW S \in SUBSET Nodes,
             loop.pc \in {"next", "record"},
             loop' = [pc |-> "sync", now |-> loop.now, due |-> Without(loop.due, u), todo |-> S]
      PROVE  LoopOK'
  <2>1. /\ loop'.pc = "sync" /\ loop'.now = loop.now /\ loop'.due = Without(loop.due, u)
        /\ loop'.todo = S
        /\ loop' = [pc |-> "sync", now |-> loop'.now, due |-> loop'.due, todo |-> loop'.todo]
    BY <1>4
  <2>2. /\ DOMAIN loop'.due = DOMAIN loop.due \ {u}
        /\ \A v \in DOMAIN loop'.due : loop'.due[v] = loop.due[v]
    BY <2>1 DEF Without
  <2>3. DueOK(loop.due)'
    BY <1>0, <1>4, <2>1, <2>2 DEF LoopOK, DueOK
  <2> QED BY <1>0, <1>4, <2>1, <2>3 DEF LoopOK
<1>5. ASSUME NEW u \in Ids, AutoResetFails(u) PROVE LoopOK'
  BY <1>4, <1>5 DEF AutoResetFails
<1>6. CASE RecordReset \/ RecordFails
  <2>1. loop' = Recorded /\ loop.pc = "record"
    BY <1>6 DEF RecordReset, RecordFails
  <2>2. loop.u \in DOMAIN loop.due /\ loop.due[loop.u].nids \subseteq Nodes
    BY <2>1 DEF LoopOK, DueOK
  <2> QED BY <1>4, <2>1, <2>2 DEF Recorded
<1>7. ASSUME NEW n \in Nodes, LoopSync(n) PROVE LoopOK'
  <2>0. /\ loop.pc = "sync" /\ loop' = [loop EXCEPT !.todo = @ \ {n}]
        /\ loop = [pc |-> "sync", now |-> loop.now, due |-> loop.due, todo |-> loop.todo]
        /\ loop.todo \subseteq Nodes
    BY <1>7 DEF LoopSync, LoopOK
  <2>1. loop' = [pc |-> "sync", now |-> loop.now, due |-> loop.due, todo |-> loop.todo \ {n}]
    BY <2>0
  <2>2. loop'.pc = "sync" /\ loop'.now = loop.now /\ loop'.due = loop.due /\ loop'.todo = loop.todo \ {n}
    BY <2>1
  <2>3. DueOK(loop.due)'
    BY <1>0, <2>0, <2>2 DEF LoopOK, DueOK
  <2> QED BY <1>0, <2>0, <2>1, <2>2, <2>3 DEF LoopOK
<1>8. CASE LoopNext
  <2>1. CASE loop' = Idle
    BY <2>1, LoopIdle
  <2>2. CASE loop' = [pc |-> "next", now |-> loop.now, due |-> loop.due]
    <3>1. loop'.pc = "next" /\ loop'.now = loop.now /\ loop'.due = loop.due /\ loop.pc = "sync"
      BY <1>8, <2>2 DEF LoopNext
    <3>2. DueOK(loop.due)'
      BY <1>0, <3>1 DEF LoopOK, DueOK
    <3> QED BY <1>0, <3>1, <3>2 DEF LoopOK
  <2> QED BY <1>8, <2>1, <2>2 DEF LoopNext
<1> QED BY <1>1, <1>2, <1>3, <1>5, <1>6, <1>7, <1>8 DEF Loop

LEMMA NextLoop ==
    ASSUME ShapeOK, LoopOK, FreshOK, Next PROVE LoopOK'
<1>1. ASSUME NEW w \in Workers, Begin(w) PROVE LoopOK'
  <2>1. loop' = loop /\ made' = made /\ today' = today
    BY <1>1, BeginJob DEF dbVars
  <2> QED BY <2>1, LoopStays DEF ShapeOK
<1>2. ASSUME NEW w \in Workers, Handle(w) PROVE LoopOK'
  <2>1. CASE BotPanics(w)
    BY <2>1, LoopIdle DEF BotPanics, Crash
  <2>2. CASE ~BotPanics(w)
    <3>1. loop' = loop /\ made \subseteq made' /\ today' = today
      BY <1>2, <2>2 DEF Handle, GetByName, GetRow, GetNodes, StoreFails, Insert, Write, Lookup,
         AddTraffic, SyncOne, Finish, dbVars
    <3> QED BY <3>1, LoopStays DEF ShapeOK
  <2> QED BY <2>1, <2>2
<1>3. ASSUME NEW n \in Nodes, DeleteNode(n) \/ Enforce(n) \/ Connect(n) \/ Disconnect(n)
      PROVE  LoopOK'
  <2>1. loop' = loop /\ made' = made /\ today' = today
    BY <1>3 DEF DeleteNode, Enforce, Connect, Disconnect, dbVars
  <2> QED BY <2>1, LoopStays DEF ShapeOK
<1>4. CASE Loop
  BY <1>4, LoopSteps
<1>5. CASE NextDay
  <2>1. loop' = loop /\ made' = made /\ today' = today + 1
    BY <1>5 DEF NextDay, dbVars
  <2> QED BY <2>1, LoopStays DEF ShapeOK
<1>6. CASE PanelCrash
  BY <1>6, LoopIdle DEF PanelCrash, Crash
<1> QED BY <1>1, <1>2, <1>3, <1>4, <1>5, <1>6 DEF Next

-----------------------------------------------------------------------------
(* Rows. *)

\* What an update makes of the settings.
New(p, r, f) == IF f \in DOMAIN p THEN p[f] ELSE r[f]

LEMMA PatchedSettings ==
    ASSUME NEW r \in WideRow, NEW p \in Patches
    PROVE  New(p, r, "on") \in BOOLEAN /\ New(p, r, "limit") \in 0..MaxLimit /\ New(p, r, "day") \in Days
<1>0. r.on \in BOOLEAN /\ r.limit \in 0..MaxLimit /\ r.day \in Days
  BY DEF WideRow
<1>1. CASE p \in [on: BOOLEAN]
  BY <1>0, <1>1 DEF New
<1>2. CASE p \in [limit: 0..MaxLimit]
  BY <1>0, <1>2 DEF New
<1>3. CASE p \in [day: Days]
  BY <1>0, <1>3 DEF New
<1> QED BY <1>1, <1>2, <1>3 DEF Patches

LEMMA ThreeFields ==
    ASSUME NEW f, NEW u \in DOMAIN f, NEW a, NEW b, NEW c
    PROVE  [f EXCEPT ![u].on = a, ![u].limit = b, ![u].day = c]
             = [f EXCEPT ![u] = [f[u] EXCEPT !.on = a, !.limit = b, !.day = c]]
  OBVIOUS

\* One row changes, if it is there.
RowStep(u, q) ==
    /\ row' = [row EXCEPT ![u] = q]
    /\ q \in WideRow \cup {NoRow}
    /\ row[u] = NoRow => q = NoRow

LEMMA UpdatedRow ==
    ASSUME ShapeOK, NEW u \in Ids, NEW r \in WideRow, NEW p \in Patches, row' = Updated(u, r, p)
    PROVE  \E q : /\ RowStep(u, q)
                  /\ row[u] # NoRow =>
                        q \in WideRow /\ q.used = row[u].used /\ q.last = row[u].last
<1>1. CASE row[u] = NoRow
  <2>1. RowStep(u, NoRow)
    BY <1>1 DEF RowStep, Updated, ShapeOK
  <2> QED BY <1>1, <2>1
<1>2. CASE row[u] # NoRow
  <2>1. row[u] \in WideRow
    BY <1>2 DEF ShapeOK
  <2>2. PICK a \in BOOLEAN, b \in 0..MaxLimit, c \in Days :
              a = New(p, r, "on") /\ b = New(p, r, "limit") /\ c = New(p, r, "day")
    BY PatchedSettings
  <2>3. PICK q : q = [row[u] EXCEPT !.on = a, !.limit = b, !.day = c]
    OBVIOUS
  <2>4. row' = [row EXCEPT ![u] = q]
    <3>1. row' = [row EXCEPT ![u].on = a, ![u].limit = b, ![u].day = c]
      BY <1>2, <2>2, Zenon DEF Updated, New
    <3>2. u \in DOMAIN row
      BY DEF ShapeOK
    <3> QED BY <2>3, <3>1, <3>2, ThreeFields
  <2>5. q \in WideRow /\ q.used = row[u].used /\ q.last = row[u].last
    <3>1. \A o \in WideRow : q = [o EXCEPT !.on = a, !.limit = b, !.day = c] =>
             q \in WideRow /\ q.used = o.used /\ q.last = o.last
      BY DEF WideRow
    <3> QED BY <2>1, <2>3, <3>1
  <2> QED BY <1>2, <2>4, <2>5 DEF RowStep
<1> QED BY <1>1, <1>2

LEMMA UuidRow ==
    ASSUME ShapeOK, NEW u \in Ids,
           row' = IF row[u] = NoRow THEN row ELSE [row EXCEPT ![u].uuid = ops]
    PROVE  \E q : /\ RowStep(u, q)
                  /\ row[u] # NoRow =>
                        q \in WideRow /\ q.used = row[u].used /\ q.last = row[u].last
<1>1. CASE row[u] = NoRow
  <2>1. RowStep(u, NoRow)
    BY <1>1 DEF RowStep, ShapeOK
  <2> QED BY <1>1, <2>1
<1>2. CASE row[u] # NoRow
  <2>1. row[u] \in WideRow /\ ops \in 0..MaxOps
    BY <1>2 DEF ShapeOK
  <2>2. PICK q : q = [row[u] EXCEPT !.uuid = ops]
    OBVIOUS
  <2>3. row' = [row EXCEPT ![u] = q]
    BY <1>2, <2>2 DEF ShapeOK
  <2>4. q \in WideRow /\ q.used = row[u].used /\ q.last = row[u].last
    BY <2>1, <2>2 DEF WideRow
  <2> QED BY <1>2, <2>3, <2>4 DEF RowStep
<1> QED BY <1>1, <1>2

LEMMA UsedRow ==
    ASSUME ShapeOK, NEW u \in Ids, NEW k \in Nat,
           row' = IF row[u] = NoRow THEN row ELSE [row EXCEPT ![u].used = k]
    PROVE  \E q : /\ RowStep(u, q)
                  /\ row[u] # NoRow =>
                        /\ q \in WideRow /\ q.used = k /\ q.last = row[u].last
                        /\ q.uuid = row[u].uuid /\ q.day = row[u].day
<1>1. CASE row[u] = NoRow
  <2>1. RowStep(u, NoRow)
    BY <1>1 DEF RowStep, ShapeOK
  <2> QED BY <1>1, <2>1
<1>2. CASE row[u] # NoRow
  <2>1. row[u] \in WideRow
    BY <1>2 DEF ShapeOK
  <2>2. PICK q : q = [row[u] EXCEPT !.used = k]
    OBVIOUS
  <2>3. row' = [row EXCEPT ![u] = q]
    BY <1>2, <2>2 DEF ShapeOK
  <2>4. /\ q \in WideRow /\ q.used = k /\ q.last = row[u].last /\ q.uuid = row[u].uuid
        /\ q.day = row[u].day
    BY <2>1, <2>2 DEF WideRow
  <2> QED BY <1>2, <2>3, <2>4 DEF RowStep
<1> QED BY <1>1, <1>2

LEMMA LastRow ==
    ASSUME ShapeOK, NEW u \in Ids, NEW k \in Never..MaxDays,
           row' = IF row[u] = NoRow THEN row ELSE [row EXCEPT ![u].last = k]
    PROVE  \E q : /\ RowStep(u, q)
                  /\ row[u] # NoRow =>
                        /\ q \in WideRow /\ q.used = row[u].used /\ q.last = k
                        /\ q.uuid = row[u].uuid /\ q.limit = row[u].limit /\ (q.on <=> row[u].on)
                        /\ q.day = row[u].day
<1>1. CASE row[u] = NoRow
  <2>1. RowStep(u, NoRow)
    BY <1>1 DEF RowStep, ShapeOK
  <2> QED BY <1>1, <2>1
<1>2. CASE row[u] # NoRow
  <2>1. row[u] \in WideRow
    BY <1>2 DEF ShapeOK
  <2>2. PICK q : q = [row[u] EXCEPT !.last = k]
    OBVIOUS
  <2>3. row' = [row EXCEPT ![u] = q]
    BY <1>2, <2>2 DEF ShapeOK
  <2>4. /\ q \in WideRow /\ q.used = row[u].used /\ q.last = k
        /\ q.uuid = row[u].uuid /\ q.limit = row[u].limit /\ (q.on <=> row[u].on)
        /\ q.day = row[u].day
    BY <2>1, <2>2 DEF WideRow
  <2> QED BY <1>2, <2>3, <2>4 DEF RowStep
<1> QED BY <1>1, <1>2

LEMMA NewRowType == NewRow(0, 0) \in WideRow /\ NewRow(0, 0).used = 0 /\ NewRow(0, 0).last = Never
  BY DaysAssumption, AccountBounds DEF NewRow, WideRow, Never

\* What a row step leaves of the others, and of this one.
LEMMA RowAfter ==
    ASSUME ShapeOK, NEW u \in Ids, NEW q, RowStep(u, q)
    PROVE  /\ row' \in [Ids -> WideRow \cup {NoRow}]
           /\ row'[u] = q
           /\ \A v \in Ids : v # u => row'[v] = row[v]
           /\ \A v \in Ids : row[v] = NoRow => row'[v] = NoRow
  BY DEF ShapeOK, RowStep

-----------------------------------------------------------------------------
(* The shape of the tables. *)

LEMMA EffectiveType ==
    ASSUME ShapeOK, NEW n PROVE Effective(n) \subseteq Ids \X (0..MaxOps)
<1>1. ASSUME NEW v \in Ids, Active(row[v]) PROVE row[v].uuid \in 0..MaxOps
  <2>1. row[v] \in WideRow
    BY <1>1 DEF ShapeOK, Active
  <2> QED BY <2>1 DEF WideRow
<1>2. ASSUME NEW p \in Effective(n) PROVE p \in Ids \X (0..MaxOps)
  <2>1. PICK v \in Ids : Active(row[v]) /\ p = <<v, row[v].uuid>>
    BY <1>2, Zenon DEF Effective
  <2> QED BY <1>1, <2>1
<1> QED BY <1>2

LEMMA ShapeStays ==
    ASSUME ShapeOK, UNCHANGED <<dbVars, online, serves, today, ops, histVars>> PROVE ShapeOK'
  BY DEF ShapeOK, dbVars, histVars, resetVars

\* A step of autoResetLoop's round that changes none of the tables.
LEMMA ShapeRound ==
    ASSUME ShapeOK, UNCHANGED <<dbVars, online, serves, today, ops, dropped, missed, resetFor,
                                again, torn, moved>>,
           swept' \in Never..MaxDays, late' \subseteq Ids
    PROVE  ShapeOK'
  BY DEF ShapeOK, dbVars

LEMMA ShapeSynced ==
    ASSUME ShapeOK, NEW n \in Nodes, UNCHANGED <<dbVars, online, today, ops, dropped, resetVars>>,
           SyncNode(n)
    PROVE  ShapeOK'
<1>1. serves' \in [Nodes -> SUBSET (Ids \X (0..MaxOps))]
  BY EffectiveType DEF ShapeOK, SyncNode
<1>2. missed' \subseteq Nodes /\ Nodes \ online' \subseteq missed'
  BY DEF ShapeOK, SyncNode
<1> QED BY <1>1, <1>2 DEF ShapeOK, dbVars, resetVars

LEMMA ConnectShape ==
    ASSUME ShapeOK, NEW n \in Nodes, Connect(n) \/ Disconnect(n) PROVE ShapeOK'
<1>1. serves' \in [Nodes -> SUBSET (Ids \X (0..MaxOps))]
  BY EffectiveType DEF ShapeOK, Connect, Disconnect
<1>2. /\ missed' \subseteq Nodes /\ online' \subseteq Nodes /\ Nodes \ online' \subseteq missed'
      /\ UNCHANGED <<dbVars, today, ops, dropped, resetVars>>
  BY DEF ShapeOK, Connect, Disconnect
<1> QED BY <1>1, <1>2 DEF ShapeOK, dbVars, resetVars

LEMMA ShapeCrashed == ASSUME ShapeOK, LoopOK, Crash PROVE ShapeOK'
<1>1. torn' \subseteq Ids
  <2>1. loop.pc = "record" => loop.u \in Ids
    BY DEF LoopOK, DueOK, ShapeOK
  <2> QED BY <2>1 DEF Crash, ShapeOK
<1> QED BY <1>1, AccountBounds DEF Crash, ShapeOK, dbVars, Never

LEMMA ResetShape ==
    ASSUME ShapeOK, NEW u \in Ids, ResetUsage(u)
    PROVE  /\ row' \in [Ids -> WideRow \cup {NoRow}]
           /\ split' \in [Ids -> [Nodes -> Nat]]
           /\ dropped' \in [Ids -> Nat]
<1>1. PICK q : RowStep(u, q)
  BY UsedRow DEF ResetUsage
<1>2. row' \in [Ids -> WideRow \cup {NoRow}]
  BY <1>1, RowAfter
<1>3. [n \in Nodes |-> 0] \in [Nodes -> Nat]
  OBVIOUS
<1> QED BY <1>2, <1>3 DEF ResetUsage, ShapeOK

LEMMA WriteShape ==
    ASSUME ShapeOK, WorkersOK, NEW w \in Workers, Write(w) PROVE ShapeOK'
<1> DEFINE u == wk[w].u
<1>0. /\ wk[w].pc = "write" /\ JobOK(wk[w]) /\ u \in Ids /\ u \in made /\ wk[w].set \subseteq Nodes
      /\ wk[w].op \in OpKinds
  BY JobFields DEF Write, JobOK
<1>1. /\ UNCHANGED <<made, nodes, online, serves, today, ops, resetFor, again, torn, swept>>
      /\ missed' \subseteq Nodes /\ missed \subseteq missed'
  BY DEF Write, NodesOf, ShapeOK
<1>3. moved' \subseteq Ids /\ late' \subseteq Ids
  BY <1>0 DEF Write, ShapeOK
<1>2. /\ row' \in [Ids -> WideRow \cup {NoRow}]
      /\ assign' \subseteq made \X Nodes
      /\ split' \in [Ids -> [Nodes -> Nat]]
      /\ dropped' \in [Ids -> Nat]
  <2>1. CASE /\ wk[w].op \in {"update", "botUpdate"}
             /\ row' = Updated(u, wk[w].r, wk[w].patch)
             /\ UNCHANGED <<assign, split, dropped>>
    <3>1. wk[w].r \in WideRow /\ wk[w].patch \in Patches
      BY <1>0, <2>1 DEF JobOK
    <3>2. PICK q : RowStep(u, q)
      BY <1>0, <2>1, <3>1, UpdatedRow
    <3>3. row' \in [Ids -> WideRow \cup {NoRow}]
      BY <1>0, <3>2, RowAfter
    <3> QED BY <2>1, <3>3 DEF ShapeOK
  <2>2. CASE /\ wk[w].op = "uuid"
             /\ row' = IF row[u] = NoRow THEN row ELSE [row EXCEPT ![u].uuid = ops]
             /\ UNCHANGED <<assign, split, dropped>>
    <3>2. PICK q : RowStep(u, q)
      BY <1>0, <2>2, UuidRow
    <3>3. row' \in [Ids -> WideRow \cup {NoRow}]
      BY <1>0, <3>2, RowAfter
    <3> QED BY <2>2, <3>3 DEF ShapeOK
  <2>3. CASE /\ wk[w].op \in {"nodes", "create"}
             /\ assign' = Assigned(u, wk[w].set)
             /\ UNCHANGED <<row, split, dropped>>
    BY <1>0, <2>3 DEF Assigned, ShapeOK
  <2>4. CASE wk[w].op \in {"del", "botDel"} /\ Deleted(u) /\ UNCHANGED dropped
    BY <1>0, <2>4 DEF Deleted, ShapeOK
  <2>5. CASE wk[w].op \in {"reset", "botReset"} /\ ResetUsage(u) /\ UNCHANGED assign
    <3>1. /\ row' \in [Ids -> WideRow \cup {NoRow}]
          /\ split' \in [Ids -> [Nodes -> Nat]]
          /\ dropped' \in [Ids -> Nat]
      BY <1>0, <2>5, ResetShape
    <3> QED BY <2>5, <3>1 DEF ShapeOK
  <2> QED BY <2>1, <2>2, <2>3, <2>4, <2>5 DEF Write
<1> QED BY <1>1, <1>2, <1>3 DEF ShapeOK

LEMMA AddShape ==
    ASSUME ShapeOK, WorkersOK, NEW w \in Workers, AddTraffic(w) PROVE ShapeOK'
<1> DEFINE u == wk[w].u
<1>0. u \in Ids
  BY JobFields DEF AddTraffic
<1>1. /\ UNCHANGED <<made, nodes, assign, online, serves, today, ops, dropped, resetVars>>
      /\ missed' \subseteq Nodes /\ missed \subseteq missed'
  BY DEF AddTraffic, NodesOf, ShapeOK
<1>2. row' \in [Ids -> WideRow \cup {NoRow}]
  <2>1. CASE row[u] = NoRow
    BY <2>1 DEF AddTraffic, ShapeOK
  <2>2. CASE row[u] # NoRow
    <3>1. row[u] \in WideRow
      BY <1>0, <2>2 DEF ShapeOK
    <3>2. row[u].used + 1 \in Nat
      BY <3>1 DEF WideRow
    <3>3. row' = IF row[u] = NoRow THEN row ELSE [row EXCEPT ![u].used = row[u].used + 1]
      BY DEF AddTraffic
    <3>4. PICK q : RowStep(u, q)
      BY <1>0, <3>2, <3>3, UsedRow
    <3> QED BY <1>0, <3>4, RowAfter
  <2> QED BY <2>1, <2>2
<1>3. split' \in [Ids -> [Nodes -> Nat]]
  <2>1. [n \in Nodes |-> split[u][n] + IF n \in wk[w].set THEN 1 ELSE 0] \in [Nodes -> Nat]
    BY <1>0 DEF ShapeOK
  <2> QED BY <1>0, <2>1 DEF AddTraffic, ShapeOK
<1> QED BY <1>1, <1>2, <1>3 DEF ShapeOK, resetVars

LEMMA HandleShape ==
    ASSUME ShapeOK, WorkersOK, LoopOK, NEW w \in Workers, Handle(w) PROVE ShapeOK'
<1>1. CASE GetByName(w) \/ GetRow(w) \/ GetNodes(w) \/ Lookup(w) \/ Finish(w)
  BY <1>1, ShapeStays DEF GetByName, GetRow, GetNodes, Lookup, Finish
<1>2. CASE BotPanics(w)
  BY <1>2, ShapeCrashed DEF BotPanics
<1>3. CASE StoreFails(w)
  BY <1>3 DEF StoreFails, ShapeOK, NodesOf, dbVars, resetVars
<1>4. CASE Insert(w)
  <2>0. wk[w].u \in Ids
    BY <1>4, JobFields DEF Insert
  <2>1. row' \in [Ids -> WideRow \cup {NoRow}] /\ made' \subseteq Ids /\ made \subseteq made'
    BY <1>4, <2>0, NewRowType DEF Insert, ShapeOK
  <2> QED BY <1>4, <2>1 DEF Insert, ShapeOK, histVars, resetVars
<1>5. CASE Write(w)
  BY <1>5, WriteShape
<1>6. CASE AddTraffic(w)
  BY <1>6, AddShape
<1>7. ASSUME NEW n \in Nodes, SyncOne(w, n) PROVE ShapeOK'
  BY <1>7, ShapeSynced DEF SyncOne
<1> QED BY <1>1, <1>2, <1>3, <1>4, <1>5, <1>6, <1>7 DEF Handle

LEMMA DeleteNodeShape ==
    ASSUME ShapeOK, NEW n \in Nodes, DeleteNode(n) PROVE ShapeOK'
<1>1. split' \in [Ids -> [Nodes -> Nat]]
  <2>1. \A u \in Ids : [split[u] EXCEPT ![n] = 0] \in [Nodes -> Nat]
    BY DEF ShapeOK
  <2> QED BY <2>1 DEF DeleteNode
<1>2. dropped' \in [Ids -> Nat]
  BY DEF DeleteNode, ShapeOK
<1> QED BY <1>1, <1>2 DEF DeleteNode, ShapeOK, resetVars

LEMMA LoopShape ==
    ASSUME ShapeOK, LoopOK, Loop PROVE ShapeOK'
<1>1. CASE ListUsers \/ Check \/ LoopNext
  <2>1. /\ loop.pc = "sync" => loop.now \in 0..MaxDays
        /\ today \in 0..MaxDays /\ swept \in Never..MaxDays /\ late \subseteq Ids
    BY AccountBounds DEF LoopOK, ShapeOK
  <2>2. swept' \in Never..MaxDays /\ late' \subseteq Ids
    BY <1>1, <2>1, AccountBounds DEF ListUsers, Check, LoopNext, Never
  <2> QED BY <1>1, <2>2, ShapeRound DEF ListUsers, Check, LoopNext
<1>2. ASSUME NEW u \in Ids, AutoReset(u) PROVE ShapeOK'
  <2>1. /\ row' \in [Ids -> WideRow \cup {NoRow}]
        /\ split' \in [Ids -> [Nodes -> Nat]]
        /\ dropped' \in [Ids -> Nat]
    BY <1>2, ResetShape DEF AutoReset
  <2>2. loop.due[u].at \in 0..MaxDays
    BY <1>2 DEF AutoReset, LoopOK, DueOK
  <2>3. resetFor' \in [Ids -> SUBSET (0..MaxDays)]
    BY <1>2, <2>2 DEF AutoReset, ShapeOK
  <2>4. again' \subseteq Ids /\ missed' \subseteq Nodes
    BY <1>2 DEF AutoReset, ShapeOK, NodesOf
  <2>5. /\ UNCHANGED <<made, nodes, assign, online, serves, today, ops, torn, moved, swept, late>>
        /\ missed \subseteq missed'
    BY <1>2 DEF AutoReset
  <2> QED BY <2>1, <2>3, <2>4, <2>5 DEF ShapeOK
<1>3. ASSUME NEW u \in Ids, AutoResetFails(u) PROVE ShapeOK'
  <2>1. swept' \in Never..MaxDays /\ late' \subseteq Ids
    BY <1>3 DEF AutoResetFails, ShapeOK
  <2> QED BY <1>3, <2>1, ShapeRound DEF AutoResetFails
<1>4. CASE RecordReset
  <2>1. loop.u \in Ids /\ loop.now \in Never..MaxDays
    BY <1>4, AccountBounds DEF RecordReset, LoopOK, DueOK, ShapeOK, Never
  <2>2. PICK q : RowStep(loop.u, q)
    BY <1>4, <2>1, LastRow DEF RecordReset
  <2>3. row' \in [Ids -> WideRow \cup {NoRow}]
    BY <2>1, <2>2, RowAfter
  <2>4. UNCHANGED <<made, nodes, assign, split, online, serves, today, ops, histVars>>
    BY <1>4 DEF RecordReset
  <2> QED BY <2>3, <2>4 DEF ShapeOK, histVars, resetVars
<1>5. CASE RecordFails
  <2>1. loop.u \in Ids
    BY <1>5 DEF RecordFails, LoopOK, DueOK, ShapeOK
  <2> QED BY <1>5, <2>1 DEF RecordFails, ShapeOK, dbVars
<1>6. ASSUME NEW n \in Nodes, LoopSync(n) PROVE ShapeOK'
  BY <1>6, ShapeSynced DEF LoopSync
<1> QED BY <1>1, <1>2, <1>3, <1>4, <1>5, <1>6 DEF Loop

LEMMA NextShape ==
    ASSUME ShapeOK, WorkersOK, LoopOK, Next PROVE ShapeOK'
<1>1. ASSUME NEW w \in Workers, Begin(w) PROVE ShapeOK'
  <2>1. ops' \in 0..MaxOps /\ UNCHANGED <<dbVars, online, serves, today, histVars>>
    BY <1>1, BeginJob, AccountBounds DEF ShapeOK
  <2> QED BY <2>1 DEF ShapeOK, dbVars, histVars, resetVars
<1>2. ASSUME NEW w \in Workers, Handle(w) PROVE ShapeOK'
  BY <1>2, HandleShape
<1>3. ASSUME NEW n \in Nodes, DeleteNode(n) PROVE ShapeOK'
  BY <1>3, DeleteNodeShape
<1>4. ASSUME NEW n \in Nodes, Enforce(n) \/ Connect(n) \/ Disconnect(n) PROVE ShapeOK'
  BY <1>4, ShapeSynced, ConnectShape DEF Enforce
<1>5. CASE Loop
  BY <1>5, LoopShape
<1>6. CASE NextDay
  BY <1>6, AccountBounds DEF NextDay, ShapeOK, dbVars, histVars, resetVars
<1>7. CASE PanelCrash
  BY <1>7, ShapeCrashed DEF PanelCrash
<1> QED BY <1>1, <1>2, <1>3, <1>4, <1>5, <1>6, <1>7 DEF Next

-----------------------------------------------------------------------------
(* Ids that were not handed out. *)

\* A step on one user that exists leaves the others, and the fresh ones, alone.
LEMMA FreshKept ==
    ASSUME FreshOK, NEW u \in Ids, u \in made', made \subseteq made',
           \A v \in Ids : v # u => /\ row'[v] = row[v] /\ split'[v] = split[v]
                                   /\ dropped'[v] = dropped[v] /\ resetFor'[v] = resetFor[v]
    PROVE  FreshOK'
  BY DEF FreshOK

LEMMA FreshStays ==
    ASSUME FreshOK, made' = made, UNCHANGED <<split, dropped, resetFor>>,
           \A v \in Ids : row[v] = NoRow => row'[v] = NoRow
    PROVE  FreshOK'
  BY DEF FreshOK

LEMMA ResetOthers ==
    ASSUME ShapeOK, NEW u \in Ids, ResetUsage(u)
    PROVE  /\ \A v \in Ids : v # u => /\ row'[v] = row[v] /\ split'[v] = split[v]
                                      /\ dropped'[v] = dropped[v]
           /\ split'[u] = [n \in Nodes |-> 0] /\ dropped'[u] = 0
           /\ row'[u] = NoRow \/ row'[u].used = 0
           /\ row[u] = NoRow => row'[u] = NoRow
<1>1. PICK q : RowStep(u, q) /\ (row[u] # NoRow => q.used = 0)
  BY UsedRow DEF ResetUsage
<1>2. /\ row'[u] = q /\ \A v \in Ids : v # u => row'[v] = row[v]
      /\ row[u] = NoRow => q = NoRow
  BY <1>1, RowAfter DEF RowStep
<1> QED BY <1>1, <1>2 DEF ResetUsage, ShapeOK

\* What a write does to the rows and to the breakdown.
LEMMA WriteOthers ==
    ASSUME ShapeOK, WorkersOK, NEW w \in Workers, Write(w)
    PROVE  LET u == wk[w].u IN
           /\ u \in Ids /\ u \in made
           /\ \A v \in Ids : v # u => /\ row'[v] = row[v] /\ split'[v] = split[v]
                                      /\ dropped'[v] = dropped[v]
           /\ row[u] = NoRow => row'[u] = NoRow
           /\ row'[u] # NoRow => row'[u].last = row[u].last
           /\ \/ /\ split'[u] = split[u] /\ dropped'[u] = dropped[u]
                 /\ row'[u] # NoRow => row'[u].used = row[u].used
              \/ /\ split'[u] = [n \in Nodes |-> 0] /\ dropped'[u] = dropped[u]
                 /\ row'[u] = NoRow
              \/ /\ split'[u] = [n \in Nodes |-> 0] /\ dropped'[u] = 0
                 /\ row'[u] = NoRow \/ row'[u].used = 0
<1> DEFINE u == wk[w].u
<1>0. wk[w].pc = "write" /\ JobOK(wk[w]) /\ u \in Ids /\ u \in made
  BY JobFields DEF Write, JobOK
<1>1. CASE /\ wk[w].op \in {"update", "botUpdate"}
           /\ row' = Updated(u, wk[w].r, wk[w].patch)
           /\ UNCHANGED <<assign, split, dropped>>
  <2>1. wk[w].r \in WideRow /\ wk[w].patch \in Patches
    BY <1>0, <1>1 DEF JobOK
  <2>2. PICK q : /\ RowStep(u, q)
                 /\ row[u] # NoRow => q.used = row[u].used /\ q.last = row[u].last
    BY <1>0, <1>1, <2>1, UpdatedRow
  <2>3. /\ row'[u] = q /\ \A v \in Ids : v # u => row'[v] = row[v]
        /\ row[u] = NoRow => q = NoRow
    BY <1>0, <2>2, RowAfter DEF RowStep
  <2> QED BY <1>0, <1>1, <2>2, <2>3
<1>2. CASE /\ wk[w].op = "uuid"
           /\ row' = IF row[u] = NoRow THEN row ELSE [row EXCEPT ![u].uuid = ops]
           /\ UNCHANGED <<assign, split, dropped>>
  <2>2. PICK q : /\ RowStep(u, q)
                 /\ row[u] # NoRow => q.used = row[u].used /\ q.last = row[u].last
    BY <1>0, <1>2, UuidRow
  <2>3. /\ row'[u] = q /\ \A v \in Ids : v # u => row'[v] = row[v]
        /\ row[u] = NoRow => q = NoRow
    BY <1>0, <2>2, RowAfter DEF RowStep
  <2> QED BY <1>0, <1>2, <2>2, <2>3
<1>3. CASE UNCHANGED <<row, split, dropped>>
  BY <1>0, <1>3
<1>4. CASE wk[w].op \in {"del", "botDel"} /\ Deleted(u) /\ UNCHANGED dropped
  BY <1>0, <1>4 DEF Deleted, ShapeOK
<1>5. CASE wk[w].op \in {"reset", "botReset"} /\ ResetUsage(u) /\ UNCHANGED assign
  <2>1. PICK q : RowStep(u, q) /\ (row[u] # NoRow => q.last = row[u].last)
    BY <1>0, <1>5, UsedRow DEF ResetUsage
  <2>2. row'[u] = q /\ (row[u] = NoRow => q = NoRow)
    BY <1>0, <2>1, RowAfter DEF RowStep
  <2> QED BY <1>0, <1>5, <2>1, <2>2, ResetOthers
<1> QED BY <1>1, <1>2, <1>3, <1>4, <1>5 DEF Write

\* What a report does to them.
LEMMA AddOthers ==
    ASSUME ShapeOK, WorkersOK, NEW w \in Workers, AddTraffic(w)
    PROVE  LET u == wk[w].u IN
           /\ u \in Ids /\ u \in made
           /\ \A v \in Ids : v # u => row'[v] = row[v] /\ split'[v] = split[v]
           /\ row[u] = NoRow => row'[u] = NoRow
           /\ row'[u] # NoRow => /\ row'[u].used = row[u].used + 1 /\ row'[u].last = row[u].last
                                 /\ row'[u].uuid = row[u].uuid /\ row'[u].day = row[u].day
           /\ \E n \in Nodes : /\ wk[w].set = {n}
                               /\ split'[u] = [split[u] EXCEPT ![n] = split[u][n] + 1]
<1> DEFINE u == wk[w].u
<1>0. /\ wk[w].pc = "add" /\ JobOK(wk[w]) /\ u \in Ids /\ u \in made
      /\ row' = IF row[u] = NoRow THEN row ELSE [row EXCEPT ![u].used = row[u].used + 1]
      /\ split' = [split EXCEPT ![u] = [n \in Nodes |->
                        split[u][n] + IF n \in wk[w].set THEN 1 ELSE 0]]
  BY JobFields DEF AddTraffic, JobOK
<1>1. PICK n \in Nodes : wk[w].set = {n}
  BY <1>0 DEF JobOK
<1>2. split'[u] = [split[u] EXCEPT ![n] = split[u][n] + 1]
  <2>1. split[u] \in [Nodes -> Nat] /\ split'[u] = [m \in Nodes |->
                        split[u][m] + IF m \in {n} THEN 1 ELSE 0]
    BY <1>0, <1>1 DEF ShapeOK
  <2> QED BY <2>1
<1>3. \A v \in Ids : v # u => split'[v] = split[v]
  BY <1>0 DEF ShapeOK
<1>4. /\ \A v \in Ids : v # u => row'[v] = row[v]
      /\ row[u] = NoRow => row'[u] = NoRow
      /\ row'[u] # NoRow => /\ row'[u].used = row[u].used + 1 /\ row'[u].last = row[u].last
                            /\ row'[u].uuid = row[u].uuid /\ row'[u].day = row[u].day
  <2>1. CASE row[u] = NoRow
    BY <1>0, <2>1
  <2>2. CASE row[u] # NoRow
    <3>1. row[u] \in WideRow
      BY <1>0, <2>2 DEF ShapeOK
    <3>2. row[u].used + 1 \in Nat
      BY <3>1 DEF WideRow
    <3>3. PICK q : /\ RowStep(u, q)
                   /\ q.used = row[u].used + 1 /\ q.last = row[u].last /\ q.uuid = row[u].uuid
                   /\ q.day = row[u].day
      <4>1. PICK k \in Nat : k = row[u].used + 1
        BY <3>2
      <4>2. PICK q : q = [row[u] EXCEPT !.used = k]
        OBVIOUS
      <4>3. row' = [row EXCEPT ![u] = q]
        BY <1>0, <2>2, <4>1, <4>2 DEF ShapeOK
      <4>4. /\ q \in WideRow /\ q.used = k /\ q.last = row[u].last /\ q.uuid = row[u].uuid
            /\ q.day = row[u].day
        BY <3>1, <4>2 DEF WideRow
      <4> QED BY <2>2, <4>1, <4>3, <4>4 DEF RowStep
    <3>4. row'[u] = q /\ \A v \in Ids : v # u => row'[v] = row[v]
      BY <1>0, <3>3, RowAfter
    <3> QED BY <2>2, <3>3, <3>4
  <2> QED BY <2>1, <2>2
<1> QED BY <1>0, <1>1, <1>2, <1>3, <1>4

LEMMA NextFresh ==
    ASSUME ShapeOK, WorkersOK, LoopOK, FreshOK, Next PROVE FreshOK'
<1>1. ASSUME NEW w \in Workers, Begin(w) PROVE FreshOK'
  BY <1>1, BeginJob, FreshStays DEF dbVars, histVars, resetVars
<1>2. ASSUME NEW w \in Workers, Handle(w) PROVE FreshOK'
  <2>1. CASE Insert(w)
    <3>0. wk[w].u \in Ids
      BY <2>1, JobFields DEF Insert
    <3>1. CASE wk[w].u \in made
      BY <2>1, <3>1, FreshStays DEF Insert, histVars, resetVars
    <3>2. CASE wk[w].u \notin made
      BY <2>1, <3>0, <3>2, FreshKept DEF Insert, histVars, resetVars, ShapeOK
    <3> QED BY <3>1, <3>2
  <2>2. CASE Write(w)
    <3>1. made' = made /\ resetFor' = resetFor
      BY <2>2 DEF Write
    <3> QED BY <2>2, <3>1, WriteOthers, FreshKept
  <2>3. CASE AddTraffic(w)
    <3>1. made' = made /\ resetFor' = resetFor /\ dropped' = dropped
      BY <2>3 DEF AddTraffic, resetVars
    <3> QED BY <2>3, <3>1, AddOthers, FreshKept
  <2>4. CASE ~(Insert(w) \/ Write(w) \/ AddTraffic(w))
    <3>1. UNCHANGED <<row, made, split, dropped, resetFor>>
      BY <1>2, <2>4 DEF Handle, GetByName, GetRow, GetNodes, BotPanics, Crash, StoreFails, Lookup,
         SyncOne, Finish, dbVars, histVars, resetVars
    <3> QED BY <3>1, FreshStays
  <2> QED BY <2>1, <2>2, <2>3, <2>4
<1>3. ASSUME NEW n \in Nodes, DeleteNode(n) PROVE FreshOK'
  <2>1. /\ row' = row /\ made' = made /\ resetFor' = resetFor
        /\ split' = [u \in Ids |-> [split[u] EXCEPT ![n] = 0]]
        /\ dropped' = [u \in Ids |-> dropped[u] + split[u][n]]
    BY <1>3 DEF DeleteNode, resetVars
  <2>2. ASSUME NEW u \in Ids, u \notin made
        PROVE  split'[u] = [m \in Nodes |-> 0] /\ dropped'[u] = 0
    BY <2>1, <2>2 DEF FreshOK
  <2> QED BY <2>1, <2>2 DEF FreshOK
<1>4. ASSUME NEW n \in Nodes, Enforce(n) \/ Connect(n) \/ Disconnect(n) PROVE FreshOK'
  BY <1>4, FreshStays DEF Enforce, Connect, Disconnect, dbVars, resetVars
<1>5. CASE Loop
  <2>1. ASSUME NEW u \in Ids, AutoReset(u) PROVE FreshOK'
    <3>1. u \in made /\ made' = made
      BY <2>1 DEF AutoReset, LoopOK, DueOK
    <3>2. \A v \in Ids : v # u => resetFor'[v] = resetFor[v]
      BY <2>1 DEF AutoReset, ShapeOK
    <3> QED BY <2>1, <3>1, <3>2, ResetOthers, FreshKept DEF AutoReset
  <2>2. CASE RecordReset
    <3>1. loop.u \in Ids /\ loop.now \in Never..MaxDays
      BY <2>2, AccountBounds DEF RecordReset, LoopOK, DueOK, ShapeOK, Never
    <3>2. PICK q : RowStep(loop.u, q)
      BY <2>2, <3>1, LastRow DEF RecordReset
    <3>3. \A v \in Ids : row[v] = NoRow => row'[v] = NoRow
      BY <3>1, <3>2, RowAfter
    <3> QED BY <2>2, <3>3, FreshStays DEF RecordReset, histVars, resetVars
  <2>3. CASE ~(RecordReset \/ \E u \in Ids : AutoReset(u))
    <3>1. UNCHANGED <<row, made, split, dropped, resetFor>>
      BY <1>5, <2>3 DEF Loop, ListUsers, Check, AutoResetFails, RecordFails, LoopSync, LoopNext,
         dbVars, histVars, resetVars
    <3> QED BY <3>1, FreshStays
  <2> QED BY <2>1, <2>2, <2>3
<1>6. CASE NextDay \/ PanelCrash
  BY <1>6, FreshStays DEF NextDay, PanelCrash, Crash, dbVars, histVars, resetVars
<1> QED BY <1>1, <1>2, <1>3, <1>4, <1>5, <1>6 DEF Next

-----------------------------------------------------------------------------
(* The sums. *)

Breakdown(f) == UNION {{n} \X (1..f[n]) : n \in Nodes}

LEMMA UnitsAre ==
    /\ \A u \in Ids : Units(u) = Breakdown(split[u])
    /\ \A u \in Ids : Units(u)' = Breakdown(split'[u])
  BY DEF Units, Breakdown

LEMMA BreakdownHas ==
    ASSUME NEW f \in [Nodes -> Nat], NEW e
    PROVE  e \in Breakdown(f) <=> \E n \in Nodes : e \in {n} \X (1..f[n])
  BY DEF Breakdown

LEMMA BreakdownEmpty ==
    /\ IsFiniteSet(Breakdown([n \in Nodes |-> 0]))
    /\ Cardinality(Breakdown([n \in Nodes |-> 0])) = 0
<1> DEFINE f == [n \in Nodes |-> 0]
<1>1. f \in [Nodes -> Nat] /\ \A n \in Nodes : f[n] = 0
  OBVIOUS
<1>2. ASSUME NEW e \in Breakdown(f) PROVE FALSE
  <2>1. PICK n \in Nodes : e \in {n} \X (1..f[n])
    BY <1>1, <1>2, BreakdownHas
  <2>2. f[n] = 0
    BY <1>1
  <2> HIDE DEF f
  <2> QED BY <2>1, <2>2
<1>3. Breakdown(f) = {}
  BY <1>2
<1> QED BY <1>3, FS_EmptySet

\* A node's own units.
LEMMA NodeUnits ==
    ASSUME NEW f \in [Nodes -> Nat], NEW n \in Nodes, IsFiniteSet(Breakdown(f))
    PROVE  /\ {n} \X (1..f[n]) \subseteq Breakdown(f)
           /\ Cardinality({n} \X (1..f[n])) = f[n]
           /\ f[n] <= Cardinality(Breakdown(f))
<1>1. {n} \X (1..f[n]) \subseteq Breakdown(f)
  BY BreakdownHas
<1>2. IsFiniteSet({n}) /\ Cardinality({n}) = 1
  BY FS_Singleton
<1>3. f[n] \in Nat
  OBVIOUS
<1>4. IsFiniteSet(1..f[n]) /\ Cardinality(1..f[n]) = f[n]
  BY <1>3, FS_Interval
<1>5. Cardinality({n} \X (1..f[n])) = 1 * f[n]
  <2>1. \A S, T : IsFiniteSet(S) /\ IsFiniteSet(T) =>
            Cardinality(S \X T) = Cardinality(S) * Cardinality(T)
    BY FS_Product
  <2>2. Cardinality({n} \X (1..f[n])) = Cardinality({n}) * Cardinality(1..f[n])
    BY <1>2, <1>4, <2>1, Zenon
  <2> QED BY <1>2, <1>4, <2>2, Zenon
<1>6. Cardinality({n} \X (1..f[n])) = f[n]
  BY <1>3, <1>5
<1>7. Cardinality({n} \X (1..f[n])) <= Cardinality(Breakdown(f))
  <2>1. \A S, T : IsFiniteSet(S) /\ T \in SUBSET S => Cardinality(T) <= Cardinality(S)
    BY FS_Subset
  <2>2. {n} \X (1..f[n]) \in SUBSET Breakdown(f)
    BY <1>1
  <2> QED BY <2>1, <2>2, Zenon
<1> QED BY <1>1, <1>6, <1>7

OneMore(f, n) == [f EXCEPT ![n] = f[n] + 1]

LEMMA BreakdownAdds ==
    ASSUME NEW f \in [Nodes -> Nat], NEW n \in Nodes, NEW g, g = OneMore(f, n),
           IsFiniteSet(Breakdown(f))
    PROVE  /\ IsFiniteSet(Breakdown(g))
           /\ Cardinality(Breakdown(g)) = Cardinality(Breakdown(f)) + 1
<1>1. /\ g \in [Nodes -> Nat] /\ g[n] = f[n] + 1 /\ f[n] \in Nat
      /\ \A m \in Nodes : m # n => g[m] = f[m]
  BY DEF OneMore
<1>2. <<n, f[n] + 1>> \notin Breakdown(f)
  <2>1. SUFFICES ASSUME NEW m \in Nodes, <<n, f[n] + 1>> \in {m} \X (1..f[m]) PROVE FALSE
    BY BreakdownHas
  <2> QED BY <1>1, <2>1
<1>3. ASSUME NEW e PROVE e \in Breakdown(g) <=> e \in Breakdown(f) \/ e = <<n, f[n] + 1>>
  <2>1. ASSUME NEW m \in Nodes
        PROVE  e \in {m} \X (1..g[m]) <=> \/ e \in {m} \X (1..f[m])
                                          \/ m = n /\ e = <<n, f[n] + 1>>
    BY <1>1
  <2> QED BY <1>1, <2>1, BreakdownHas
<1>4. Breakdown(g) = Breakdown(f) \cup {<<n, f[n] + 1>>}
  BY <1>3
<1>5. \A S, x : IsFiniteSet(S) /\ x \notin S =>
          IsFiniteSet(S \cup {x}) /\ Cardinality(S \cup {x}) = Cardinality(S) + 1
  BY FS_AddElement
<1> QED BY <1>2, <1>4, <1>5, Zenon

LEMMA BreakdownDrops ==
    ASSUME NEW f \in [Nodes -> Nat], NEW n \in Nodes, NEW g, g = [f EXCEPT ![n] = 0],
           IsFiniteSet(Breakdown(f))
    PROVE  /\ IsFiniteSet(Breakdown(g))
           /\ Cardinality(Breakdown(g)) + f[n] = Cardinality(Breakdown(f))
<1> DEFINE own == {n} \X (1..f[n])
<1>1. /\ g \in [Nodes -> Nat] /\ g[n] = 0 /\ f[n] \in Nat
      /\ \A m \in Nodes : m # n => g[m] = f[m]
  OBVIOUS
<1>2. ASSUME NEW e PROVE e \in Breakdown(g) <=> e \in Breakdown(f) /\ e \notin own
  <2>1. ASSUME NEW m \in Nodes
        PROVE  e \in {m} \X (1..g[m]) <=> m # n /\ e \in {m} \X (1..f[m])
    BY <1>1
  <2>2. ASSUME NEW m \in Nodes, m # n, e \in {m} \X (1..f[m]) PROVE e \notin own
    BY <2>2
  <2> QED BY <1>1, <2>1, <2>2, BreakdownHas
<1>3. Breakdown(g) = Breakdown(f) \ own
  BY <1>2
<1>4. own \subseteq Breakdown(f) /\ Cardinality(own) = f[n]
  BY NodeUnits
<1>5. Breakdown(f) \cap own = own
  BY <1>4
<1>6. IsFiniteSet(Breakdown(g)) /\ Cardinality(Breakdown(g)) = Cardinality(Breakdown(f)) - f[n]
  <2>1. \A S, T : IsFiniteSet(S) => /\ IsFiniteSet(S \ T)
                                    /\ Cardinality(S \ T) = Cardinality(S) - Cardinality(S \cap T)
    BY FS_Difference
  <2> HIDE DEF own
  <2>2. /\ IsFiniteSet(Breakdown(f) \ own)
        /\ Cardinality(Breakdown(f) \ own)
             = Cardinality(Breakdown(f)) - Cardinality(Breakdown(f) \cap own)
    BY <2>1, Zenon
  <2> QED BY <1>3, <1>4, <1>5, <2>2, Zenon
<1>7. Cardinality(Breakdown(f)) \in Nat /\ Cardinality(Breakdown(g)) \in Nat
  BY <1>6, FS_CardinalityType
<1> QED BY <1>1, <1>6, <1>7

\* One user's books: row r, breakdown f, dropped d, with a reports on their way of k
\* requests.
UsageOK(r, f, d, a, k) ==
    /\ IsFiniteSet(Breakdown(f))
    /\ Cardinality(Breakdown(f)) + d + a <= k
    /\ r # NoRow => r.used = Cardinality(Breakdown(f)) + d

LEMMA UsageAll ==
    /\ SumsOK /\ BooksAgree <=>
         /\ IsFiniteSet(Adding)
         /\ \A u \in Ids : UsageOK(row[u], split[u], dropped[u], Cardinality(Adding), ops)
    /\ SumsOK' /\ BooksAgree' <=>
         /\ IsFiniteSet(Adding')
         /\ \A u \in Ids : UsageOK(row'[u], split'[u], dropped'[u], Cardinality(Adding'), ops')
<1>1. SumsOK /\ BooksAgree <=>
         /\ IsFiniteSet(Adding)
         /\ \A u \in Ids : UsageOK(row[u], split[u], dropped[u], Cardinality(Adding), ops)
  BY UnitsAre, Zenon DEF SumsOK, BooksAgree, UsageOK
<1>2. SumsOK' /\ BooksAgree' <=>
         /\ IsFiniteSet(Adding')
         /\ \A u \in Ids : UsageOK(row'[u], split'[u], dropped'[u], Cardinality(Adding'), ops')
  BY UnitsAre, Zenon DEF SumsOK, BooksAgree, UsageOK
<1> QED BY <1>1, <1>2

\* Books without a change of theirs, or set to zero, stay in order as reports come to an
\* end and requests come in.
LEMMA UsageKept ==
    ASSUME NEW r, NEW q, NEW f, NEW d \in Nat, NEW a \in Nat, NEW b \in Nat, NEW k \in Nat,
           NEW l \in Nat, UsageOK(r, f, d, a, k), l - b >= k - a,
           q # NoRow => q.used = r.used /\ r # NoRow
    PROVE  UsageOK(q, f, d, b, l)
<1>1. Cardinality(Breakdown(f)) \in Nat
  BY FS_CardinalityType DEF UsageOK
<1> QED BY <1>1 DEF UsageOK

LEMMA UsageZero ==
    ASSUME NEW r, NEW q, NEW f, NEW d \in Nat, NEW e \in Nat, NEW a \in Nat, NEW b \in Nat,
           NEW k \in Nat, NEW l \in Nat, UsageOK(r, f, d, a, k), l - b >= k - a,
           \/ e = d /\ q = NoRow
           \/ e = 0 /\ (q = NoRow \/ q.used = 0)
    PROVE  UsageOK(q, [n \in Nodes |-> 0], e, b, l)
<1> DEFINE z == [n \in Nodes |-> 0]
<1>1. Cardinality(Breakdown(f)) \in Nat
  BY FS_CardinalityType DEF UsageOK
<1>2. IsFiniteSet(Breakdown(z)) /\ Cardinality(Breakdown(z)) = 0
  BY BreakdownEmpty
<1>3. Cardinality(Breakdown(f)) + d + a <= k
  BY DEF UsageOK
<1> HIDE DEF z
<1>4. 0 + e + b <= l
  BY <1>1, <1>3
<1>5. q # NoRow => q.used = 0 + e
  OBVIOUS
<1>6. UsageOK(q, z, e, b, l)
  BY <1>2, <1>4, <1>5 DEF UsageOK
<1> QED BY <1>6 DEF z

LEMMA UsageAdds ==
    ASSUME NEW r, NEW q, NEW f \in [Nodes -> Nat], NEW n \in Nodes, NEW g,
           g = OneMore(f, n),
           NEW d \in Nat, NEW a \in Nat, NEW b \in Nat, NEW k \in Nat,
           UsageOK(r, f, d, a, k), b + 1 <= a, q # NoRow => r # NoRow /\ q.used = r.used + 1
    PROVE  UsageOK(q, g, d, b, k)
<1>1. Cardinality(Breakdown(f)) \in Nat
  BY FS_CardinalityType DEF UsageOK
<1>2. IsFiniteSet(Breakdown(g)) /\ Cardinality(Breakdown(g)) = Cardinality(Breakdown(f)) + 1
  <2>1. IsFiniteSet(Breakdown(f))
    BY DEF UsageOK
  <2> QED BY <2>1, BreakdownAdds
<1>3. Cardinality(Breakdown(f)) + d + a <= k
  BY DEF UsageOK
<1>4. r # NoRow => r.used = Cardinality(Breakdown(f)) + d
  BY DEF UsageOK
<1>5. Cardinality(Breakdown(g)) + d + b <= k
  BY <1>1, <1>2, <1>3
<1>6. q # NoRow => q.used = Cardinality(Breakdown(g)) + d
  BY <1>1, <1>2, <1>4
<1> QED BY <1>2, <1>5, <1>6 DEF UsageOK

LEMMA UsageDrops ==
    ASSUME NEW r, NEW f \in [Nodes -> Nat], NEW n \in Nodes, NEW d \in Nat, NEW a \in Nat,
           NEW k \in Nat, UsageOK(r, f, d, a, k), NEW g, g = [f EXCEPT ![n] = 0]
    PROVE  UsageOK(r, g, d + f[n], a, k)
<1>1. Cardinality(Breakdown(f)) \in Nat /\ f[n] \in Nat
  BY FS_CardinalityType DEF UsageOK
<1>2. IsFiniteSet(Breakdown(g)) /\ Cardinality(Breakdown(g)) + f[n] = Cardinality(Breakdown(f))
  BY BreakdownDrops DEF UsageOK
<1>3. Cardinality(Breakdown(g)) \in Nat
  BY <1>2, FS_CardinalityType
<1>4. Cardinality(Breakdown(f)) + d + a <= k
  BY DEF UsageOK
<1>5. r # NoRow => r.used = Cardinality(Breakdown(f)) + d
  BY DEF UsageOK
<1>6. Cardinality(Breakdown(g)) + (d + f[n]) + a <= k
  BY <1>1, <1>2, <1>3, <1>4
<1>7. r # NoRow => r.used = Cardinality(Breakdown(g)) + (d + f[n])
  BY <1>1, <1>2, <1>3, <1>5
<1> QED BY <1>2, <1>6, <1>7 DEF UsageOK

\* Reports that are being added.
LEMMA AddingFewer ==
    ASSUME IsFiniteSet(Adding), Adding' \subseteq Adding
    PROVE  /\ IsFiniteSet(Adding') /\ Cardinality(Adding) \in Nat /\ Cardinality(Adding') \in Nat
           /\ Cardinality(Adding') <= Cardinality(Adding)
<1>1. \A S, T : IsFiniteSet(S) /\ T \in SUBSET S => IsFiniteSet(T) /\ Cardinality(T) <= Cardinality(S)
  BY FS_Subset
<1>2. \A S : IsFiniteSet(S) => Cardinality(S) \in Nat
  BY FS_CardinalityType
<1>3. IsFiniteSet(Adding') /\ Cardinality(Adding') <= Cardinality(Adding)
  BY <1>1
<1> QED BY <1>2, <1>3

LEMMA HandleAdding ==
    ASSUME WorkersOK, NEW w \in Workers, Handle(w)
    PROVE  /\ Adding' \subseteq Adding
           /\ AddTraffic(w) => w \in Adding /\ Adding' \subseteq Adding \ {w}
<1>1. ASSUME \A v \in Workers : v # w => wk'[v] = wk[v],
             wk'[w].pc \notin {"users", "add"} \/ wk[w].pc \in {"users", "add"}
      PROVE  Adding' \subseteq Adding
  BY <1>1 DEF Adding
<1>2. wk \in [Workers -> {Idle} \cup Job]
  BY DEF WorkersOK
<1>3. CASE GetByName(w) \/ GetRow(w) \/ GetNodes(w)
  <2>1. wk[w] \in Job /\ wk[w].pc # "add"
    BY <1>3, JobFields DEF GetByName, GetRow, GetNodes
  <2>2. /\ \A v \in Workers : v # w => wk'[v] = wk[v]
        /\ wk'[w].pc \in {"idle", "get", "nids", "sync", "write"}
    BY <1>2, <1>3, <2>1 DEF GetByName, GetRow, GetNodes, Done, Goto, Idle, Job
  <2> QED BY <1>1, <1>3, <2>2 DEF GetByName, GetRow, GetNodes, AddTraffic
<1>4. CASE BotPanics(w)
  BY <1>4 DEF BotPanics, Crash, Adding, Idle, AddTraffic
<1>5. CASE StoreFails(w)
  <2>1. wk[w] \in Job
    BY <1>5, JobFields DEF StoreFails
  <2>2. /\ \A v \in Workers : v # w => wk'[v] = wk[v]
        /\ wk'[w].pc \in {"idle", "sync", "write"}
    BY <1>2, <1>5, <2>1 DEF StoreFails, Done, Goto, Idle, Job
  <2>3. Adding' \subseteq Adding \ {w}
    BY <1>2, <2>2 DEF Adding
  <2> QED BY <2>3 DEF AddTraffic, Adding
<1>6. CASE Insert(w) \/ Write(w) \/ Finish(w)
  <2>1. wk[w] \in Job /\ wk[w].pc # "add"
    BY <1>6, JobFields DEF Insert, Write, Finish
  <2>2. /\ \A v \in Workers : v # w => wk'[v] = wk[v]
        /\ wk'[w].pc \in {"idle", "get", "write", "sync"}
    BY <1>2, <1>6, <2>1 DEF Insert, Write, Finish, Done, Goto, Idle, Job
  <2> QED BY <1>1, <2>1, <2>2 DEF AddTraffic
<1>7. CASE Lookup(w)
  <2>1. wk[w] \in Job /\ wk[w].pc = "users"
    BY <1>7, JobFields DEF Lookup
  <2>2. \A v \in Workers : v # w => wk'[v] = wk[v]
    BY <1>2, <1>7, <2>1 DEF Lookup, Goto
  <2> QED BY <1>1, <2>1, <2>2 DEF AddTraffic
<1>8. CASE AddTraffic(w)
  <2>1. wk[w] \in Job /\ wk[w].pc = "add"
    BY <1>8, JobFields DEF AddTraffic
  <2>2. (\A v \in Workers : v # w => wk'[v] = wk[v]) /\ wk'[w].pc = "sync"
    BY <1>2, <1>8, <2>1 DEF AddTraffic, Job
  <2> QED BY <2>1, <2>2 DEF Adding
<1>9. ASSUME NEW n \in Nodes, SyncOne(w, n) PROVE Adding' \subseteq Adding /\ ~AddTraffic(w)
  <2>1. wk[w] \in Job /\ wk[w].pc = "sync"
    BY <1>9, JobFields DEF SyncOne
  <2>2. (\A v \in Workers : v # w => wk'[v] = wk[v]) /\ wk'[w].pc = "sync"
    BY <1>2, <1>9, <2>1 DEF SyncOne, Job
  <2> QED BY <1>1, <2>1, <2>2 DEF AddTraffic
<1> QED BY <1>3, <1>4, <1>5, <1>6, <1>7, <1>8, <1>9 DEF Handle

\* A step that leaves the books as they are.
LEMMA BooksStay ==
    ASSUME ShapeOK, SumsOK, BooksAgree, IsFiniteSet(Adding'), Cardinality(Adding') \in Nat, ops' \in Nat,
           ops' - Cardinality(Adding') >= ops - Cardinality(Adding),
           UNCHANGED <<split, dropped>>,
           \A u \in Ids : row'[u] # NoRow => row[u] # NoRow /\ row'[u].used = row[u].used
    PROVE  SumsOK' /\ BooksAgree'
<1>1. /\ IsFiniteSet(Adding) /\ Cardinality(Adding) \in Nat /\ ops \in Nat
      /\ \A u \in Ids : UsageOK(row[u], split[u], dropped[u], Cardinality(Adding), ops)
  BY UsageAll, FS_CardinalityType DEF ShapeOK
<1>2. ASSUME NEW u \in Ids
      PROVE  UsageOK(row'[u], split'[u], dropped'[u], Cardinality(Adding'), ops')
  <2>1. dropped[u] \in Nat /\ split'[u] = split[u] /\ dropped'[u] = dropped[u]
    BY DEF ShapeOK
  <2>2. UsageOK(row'[u], split[u], dropped[u], Cardinality(Adding'), ops')
    BY <1>1, <2>1, UsageKept
  <2> QED BY <2>1, <2>2
<1> QED BY <1>2, UsageAll

\* A step on one user's books.
LEMMA BooksOne ==
    ASSUME ShapeOK, SumsOK, BooksAgree, Adding' \subseteq Adding, ops' = ops, NEW u \in Ids,
           \A v \in Ids : v # u => /\ row'[v] = row[v] /\ split'[v] = split[v]
                                   /\ dropped'[v] = dropped[v],
           UsageOK(row'[u], split'[u], dropped'[u], Cardinality(Adding'), ops)
    PROVE  SumsOK' /\ BooksAgree'
<1>1. /\ IsFiniteSet(Adding) /\ ops \in Nat
      /\ \A v \in Ids : UsageOK(row[v], split[v], dropped[v], Cardinality(Adding), ops)
  BY UsageAll DEF ShapeOK
<1>2. /\ IsFiniteSet(Adding') /\ Cardinality(Adding) \in Nat /\ Cardinality(Adding') \in Nat
      /\ Cardinality(Adding') <= Cardinality(Adding)
  BY <1>1, AddingFewer
<1>3. ASSUME NEW v \in Ids, v # u
      PROVE  UsageOK(row'[v], split'[v], dropped'[v], Cardinality(Adding'), ops')
  <2>1. dropped[v] \in Nat
    BY DEF ShapeOK
  <2>2. ops - Cardinality(Adding') >= ops - Cardinality(Adding)
    BY <1>1, <1>2
  <2>3. UsageOK(row[v], split[v], dropped[v], Cardinality(Adding'), ops)
    BY <1>1, <1>2, <2>1, <2>2, UsageKept
  <2> QED BY <1>3, <2>3
<1> QED BY <1>2, <1>3, UsageAll

\* A user's books set to zero, with or without the row.
LEMMA BooksZero ==
    ASSUME ShapeOK, SumsOK, BooksAgree, Adding' \subseteq Adding, NEW u \in Ids, NEW q, NEW e \in Nat,
           \/ e = dropped[u] /\ q = NoRow
           \/ e = 0 /\ (q = NoRow \/ q.used = 0)
    PROVE  UsageOK(q, [n \in Nodes |-> 0], e, Cardinality(Adding'), ops)
<1>1. /\ IsFiniteSet(Adding) /\ ops \in Nat /\ dropped[u] \in Nat
      /\ UsageOK(row[u], split[u], dropped[u], Cardinality(Adding), ops)
  BY UsageAll DEF ShapeOK
<1>2. /\ Cardinality(Adding) \in Nat /\ Cardinality(Adding') \in Nat
      /\ Cardinality(Adding') <= Cardinality(Adding)
  BY <1>1, AddingFewer
<1>3. ops - Cardinality(Adding') >= ops - Cardinality(Adding)
  BY <1>1, <1>2
<1> QED BY <1>1, <1>2, <1>3, UsageZero

LEMMA BooksQuiet ==
    ASSUME ShapeOK, SumsOK, BooksAgree, Adding' \subseteq Adding, ops' = ops, UNCHANGED <<split, dropped>>,
           \A u \in Ids : row'[u] # NoRow => row[u] # NoRow /\ row'[u].used = row[u].used
    PROVE  SumsOK' /\ BooksAgree'
<1>1. /\ IsFiniteSet(Adding') /\ Cardinality(Adding) \in Nat /\ Cardinality(Adding') \in Nat
      /\ Cardinality(Adding') <= Cardinality(Adding)
  BY AddingFewer DEF SumsOK
<1>2. ops' \in Nat /\ ops' - Cardinality(Adding') >= ops - Cardinality(Adding)
  BY <1>1 DEF ShapeOK
<1> QED BY <1>1, <1>2, BooksStay

LEMMA BeginBooks ==
    ASSUME ShapeOK, WorkersOK, SumsOK, BooksAgree, NEW w \in Workers, Begin(w)
    PROVE  SumsOK' /\ BooksAgree'
<1>1. PICK x \in Job : wk' = [wk EXCEPT ![w] = x]
  BY BeginJob
<1>2. ops' = ops + 1 /\ UNCHANGED <<row, split, dropped>>
  BY BeginJob DEF dbVars, histVars, resetVars
<1>3. Adding' \subseteq Adding \cup {w}
  BY <1>1 DEF Adding, WorkersOK
<1>4. IsFiniteSet(Adding) /\ Cardinality(Adding) \in Nat
  BY FS_CardinalityType DEF SumsOK
<1>5. /\ IsFiniteSet(Adding \cup {w})
      /\ Cardinality(Adding \cup {w}) = IF w \in Adding THEN Cardinality(Adding)
                                        ELSE Cardinality(Adding) + 1
  BY <1>4, FS_AddElement
<1>6. IsFiniteSet(Adding') /\ Cardinality(Adding') <= Cardinality(Adding \cup {w})
  <2>1. \A S, T : IsFiniteSet(S) /\ T \in SUBSET S => IsFiniteSet(T) /\ Cardinality(T) <= Cardinality(S)
    BY FS_Subset
  <2>2. Adding' \in SUBSET (Adding \cup {w})
    BY <1>3
  <2> QED BY <1>5, <2>1, <2>2
<1>7. Cardinality(Adding') \in Nat
  BY <1>6, FS_CardinalityType
<1>8. ops \in Nat
  BY DEF ShapeOK
<1>9. ops' \in Nat /\ ops' - Cardinality(Adding') >= ops - Cardinality(Adding)
  BY <1>2, <1>4, <1>5, <1>6, <1>7, <1>8
<1> QED BY <1>2, <1>6, <1>7, <1>9, BooksStay

LEMMA HandleBooks ==
    ASSUME ShapeOK, WorkersOK, FreshOK, SumsOK, BooksAgree, NEW w \in Workers, Handle(w), ShapeOK'
    PROVE  SumsOK' /\ BooksAgree'
<1>0. Adding' \subseteq Adding
  BY HandleAdding
<1>1. CASE Insert(w)
  <2> DEFINE u == wk[w].u
  <2>0. /\ u \in Ids /\ UNCHANGED <<split, dropped, ops>>
    BY <1>1, JobFields DEF Insert, histVars, resetVars
  <2>1. CASE u \in made
    <3>1. row' = row
      BY <1>1, <2>1 DEF Insert
    <3> QED BY <1>0, <2>0, <3>1, BooksQuiet
  <2>2. CASE u \notin made
    <3>1. /\ row' = [row EXCEPT ![u] = NewRow(0, 0)]
          /\ split[u] = [n \in Nodes |-> 0] /\ dropped[u] = 0
      BY <1>1, <2>0, <2>2 DEF Insert, FreshOK
    <3>2. row'[u].used = 0 /\ \A v \in Ids : v # u => row'[v] = row[v]
      BY <2>0, <3>1, NewRowType DEF ShapeOK
    <3>3. UsageOK(row'[u], [n \in Nodes |-> 0], 0, Cardinality(Adding'), ops)
      BY <1>0, <2>0, <3>2, BooksZero
    <3> QED BY <1>0, <2>0, <3>1, <3>2, <3>3, BooksOne
  <2> QED BY <2>1, <2>2
<1>2. CASE Write(w)
  <2> DEFINE u == wk[w].u
  <2>0. /\ u \in Ids /\ ops' = ops /\ dropped[u] \in Nat
        /\ \A v \in Ids : v # u => /\ row'[v] = row[v] /\ split'[v] = split[v]
                                   /\ dropped'[v] = dropped[v]
    BY <1>2, WriteOthers DEF Write, ShapeOK
  <2>1. UsageOK(row'[u], split'[u], dropped'[u], Cardinality(Adding'), ops)
    <3>1. CASE /\ split'[u] = split[u] /\ dropped'[u] = dropped[u]
               /\ row'[u] # NoRow => row'[u].used = row[u].used
      <4>1. row'[u] # NoRow => row[u] # NoRow
        BY <1>2, WriteOthers
      <4>2. /\ IsFiniteSet(Adding) /\ ops \in Nat
            /\ UsageOK(row[u], split[u], dropped[u], Cardinality(Adding), ops)
        BY <2>0, UsageAll DEF ShapeOK
      <4>3. /\ Cardinality(Adding) \in Nat /\ Cardinality(Adding') \in Nat
            /\ Cardinality(Adding') <= Cardinality(Adding)
        BY <1>0, <4>2, AddingFewer
      <4>4. ops - Cardinality(Adding') >= ops - Cardinality(Adding)
        BY <4>2, <4>3
      <4>5. UsageOK(row'[u], split[u], dropped[u], Cardinality(Adding'), ops)
        BY <2>0, <3>1, <4>1, <4>2, <4>3, <4>4, UsageKept
      <4> QED BY <3>1, <4>5
    <3>2. CASE /\ split'[u] = [n \in Nodes |-> 0] /\ dropped'[u] = dropped[u]
               /\ row'[u] = NoRow
      <4>1. UsageOK(row'[u], [n \in Nodes |-> 0], dropped[u], Cardinality(Adding'), ops)
        BY <1>0, <2>0, <3>2, BooksZero
      <4> QED BY <3>2, <4>1
    <3>3. CASE /\ split'[u] = [n \in Nodes |-> 0] /\ dropped'[u] = 0
               /\ row'[u] = NoRow \/ row'[u].used = 0
      <4>1. UsageOK(row'[u], [n \in Nodes |-> 0], 0, Cardinality(Adding'), ops)
        BY <1>0, <2>0, <3>3, BooksZero
      <4> QED BY <3>3, <4>1
    <3> QED BY <1>2, <3>1, <3>2, <3>3, WriteOthers
  <2> QED BY <1>0, <2>0, <2>1, BooksOne
<1>3. CASE AddTraffic(w)
  <2> DEFINE u == wk[w].u
  <2>0. /\ u \in Ids /\ UNCHANGED <<ops, dropped>> /\ dropped[u] \in Nat /\ split[u] \in [Nodes -> Nat]
        /\ \A v \in Ids : v # u => row'[v] = row[v] /\ split'[v] = split[v]
        /\ row[u] = NoRow => row'[u] = NoRow
        /\ row'[u] # NoRow => row'[u].used = row[u].used + 1
    BY <1>3, AddOthers DEF AddTraffic, ShapeOK
  <2>1. PICK n \in Nodes : split'[u] = OneMore(split[u], n)
    BY <1>3, AddOthers DEF OneMore
  <2>2. /\ IsFiniteSet(Adding) /\ ops \in Nat
        /\ UsageOK(row[u], split[u], dropped[u], Cardinality(Adding), ops)
    BY <2>0, UsageAll DEF ShapeOK
  <2>3. /\ Cardinality(Adding) \in Nat /\ Cardinality(Adding') \in Nat
        /\ Cardinality(Adding') + 1 <= Cardinality(Adding)
    <3>1. w \in Adding /\ Adding' \in SUBSET (Adding \ {w})
      BY <1>3, HandleAdding
    <3>2. IsFiniteSet(Adding \ {w}) /\ Cardinality(Adding \ {w}) = Cardinality(Adding) - 1
      BY <2>2, <3>1, FS_RemoveElement
    <3>3. \A S, T : IsFiniteSet(S) /\ T \in SUBSET S => Cardinality(T) <= Cardinality(S)
      BY FS_Subset
    <3>4. Cardinality(Adding') <= Cardinality(Adding \ {w})
      BY <3>1, <3>2, <3>3
    <3>5. Cardinality(Adding) \in Nat /\ Cardinality(Adding') \in Nat
      BY <1>0, <2>2, AddingFewer
    <3> QED BY <3>2, <3>4, <3>5
  <2>4. UsageOK(row'[u], split'[u], dropped[u], Cardinality(Adding'), ops)
    <3>f. PICK f \in [Nodes -> Nat] : f = split[u]
      BY <2>0, Zenon
    <3>0. PICK g, r, q : g = split'[u] /\ r = row[u] /\ q = row'[u]
      BY Zenon
    <3>1. PICK d \in Nat, a \in Nat, b \in Nat, k \in Nat :
             d = dropped[u] /\ a = Cardinality(Adding) /\ b = Cardinality(Adding') /\ k = ops
      BY <2>0, <2>2, <2>3, Zenon
    <3>2. /\ g = OneMore(f, n) /\ UsageOK(r, f, d, a, k) /\ b + 1 <= a
          /\ q # NoRow => r # NoRow /\ q.used = r.used + 1
      BY <2>0, <2>1, <2>2, <2>3, <3>f, <3>0, <3>1
    <3>3. UsageOK(q, g, d, b, k)
      BY <3>2, UsageAdds
    <3> QED BY <3>0, <3>1, <3>3
  <2> QED BY <1>0, <2>0, <2>4, BooksOne
<1>4. CASE ~(Insert(w) \/ Write(w) \/ AddTraffic(w))
  <2>1. UNCHANGED <<row, split, dropped, ops>>
    BY <1>4 DEF Handle, GetByName, GetRow, GetNodes, BotPanics, Crash, StoreFails, Lookup,
       SyncOne, Finish, dbVars, histVars, resetVars
  <2> QED BY <1>0, <2>1, BooksQuiet
<1> QED BY <1>1, <1>2, <1>3, <1>4

LEMMA NextBooks ==
    ASSUME BaseInv, Next, ShapeOK' PROVE SumsOK' /\ BooksAgree'
<1> USE DEF BaseInv
<1>1. ASSUME NEW w \in Workers, Begin(w) PROVE SumsOK' /\ BooksAgree'
  BY <1>1, BeginBooks
<1>2. ASSUME NEW w \in Workers, Handle(w) PROVE SumsOK' /\ BooksAgree'
  BY <1>2, HandleBooks
<1>3. ASSUME NEW n \in Nodes, DeleteNode(n) PROVE SumsOK' /\ BooksAgree'
  <2>1. /\ UNCHANGED <<row, wk, ops>>
        /\ split' = [u \in Ids |-> [split[u] EXCEPT ![n] = 0]]
        /\ dropped' = [u \in Ids |-> dropped[u] + split[u][n]]
    BY <1>3 DEF DeleteNode
  <2>2. Adding' = Adding
    BY <2>1 DEF Adding
  <2>3. IsFiniteSet(Adding) /\ Cardinality(Adding) \in Nat /\ ops \in Nat
    BY FS_CardinalityType DEF SumsOK, ShapeOK
  <2>4. ASSUME NEW u \in Ids
        PROVE  UsageOK(row'[u], split'[u], dropped'[u], Cardinality(Adding'), ops')
    <3>0. PICK f \in [Nodes -> Nat] : f = split[u]
      BY DEF ShapeOK
    <3>1. PICK g : f = split[u] /\ g = split'[u] /\ g = [f EXCEPT ![n] = 0]
      BY <2>1, <3>0
    <3>2. dropped[u] \in Nat /\ dropped'[u] = dropped[u] + f[n]
      BY <2>1, <3>1 DEF ShapeOK
    <3>3. UsageOK(row[u], f, dropped[u], Cardinality(Adding), ops)
      BY <3>1, UsageAll
    <3>4. UsageOK(row[u], g, dropped[u] + f[n], Cardinality(Adding), ops)
      BY <2>3, <3>1, <3>2, <3>3, UsageDrops
    <3> QED BY <2>1, <2>2, <3>1, <3>2, <3>4
  <2> QED BY <2>2, <2>3, <2>4, UsageAll
<1>4. ASSUME NEW n \in Nodes, Enforce(n) \/ Connect(n) \/ Disconnect(n)
      PROVE  SumsOK' /\ BooksAgree'
  <2>1. UNCHANGED <<row, split, dropped, ops, wk>>
    BY <1>4 DEF Enforce, Connect, Disconnect, dbVars
  <2> QED BY <2>1, BooksQuiet DEF Adding
<1>5. CASE Loop
  <2>0. wk' = wk /\ ops' = ops
    BY <1>5 DEF Loop, ListUsers, Check, AutoReset, AutoResetFails, RecordReset, RecordFails,
       LoopSync, LoopNext
  <2>1. Adding' \subseteq Adding
    BY <2>0 DEF Adding
  <2>2. ASSUME NEW u \in Ids, AutoReset(u) PROVE SumsOK' /\ BooksAgree'
    <3>1. /\ \A v \in Ids : v # u => /\ row'[v] = row[v] /\ split'[v] = split[v]
                                     /\ dropped'[v] = dropped[v]
          /\ split'[u] = [n \in Nodes |-> 0] /\ dropped'[u] = 0
          /\ row'[u] = NoRow \/ row'[u].used = 0
      BY <2>2, ResetOthers DEF AutoReset
    <3>2. UsageOK(row'[u], [n \in Nodes |-> 0], 0, Cardinality(Adding'), ops)
      BY <2>1, <3>1, BooksZero
    <3> QED BY <2>0, <2>1, <3>1, <3>2, BooksOne
  <2>3. CASE RecordReset
    <3>1. loop.u \in Ids /\ loop.now \in Never..MaxDays
      BY <2>3, AccountBounds DEF RecordReset, LoopOK, DueOK, ShapeOK, Never
    <3>2. PICK q : RowStep(loop.u, q) /\ (row[loop.u] # NoRow => q.used = row[loop.u].used)
      BY <2>3, <3>1, LastRow DEF RecordReset
    <3>3. /\ row'[loop.u] = q /\ \A v \in Ids : v # loop.u => row'[v] = row[v]
          /\ \A v \in Ids : row[v] = NoRow => row'[v] = NoRow
      BY <3>1, <3>2, RowAfter
    <3>4. \A v \in Ids : row'[v] # NoRow => row[v] # NoRow /\ row'[v].used = row[v].used
      BY <3>2, <3>3
    <3>5. UNCHANGED <<split, dropped>>
      BY <2>3 DEF RecordReset, histVars, resetVars
    <3> QED BY <2>0, <2>1, <3>4, <3>5, BooksQuiet
  <2>4. CASE ~(RecordReset \/ \E u \in Ids : AutoReset(u))
    <3>1. UNCHANGED <<row, split, dropped>>
      BY <1>5, <2>4 DEF Loop, ListUsers, Check, AutoResetFails, RecordFails, LoopSync, LoopNext,
         dbVars, histVars, resetVars
    <3> QED BY <2>0, <2>1, <3>1, BooksQuiet
  <2> QED BY <2>2, <2>3, <2>4
<1>6. CASE NextDay
  <2>1. UNCHANGED <<row, split, dropped, ops, wk>>
    BY <1>6 DEF NextDay, dbVars, histVars, resetVars
  <2> QED BY <2>1, BooksQuiet DEF Adding
<1>7. CASE PanelCrash
  <2>1. UNCHANGED <<row, split, dropped, ops>> /\ Adding' \subseteq Adding
    BY <1>7 DEF PanelCrash, Crash, dbVars, Adding, Idle
  <2> QED BY <2>1, BooksQuiet
<1> QED BY <1>1, <1>2, <1>3, <1>4, <1>5, <1>6, <1>7 DEF Next

LEMMA BaseInit == ASSUME Init PROVE BaseInv
<1>1. ASSUME NEW u \in Ids
      PROVE  /\ row[u] \in WideRow \cup {NoRow} /\ (row[u] # NoRow => row[u].used = 0)
             /\ row[u] # NoRow => u \in First
  <2>1. \A l \in 0..MaxLimit, d \in Days : NewRow(l, d) \in WideRow /\ NewRow(l, d).used = 0
    BY AccountBounds DEF NewRow, WideRow, Never
  <2> QED BY <2>1 DEF Init
<1>2. row \in [Ids -> WideRow \cup {NoRow}]
  <2>1. row = [u \in Ids |-> row[u]]
    BY DEF Init
  <2> QED BY <1>1, <2>1
<1>3. \A n : Effective(n) \subseteq Ids \X (0..MaxOps)
  <2>1. ASSUME NEW v \in Ids, Active(row[v]) PROVE row[v].uuid \in 0..MaxOps
    <3>1. row[v] \in WideRow
      BY <1>1, <2>1 DEF Active
    <3> QED BY <3>1 DEF WideRow
  <2>2. ASSUME NEW n, NEW p \in Effective(n) PROVE p \in Ids \X (0..MaxOps)
    <3>1. PICK v \in Ids : Active(row[v]) /\ p = <<v, row[v].uuid>>
      BY <2>2, Zenon DEF Effective
    <3> QED BY <2>1, <3>1
  <2> QED BY <2>2
<1>4. /\ made = First /\ nodes = Nodes /\ assign = First \X Nodes
      /\ split = [u \in Ids |-> [n \in Nodes |-> 0]] /\ serves = [n \in Nodes |-> Effective(n)]
      /\ wk = [w \in Workers |-> Idle] /\ loop = Idle /\ today = 0 /\ ops = 0
      /\ dropped = [u \in Ids |-> 0] /\ missed = {} /\ resetFor = [u \in Ids |-> {}]
      /\ again = {} /\ torn = {} /\ moved = {} /\ late = {} /\ swept = Never /\ online = Nodes
  BY DEF Init
<1>5. serves \in [Nodes -> SUBSET (Ids \X (0..MaxOps))]
  BY <1>3, <1>4
<1>6. split \in [Ids -> [Nodes -> Nat]]
  BY <1>4
<1>7. ShapeOK
  BY <1>2, <1>4, <1>5, <1>6, FirstAssumption, AccountBounds DEF ShapeOK, Never
<1>8. WorkersOK /\ LoopOK
  BY <1>4 DEF WorkersOK, LoopOK, Idle
<1>9. FreshOK
  BY <1>1, <1>4 DEF FreshOK
<1>10. SumsOK /\ BooksAgree
  <2>1. Adding = {}
    BY <1>4 DEF Adding, Idle
  <2>2. IsFiniteSet(Adding) /\ Cardinality(Adding) = 0
    BY <2>1, FS_EmptySet
  <2>3. ASSUME NEW u \in Ids
        PROVE  UsageOK(row[u], split[u], dropped[u], Cardinality(Adding), ops)
    <3>1. split[u] = [n \in Nodes |-> 0] /\ dropped[u] = 0 /\ ops = 0
      BY <1>4
    <3>2. UsageOK(row[u], [n \in Nodes |-> 0], 0, 0, 0)
      BY <1>1, BreakdownEmpty DEF UsageOK
    <3> QED BY <2>2, <3>1, <3>2
  <2> QED BY <2>2, <2>3, UsageAll
<1> QED BY <1>7, <1>8, <1>9, <1>10 DEF BaseInv

LEMMA BaseStep == ASSUME BaseInv, [Next]_vars PROVE BaseInv'
<1>1. CASE Next
  <2>1. ShapeOK' /\ WorkersOK' /\ LoopOK' /\ FreshOK'
    BY <1>1, NextShape, NextWorkers, NextLoop, NextFresh DEF BaseInv
  <2> QED BY <1>1, <2>1, NextBooks DEF BaseInv
<1>2. CASE UNCHANGED vars
  <2>1. UNCHANGED <<dbVars, online, serves, wk, loop, today, ops, histVars>>
    BY <1>2 DEF vars, dbVars, histVars, resetVars
  <2>2. ShapeOK' /\ WorkersOK' /\ FreshOK'
    BY <2>1, ShapeStays, WorkersStay, FreshStays DEF BaseInv, dbVars, histVars, resetVars
  <2>3. LoopOK'
    BY <2>1, LoopStays DEF BaseInv, ShapeOK, dbVars
  <2>4. SumsOK' /\ BooksAgree'
    BY <2>1 DEF BaseInv, SumsOK, BooksAgree, Adding, Units, dbVars, histVars, resetVars
  <2> QED BY <2>2, <2>3, <2>4 DEF BaseInv
<1> QED BY <1>1, <1>2

\* The bounds on usage follow from the sums.
LEMMA BaseTypes == ASSUME BaseInv PROVE TypeOK
<1>0. IsFiniteSet(Adding) /\ Cardinality(Adding) \in Nat /\ ops \in 0..MaxOps /\ MaxOps \in Nat
  BY FS_CardinalityType, AccountBounds DEF BaseInv, SumsOK, ShapeOK
<1>1. ASSUME NEW u \in Ids
      PROVE  /\ row[u] \in Row \cup {NoRow} /\ split[u] \in [Nodes -> 0..MaxOps]
             /\ dropped[u] \in 0..MaxOps
  <2>1. /\ row[u] \in WideRow \cup {NoRow} /\ split[u] \in [Nodes -> Nat] /\ dropped[u] \in Nat
    BY DEF BaseInv, ShapeOK
  <2>2. UsageOK(row[u], split[u], dropped[u], Cardinality(Adding), ops)
    BY UsageAll DEF BaseInv
  <2>3. IsFiniteSet(Breakdown(split[u]))
    BY <2>2 DEF UsageOK
  <2>4. Cardinality(Breakdown(split[u])) \in Nat
    BY <2>3, FS_CardinalityType
  <2>5. Cardinality(Breakdown(split[u])) + dropped[u] <= MaxOps
    BY <1>0, <2>1, <2>2, <2>4 DEF UsageOK
  <2>6. ASSUME NEW n \in Nodes PROVE split[u][n] \in 0..MaxOps
    <3>1. split[u][n] <= Cardinality(Breakdown(split[u]))
      BY <2>1, <2>3, NodeUnits
    <3> QED BY <1>0, <2>1, <2>4, <2>5, <3>1
  <2>7. ASSUME row[u] # NoRow PROVE row[u] \in Row
    <3>1. row[u].used = Cardinality(Breakdown(split[u])) + dropped[u]
      BY <2>2, <2>7 DEF UsageOK
    <3>2. row[u].used \in 0..MaxOps
      BY <1>0, <2>1, <2>4, <2>5, <3>1
    <3> QED BY <2>1, <2>7, <3>2 DEF WideRow, Row
  <2> QED BY <1>0, <2>1, <2>4, <2>5, <2>6, <2>7
<1>2. row \in [Ids -> Row \cup {NoRow}] /\ split \in [Ids -> [Nodes -> 0..MaxOps]]
      /\ dropped \in [Ids -> 0..MaxOps]
  BY <1>1 DEF BaseInv, ShapeOK
<1>3. \A w \in Workers : wk[w].pc \in {"idle", "name", "get", "nids", "insert", "write",
                                       "users", "add", "sync"}
  BY DEF BaseInv, WorkersOK, Idle, Job
<1> QED BY <1>2, <1>3 DEF BaseInv, ShapeOK, LoopOK, TypeOK

\* Every table, handler and history variable of Accounts keeps its type; the usage a
\* panel counts is bounded by the requests it served.
THEOREM TypeCorrect == Spec => []TypeOK
<1>1. Spec => []BaseInv
  BY BaseInit, BaseStep, PTL DEF Spec
<1> QED BY <1>1, BaseTypes, PTL

\* AddTraffic, ResetUserTraffic, DeleteUser, DeleteNode and UpdateUser, however they
\* interleave, keep a user's aggregate usage equal to its per-node breakdown and what
\* went with deleted nodes.
THEOREM Books == Spec => []BooksAgree
<1>1. Spec => []BaseInv
  BY BaseInit, BaseStep, PTL DEF Spec
<1> QED BY <1>1, PTL DEF BaseInv

-----------------------------------------------------------------------------
(* Once in a month. *)

LEMMA InstantMono ==
    ASSUME NEW d \in Nat, NEW i \in Int, NEW j \in Int, i <= j
    PROVE  Instant(d, i) \in Int /\ Instant(d, j) \in Int /\ Instant(d, i) <= Instant(d, j)
<1>1. Month(d) * MonthDays \in Int
  BY AccountBounds DEF Month
<1> QED BY <1>1 DEF Instant

LEMMA MonthOf == ASSUME NEW q \in Int, NEW r \in 0..(MonthDays - 1) PROVE Month(q * MonthDays + r) = q
  BY AccountBounds DEF Month

\* The reset instant of a month lies in that month, and is that of any of its days.
LEMMA InstantMonth ==
    ASSUME NEW d \in Nat, NEW day \in 1..MonthDays
    PROVE  /\ Instant(d, day) \in Nat
           /\ Month(Instant(d, day)) = Month(d)
           /\ \A a \in Nat : Month(a) = Month(d) => Instant(a, day) = Instant(d, day)
<1>1. Month(d) \in Nat
  BY AccountBounds DEF Month
<1>2. Month(d) * MonthDays \in Nat
  BY <1>1, AccountBounds
<1>3. PICK r \in 0..(MonthDays - 1) : r = day - 1
  BY AccountBounds
<1>4. Instant(d, day) = Month(d) * MonthDays + r
  BY <1>3 DEF Instant
<1>5. Month(Month(d) * MonthDays + r) = Month(d)
  BY <1>1, MonthOf
<1> QED BY <1>2, <1>3, <1>4, <1>5, AccountBounds DEF Instant

LEMMA RowDays ==
    /\ ShapeOK => \A u \in Ids : row[u] # NoRow => row[u].day \in 0..MonthDays
    /\ ShapeOK' => \A u \in Ids : row'[u] # NoRow => row'[u].day \in 0..MonthDays
<1>1. \A r \in WideRow : r.day \in 0..MonthDays
  BY DaysAssumption DEF WideRow
<1> QED BY <1>1 DEF ShapeOK

\* What ResetInStep says of one user.
UserInStep(u) == DayKept(u) /\ \A a \in resetFor[u] : Behind(u, a)

\* A step of a handler: no row's last reset changes, a new row has none, and a reset day
\* that matters does not become a later one.
LEMMA ResetKept ==
    ASSUME BaseInv, ShapeOK', ResetInStep, UNCHANGED <<loop, resetFor, again, torn>>,
           moved \subseteq moved',
           \A v \in Ids \ (torn \cup moved') : row'[v] # NoRow =>
              \/ resetFor[v] = {} /\ ~InRound(v)
              \/ row[v] # NoRow /\ row'[v].last = row[v].last /\ row'[v].day <= row[v].day
    PROVE  ResetInStep'
<1>1. again' \subseteq torn' \cup moved'
  BY DEF ResetInStep
<1>2. ASSUME NEW u \in Ids \ (torn' \cup moved') PROVE UserInStep(u)'
  <2>1. DayKept(u) /\ \A a \in resetFor[u] : Behind(u, a)
    BY <1>2 DEF ResetInStep
  <2>2. /\ Recording(u)' <=> Recording(u)
        /\ Listed(u)' <=> Listed(u)
        /\ Due(u)' <=> Due(u)
    BY DEF Recording, Listed, Due
  <2>3. CASE row'[u] = NoRow
    BY <2>1, <2>2, <2>3 DEF DayKept, Behind, UserInStep
  <2>4. CASE resetFor[u] = {} /\ ~InRound(u)
    <3>1. ~Listed(u) /\ ~Due(u)
      BY <2>4 DEF InRound, Listed, Due
    <3> QED BY <2>2, <2>4, <3>1 DEF DayKept, UserInStep
  <2>5. CASE row'[u] # NoRow /\ row[u] # NoRow /\ row'[u].last = row[u].last
                             /\ row'[u].day <= row[u].day
    <3>1. row[u].day \in 0..MonthDays /\ row'[u].day \in 0..MonthDays
      BY <2>5, RowDays DEF BaseInv
    <3>2. ASSUME NEW a \in Nat, Instant(a, row[u].day) <= a PROVE Instant(a, row'[u].day) <= a
      <4>1. PICK i \in Int, j \in Int : i = row'[u].day /\ j = row[u].day
        BY <3>1, AccountBounds
      <4>2. Instant(a, i) \in Int /\ Instant(a, j) \in Int /\ Instant(a, i) <= Instant(a, j)
        BY <2>5, <4>1, InstantMono
      <4> QED BY <3>2, <4>1, <4>2
    <3>3. DayKept(u)'
      <4>1. Listed(u) => loop.rows[u].day \in 0..MonthDays
        BY DaysAssumption DEF Listed, BaseInv, LoopOK
      <4>2. Due(u) => loop.due[u].at \in Nat
        BY AccountBounds DEF Due, BaseInv, LoopOK, DueOK
      <4> QED BY <2>1, <2>2, <2>5, <3>1, <3>2, <4>1, <4>2, AccountBounds DEF DayKept
    <3>4. ASSUME NEW a \in resetFor[u] PROVE Behind(u, a)'
      <4>1. a \in Nat
        BY <1>2, <3>4 DEF BaseInv, ShapeOK
      <4> QED BY <2>1, <2>2, <2>5, <3>2, <3>4, <4>1 DEF Behind
    <3> QED BY <3>3, <3>4 DEF UserInStep
  <2> QED BY <1>2, <2>3, <2>4, <2>5
<1> QED BY <1>1, <1>2 DEF ResetInStep, UserInStep

LEMMA ResetCrashed == ASSUME BaseInv, ResetInStep, Crash PROVE ResetInStep'
<1>1. /\ loop' = Idle /\ UNCHANGED <<row, resetFor, again, moved>> /\ torn \subseteq torn'
      /\ \A u : Recording(u) => u \in torn'
  BY DEF Crash, Recording, dbVars
<1>2. \A u : ~(Recording(u)') /\ ~(Listed(u)') /\ ~(Due(u)')
  BY <1>1 DEF Idle, Recording, Listed, Due
<1>3. again' \subseteq torn' \cup moved'
  BY <1>1 DEF ResetInStep
<1>4. ASSUME NEW u \in Ids \ (torn' \cup moved') PROVE UserInStep(u)'
  BY <1>1, <1>2, <1>4 DEF ResetInStep, DayKept, Behind, UserInStep
<1> QED BY <1>3, <1>4 DEF ResetInStep, UserInStep

LEMMA ListReset == ASSUME BaseInv, ResetInStep, ListUsers PROVE ResetInStep'
<1>1. /\ loop.pc = "idle" /\ loop'.pc = "list"
      /\ UNCHANGED <<row, resetFor, again, torn, moved>>
      /\ DOMAIN loop'.rows = {v \in Ids : row[v] # NoRow}
      /\ \A u \in DOMAIN loop'.rows : /\ loop'.rows[u].last = row[u].last
                                      /\ loop'.rows[u].day = row[u].day
  BY DEF ListUsers, dbVars
<1>2. \A u : /\ ~Recording(u) /\ ~(Recording(u)') /\ ~(Due(u)')
             /\ Listed(u)' => u \in DOMAIN loop'.rows
  BY <1>1 DEF Recording, Due, Listed
<1>3. again' \subseteq torn' \cup moved'
  BY <1>1 DEF ResetInStep
<1>4. ASSUME NEW u \in Ids \ (torn' \cup moved') PROVE UserInStep(u)'
  <2>1. DayKept(u) /\ \A a \in resetFor[u] : Behind(u, a)
    BY <1>1, <1>4 DEF ResetInStep
  <2>2. DayKept(u)'
    <3>1. Listed(u)' => row[u] # NoRow /\ loop'.rows[u].day = row[u].day
      BY <1>1, <1>2
    <3>2. row[u] # NoRow => row[u].day <= row[u].day
      BY <1>4, RowDays, AccountBounds DEF BaseInv
    <3> QED BY <1>1, <1>2, <3>1, <3>2 DEF DayKept
  <2>3. ASSUME NEW a \in resetFor[u] PROVE Behind(u, a)'
    <3>1. Listed(u)' => /\ row[u] # NoRow /\ loop'.rows[u].day = row[u].day
                        /\ loop'.rows[u].last = row[u].last
      BY <1>1, <1>2
    <3> QED BY <1>1, <1>2, <2>1, <2>3, <3>1 DEF Behind
  <2> QED BY <1>1, <2>2, <2>3 DEF UserInStep
<1> QED BY <1>3, <1>4 DEF ResetInStep, UserInStep

LEMMA CheckReset == ASSUME BaseInv, ResetInStep, Check PROVE ResetInStep'
<1> DEFINE due == {u \in DOMAIN loop.rows : ResetDue(today, loop.rows[u])}
           f   == [u \in due |-> [at |-> Instant(today, loop.rows[u].day), nids |-> NodesOf(u)]]
<1>1. /\ loop.pc = "list" /\ UNCHANGED <<row, resetFor, again, torn, moved>>
      /\ again' \subseteq torn' \cup moved'
  BY DEF Check, dbVars, ResetInStep
<1>2. ASSUME NEW u \in Ids \ (torn \cup moved), u \in due
      PROVE  /\ row[u] # NoRow => Instant(f[u].at, row[u].day) <= f[u].at
             /\ \A a \in resetFor[u] : a < f[u].at /\ Month(a) # Month(f[u].at)
  <2>1. u \in DOMAIN loop.rows /\ ResetDue(today, loop.rows[u]) /\ Listed(u)
    BY <1>1, <1>2 DEF Listed
  <2>2. DayKept(u) /\ \A a \in resetFor[u] : Behind(u, a)
    BY <1>2 DEF ResetInStep
  <2>3. /\ loop.rows[u].last \in Int /\ loop.rows[u].day \in 1..MonthDays /\ today \in Nat
    BY <1>1, <2>1, DaysAssumption, AccountBounds DEF BaseInv, LoopOK, ShapeOK, ResetDue, Never
  <2>4. PICK day \in 1..MonthDays, last \in Int : day = loop.rows[u].day /\ last = loop.rows[u].last
    BY <2>3
  <2>5. PICK at \in Nat : /\ at = Instant(today, day) /\ Month(at) = Month(today)
                          /\ \A a \in Nat : Month(a) = Month(at) => Instant(a, day) = at
    BY <2>3, InstantMonth
  <2>6. f[u].at = at /\ last < at
    BY <1>2, <2>1, <2>4, <2>5 DEF ResetDue
  <2>7. row[u] # NoRow => Instant(at, row[u].day) <= at
    <3>1. ASSUME row[u] # NoRow PROVE row[u].day \in Int /\ day \in Int /\ row[u].day <= day
      BY <1>2, <2>1, <2>2, <2>4, <3>1, RowDays, AccountBounds DEF BaseInv, DayKept
    <3>2. ASSUME row[u] # NoRow PROVE Instant(at, row[u].day) <= Instant(at, day)
                                      /\ Instant(at, row[u].day) \in Int
      BY <3>1, <3>2, InstantMono
    <3> QED BY <2>5, <3>2
  <2>8. ASSUME NEW a \in resetFor[u] PROVE a < at /\ Month(a) # Month(at)
    <3>1. a \in Nat
      BY <1>2, <2>8 DEF BaseInv, ShapeOK
    <3>2. Instant(a, day) <= a /\ a <= last
      BY <2>1, <2>2, <2>4, <2>8 DEF Behind
    <3>3. a < at
      BY <2>6, <3>1, <3>2
    <3> QED BY <2>5, <3>1, <3>2, <3>3
  <2> HIDE DEF f
  <2> QED BY <2>6, <2>7, <2>8
<1>3. \/ loop'.pc = "idle"
      \/ loop'.pc = "next" /\ loop'.due = f /\ DOMAIN f = due
  BY DEF Check, Idle
<1>4. \A u : /\ ~Recording(u) /\ ~(Recording(u)') /\ ~(Listed(u)')
             /\ Due(u)' => loop'.due = f /\ u \in due
  BY <1>1, <1>3 DEF Recording, Listed, Due
<1> HIDE DEF f, due
<1>5. ASSUME NEW u \in Ids \ (torn' \cup moved') PROVE UserInStep(u)'
  <2>1. DayKept(u) /\ \A a \in resetFor[u] : Behind(u, a)
    BY <1>1, <1>5 DEF ResetInStep
  <2> QED BY <1>1, <1>2, <1>4, <1>5, <2>1 DEF DayKept, Behind, UserInStep
<1> QED BY <1>1, <1>5 DEF ResetInStep, UserInStep

LEMMA AutoResetOnce ==
    ASSUME BaseInv, ResetInStep, NEW u \in Ids, AutoReset(u) PROVE ResetInStep'
<1> DEFINE at == loop.due[u].at
<1>1. /\ loop.pc = "next" /\ u \in DOMAIN loop.due /\ loop'.pc = "record" /\ loop'.u = u
      /\ loop'.now = loop.now /\ loop'.due = loop.due /\ torn' = torn /\ moved' = moved
      /\ again' = IF \E i \in resetFor[u] : Month(i) = Month(at) THEN again \cup {u} ELSE again
      /\ resetFor' = [resetFor EXCEPT ![u] = resetFor[u] \cup {at}]
  BY DEF AutoReset
<1>2. at \in 0..MaxDays /\ at <= loop.now /\ loop.now \in Nat
  BY <1>1 DEF BaseInv, LoopOK, DueOK, ShapeOK
<1>3. \A v : /\ ~Recording(v) /\ (Recording(v)' <=> v = u) /\ ~(Listed(v)')
             /\ Due(v) <=> v \in DOMAIN loop.due
             /\ Due(v)' => v # u /\ Due(v)
  BY <1>1 DEF Recording, Listed, Due
<1>4. /\ \A v \in Ids : v # u => row'[v] = row[v] /\ resetFor'[v] = resetFor[v]
      /\ resetFor'[u] = resetFor[u] \cup {at}
  BY <1>1, ResetOthers DEF AutoReset, BaseInv, ShapeOK
<1>5. row'[u] # NoRow => row[u] # NoRow /\ row'[u].day = row[u].day
  <2>1. PICK q : RowStep(u, q) /\ (row[u] # NoRow => q.day = row[u].day)
    BY UsedRow DEF AutoReset, ResetUsage, BaseInv
  <2> QED BY <2>1, RowAfter DEF RowStep, BaseInv
<1>6. ASSUME u \notin torn \cup moved
      PROVE  /\ DayKept(u) /\ Due(u)
             /\ \A a \in resetFor[u] : Behind(u, a) /\ a < at /\ Month(a) # Month(at) /\ a \in Nat
  <2>1. \A a \in resetFor[u] : a \in Nat
    BY DEF BaseInv, ShapeOK
  <2> QED BY <1>1, <1>3, <1>6, <2>1 DEF ResetInStep, Behind
<1>7. again' \subseteq torn' \cup moved'
  <2>1. CASE u \in torn \cup moved
    BY <1>1, <2>1 DEF ResetInStep
  <2>2. CASE u \notin torn \cup moved
    BY <1>1, <1>6, <2>2 DEF ResetInStep
  <2> QED BY <2>1, <2>2
<1>8. ASSUME NEW v \in Ids \ (torn' \cup moved'), v # u PROVE UserInStep(v)'
  <2>1. DayKept(v) /\ \A a \in resetFor[v] : Behind(v, a)
    BY <1>1, <1>8 DEF ResetInStep
  <2> QED BY <1>1, <1>3, <1>4, <1>8, <2>1 DEF DayKept, Behind, UserInStep
<1>9. ASSUME u \notin torn' \cup moved' PROVE UserInStep(u)'
  <2>1. DayKept(u)'
    BY <1>3 DEF DayKept
  <2>2. ASSUME NEW a \in resetFor'[u] PROVE Behind(u, a)'
    <3>1. CASE a = at
      <4>1. row'[u] # NoRow => Instant(at, row'[u].day) <= at
        BY <1>1, <1>5, <1>6, <1>9 DEF DayKept
      <4> HIDE DEF at
      <4> QED BY <1>1, <1>2, <1>3, <3>1, <4>1 DEF Behind
    <3>2. CASE a \in resetFor[u]
      <4>1. Behind(u, a) /\ a < at /\ a \in Nat
        BY <1>1, <1>6, <1>9, <3>2
      <4>2. a <= loop.now
        BY <1>2, <4>1
      <4> QED BY <1>1, <1>3, <1>5, <4>1, <4>2 DEF Behind
    <3> QED BY <1>4, <2>2, <3>1, <3>2
  <2> QED BY <2>1, <2>2 DEF UserInStep
<1>10. \A v \in Ids \ (torn' \cup moved') : UserInStep(v)'
  BY <1>8, <1>9
<1> QED BY <1>7, <1>10 DEF ResetInStep, UserInStep

\* The loop leaves a user, recorded or not.
LEMMA LeaveReset ==
    ASSUME BaseInv, ResetInStep, NEW u, loop'.pc = "sync", loop'.due = Without(loop.due, u),
           loop.pc \in {"next", "record"}, loop.pc = "record" => u = loop.u,
           UNCHANGED <<resetFor, again, moved>>, torn \subseteq torn',
           \A v \in Ids : row'[v] # NoRow =>
              /\ row[v] # NoRow /\ row'[v].day = row[v].day
              /\ ~Recording(v) => row'[v].last = row[v].last
              /\ Recording(v) /\ v \notin torn' => row'[v].last = loop.now
    PROVE  ResetInStep'
<1>1. /\ DOMAIN loop'.due = DOMAIN loop.due \ {u}
      /\ \A v \in DOMAIN loop'.due : loop'.due[v] = loop.due[v]
  BY DEF Without
<1>2. \A v : /\ ~(Recording(v)') /\ ~(Listed(v)')
             /\ Recording(v) <=> loop.pc = "record" /\ v = u
             /\ Due(v)' => Due(v) /\ loop'.due[v] = loop.due[v]
  BY <1>1 DEF Recording, Listed, Due
<1>3. again' \subseteq torn' \cup moved'
  BY DEF ResetInStep
<1>4. ASSUME NEW v \in Ids \ (torn' \cup moved') PROVE UserInStep(v)'
  <2>1. DayKept(v) /\ \A a \in resetFor[v] : Behind(v, a)
    BY <1>4 DEF ResetInStep
  <2>2. DayKept(v)'
    BY <1>2, <1>4, <2>1 DEF DayKept
  <2>3. ASSUME NEW a \in resetFor[v] PROVE Behind(v, a)'
    BY <1>2, <1>4, <2>1, <2>3 DEF Behind
  <2> QED BY <2>2, <2>3 DEF UserInStep
<1> QED BY <1>3, <1>4 DEF ResetInStep, UserInStep

LEMMA LoopReset == ASSUME BaseInv, ResetInStep, Loop PROVE ResetInStep'
<1>1. CASE ListUsers
  BY <1>1, ListReset
<1>2. CASE Check
  BY <1>2, CheckReset
<1>3. ASSUME NEW u \in Ids, AutoReset(u) PROVE ResetInStep'
  BY <1>3, AutoResetOnce
<1>4. ASSUME NEW u \in Ids, AutoResetFails(u) PROVE ResetInStep'
  <2>1. /\ loop.pc = "next" /\ loop'.pc = "sync" /\ loop'.due = Without(loop.due, u)
        /\ UNCHANGED <<row, resetFor, again, torn, moved>>
    BY <1>4 DEF AutoResetFails, dbVars
  <2>2. \A v \in Ids : ~Recording(v)
    BY <2>1 DEF Recording
  <2> QED BY <2>1, <2>2, LeaveReset
<1>5. CASE RecordReset
  <2>1. /\ loop.pc = "record" /\ loop'.pc = "sync" /\ loop'.due = Without(loop.due, loop.u)
        /\ UNCHANGED <<resetFor, again, torn, moved>>
        /\ row' = IF row[loop.u] = NoRow THEN row ELSE [row EXCEPT ![loop.u].last = loop.now]
    BY <1>5 DEF RecordReset, Recorded, histVars, resetVars
  <2>2. loop.u \in Ids /\ loop.now \in Never..MaxDays /\ ShapeOK
    BY <2>1, AccountBounds DEF BaseInv, LoopOK, DueOK, ShapeOK, Never
  <2>3. PICK q : /\ RowStep(loop.u, q)
                 /\ row[loop.u] # NoRow => q.last = loop.now /\ q.day = row[loop.u].day
    BY <2>1, <2>2, LastRow
  <2>4. /\ row'[loop.u] = q /\ \A v \in Ids : v # loop.u => row'[v] = row[v]
        /\ row[loop.u] = NoRow => q = NoRow
    BY <2>2, <2>3, RowAfter DEF RowStep
  <2>5. \A v \in Ids : row'[v] # NoRow =>
              /\ row[v] # NoRow /\ row'[v].day = row[v].day
              /\ ~Recording(v) => row'[v].last = row[v].last
              /\ Recording(v) => row'[v].last = loop.now
    BY <2>1, <2>3, <2>4 DEF Recording
  <2> QED BY <2>1, <2>5, LeaveReset
<1>6. CASE RecordFails
  <2>1. /\ loop.pc = "record" /\ loop'.pc = "sync" /\ loop'.due = Without(loop.due, loop.u)
        /\ UNCHANGED <<row, resetFor, again, moved>> /\ torn \subseteq torn' /\ loop.u \in torn'
    BY <1>6 DEF RecordFails, Recorded, dbVars
  <2>2. \A v \in Ids : Recording(v) => v \in torn'
    BY <2>1 DEF Recording
  <2> QED BY <2>1, <2>2, LeaveReset
<1>7. CASE LoopNext \/ \E n \in Nodes : LoopSync(n)
  <2>1. /\ loop.pc = "sync" /\ UNCHANGED <<row, resetFor, again, torn, moved>>
        /\ loop = [pc |-> "sync", now |-> loop.now, due |-> loop.due, todo |-> loop.todo]
    BY <1>7 DEF LoopSync, LoopNext, dbVars, resetVars, BaseInv, LoopOK
  <2>2. loop'.pc = "idle" \/ (loop'.pc \in {"next", "sync"} /\ loop'.due = loop.due)
    BY <1>7, <2>1 DEF LoopSync, LoopNext, Idle
  <2>3. \A v : /\ ~Recording(v) /\ ~(Recording(v)') /\ ~(Listed(v)')
               /\ Due(v)' => Due(v) /\ loop'.due = loop.due
    BY <2>1, <2>2 DEF Recording, Listed, Due
  <2>4. again' \subseteq torn' \cup moved'
    BY <2>1 DEF ResetInStep
  <2>5. ASSUME NEW v \in Ids \ (torn' \cup moved') PROVE UserInStep(v)'
    <3>1. DayKept(v) /\ \A a \in resetFor[v] : Behind(v, a)
      BY <2>1, <2>5 DEF ResetInStep
    <3> QED BY <2>1, <2>3, <2>5, <3>1 DEF DayKept, Behind, UserInStep
  <2> QED BY <2>4, <2>5 DEF ResetInStep, UserInStep
<1> QED BY <1>1, <1>2, <1>3, <1>4, <1>5, <1>6, <1>7 DEF Loop

\* What the write does to a row whose reset day matters.
LEMMA WriteMoves ==
    ASSUME BaseInv, ShapeOK', NEW w \in Workers, Write(w), NEW v \in Ids, v \notin moved',
           row'[v] # NoRow, row[v] # NoRow
    PROVE  (resetFor[v] = {} /\ ~InRound(v)) \/ row'[v].day <= row[v].day
<1> DEFINE u == wk[w].u
<1>1. u \in Ids /\ \A y \in Ids : y # u => row'[y] = row[y]
  BY WriteOthers DEF BaseInv
<1>2. row[v].day \in 0..MonthDays /\ row'[v].day \in 0..MonthDays
  BY RowDays DEF BaseInv
<1>3. CASE v # u
  BY <1>1, <1>2, <1>3, AccountBounds
<1>4. CASE v = u
  <2>1. moved' = moved \cup {y \in {u} : row[y] # NoRow /\ row'[y] # NoRow
                                         /\ row'[y].day > row[y].day
                                         /\ (resetFor[y] # {} \/ InRound(y))}
    BY DEF Write
  <2> QED BY <1>2, <1>4, <2>1, AccountBounds
<1> QED BY <1>3, <1>4

LEMMA HandleReset ==
    ASSUME BaseInv, ShapeOK', ResetInStep, NEW w \in Workers, Handle(w) PROVE ResetInStep'
<1>0. \A v \in Ids : row[v] # NoRow => row[v].day <= row[v].day
  BY RowDays, AccountBounds DEF BaseInv
<1>1. CASE BotPanics(w)
  BY <1>1, ResetCrashed DEF BotPanics
<1>2. CASE Insert(w)
  <2>1. UNCHANGED <<loop, resetFor, again, torn, moved>>
    BY <1>2 DEF Insert, histVars, resetVars
  <2>2. wk[w].u \in Ids
    BY <1>2, JobFields DEF Insert, BaseInv
  <2>3. ASSUME NEW v \in Ids PROVE row'[v] = row[v] \/ (resetFor[v] = {} /\ ~InRound(v))
    <3>1. CASE v \in made
      BY <1>2, <2>2, <3>1 DEF Insert, BaseInv, ShapeOK
    <3>2. CASE v \notin made
      BY <3>2 DEF BaseInv, FreshOK, LoopOK, DueOK, InRound
    <3> QED BY <3>1, <3>2
  <2> QED BY <1>0, <2>1, <2>3, ResetKept
<1>3. CASE Write(w)
  <2>1. UNCHANGED <<loop, resetFor, again, torn>> /\ moved \subseteq moved'
    BY <1>3 DEF Write
  <2>2. \A v \in Ids : row'[v] # NoRow => row[v] # NoRow /\ row'[v].last = row[v].last
    BY <1>3, WriteOthers DEF BaseInv
  <2> QED BY <1>3, <2>1, <2>2, WriteMoves, ResetKept
<1>4. CASE AddTraffic(w)
  <2>1. UNCHANGED <<loop, resetFor, again, torn, moved>>
    BY <1>4 DEF AddTraffic, resetVars
  <2>2. \A v \in Ids : row'[v] # NoRow => /\ row[v] # NoRow /\ row'[v].last = row[v].last
                                          /\ row'[v].day = row[v].day
    BY <1>4, AddOthers DEF BaseInv
  <2> QED BY <1>0, <2>1, <2>2, ResetKept
<1>5. CASE ~(BotPanics(w) \/ Insert(w) \/ Write(w) \/ AddTraffic(w))
  <2>1. UNCHANGED <<row, loop, resetFor, again, torn, moved>>
    BY <1>5 DEF Handle, GetByName, GetRow, GetNodes, StoreFails, Lookup, SyncOne, Finish, dbVars,
       histVars, resetVars
  <2> QED BY <1>0, <2>1, ResetKept
<1> QED BY <1>1, <1>2, <1>3, <1>4, <1>5

LEMMA ResetStep == ASSUME BaseInv, ShapeOK', ResetInStep, [Next]_vars PROVE ResetInStep'
<1>0. \A v \in Ids : row[v] # NoRow => row[v].day <= row[v].day
  BY RowDays, AccountBounds DEF BaseInv
<1>1. ASSUME NEW w \in Workers, Begin(w) PROVE ResetInStep'
  BY <1>0, <1>1, BeginJob, ResetKept DEF BaseInv, dbVars, histVars, resetVars
<1>2. ASSUME NEW w \in Workers, Handle(w) PROVE ResetInStep'
  BY <1>2, HandleReset
<1>3. ASSUME NEW n \in Nodes, DeleteNode(n) \/ Enforce(n) \/ Connect(n) \/ Disconnect(n)
      PROVE  ResetInStep'
  <2>1. UNCHANGED <<row, loop, resetFor, again, torn, moved>>
    BY <1>3 DEF DeleteNode, Enforce, Connect, Disconnect, dbVars, resetVars
  <2> QED BY <1>0, <2>1, ResetKept
<1>4. CASE Loop
  BY <1>4, LoopReset
<1>5. CASE NextDay
  BY <1>0, <1>5, ResetKept DEF NextDay, dbVars, histVars, resetVars
<1>6. CASE PanelCrash
  BY <1>6, ResetCrashed DEF PanelCrash
<1>7. CASE UNCHANGED vars
  BY <1>0, <1>7, ResetKept DEF vars
<1> QED BY <1>1, <1>2, <1>3, <1>4, <1>5, <1>6, <1>7 DEF Next

\* autoResetLoop, which lists, resets and records in separate store calls while handlers
\* edit and delete the same users, resets nobody twice in one month, unless the process
\* died or the store failed between the reset and its record, or the user's reset day was
\* moved to a later one.
THEOREM Once == Spec => []ResetOnce
<1>1. Init => ResetInStep
  BY DEF Init, ResetInStep, DayKept, Listed, Due, Idle
<1>2. BaseInv /\ ResetInStep /\ [Next]_vars => BaseInv' /\ ResetInStep'
  BY BaseStep, ResetStep DEF BaseInv
<1>3. Spec => [](BaseInv /\ ResetInStep)
  BY <1>1, <1>2, BaseInit, PTL DEF Spec
<1>4. ResetInStep => ResetOnce
  BY DEF ResetInStep, ResetOnce
<1> QED BY <1>3, <1>4, PTL

-----------------------------------------------------------------------------
(* And no less. *)

\* What a step leaves of the rows, as far as made-up resets go: a user keeps its last reset,
\* and its reset day unless it is late; a new one has neither and is in nobody's hand.
SettingsKept ==
    \A v \in Ids : row'[v] # NoRow =>
       \/ /\ row[v] # NoRow /\ row'[v].last = row[v].last
          /\ v \in late' \/ row'[v].day = row[v].day
       \/ row'[v].day = 0 /\ row'[v].last = Never /\ ~InRound(v)

LEMMA MadeKept ==
    ASSUME BaseInv, ShapeOK', MadeInStep, UNCHANGED <<loop, resetFor, swept>>, late \subseteq late',
           today' \in Nat, today <= today', SettingsKept
    PROVE  MadeInStep'
<1>1. ASSUME NEW u \in Ids PROVE MadeFor(u)'
  <2>1. MadeFor(u)
    BY DEF MadeInStep
  <2>2. /\ Listed(u)' <=> Listed(u)
        /\ Due(u)' <=> Due(u)
        /\ \A d : HasReset(u, d)' <=> HasReset(u, d)
    BY DEF Recording, Listed, Due, HasReset
  <2>3. /\ row[u] # NoRow => row[u].last \in Int
        /\ Listed(u) => loop.rows[u].last \in Int
        /\ today \in Nat
    <3>1. \A r \in WideRow : r.last \in Int
      BY AccountBounds DEF WideRow, Never
    <3>2. row[u] # NoRow => row[u] \in WideRow
      BY DEF BaseInv, ShapeOK
    <3> QED BY <3>1, <3>2, AccountBounds DEF BaseInv, ShapeOK, LoopOK, Listed, Never
  <2>4. CASE row'[u] = NoRow
    BY <2>1, <2>2, <2>3, <2>4 DEF MadeFor, HasReset
  <2>5. CASE row'[u] # NoRow /\ row[u] # NoRow /\ row'[u].last = row[u].last
                             /\ (u \in late' \/ row'[u].day = row[u].day)
    BY <2>1, <2>2, <2>3, <2>5 DEF MadeFor, HasReset
  <2>6. CASE row'[u].day = 0 /\ row'[u].last = Never /\ ~InRound(u)
    <3>1. ~Listed(u) /\ \A d : ~Came(d, row'[u].day)
      BY <2>6 DEF InRound, Listed, Came
    <3> QED BY <2>2, <2>6, <3>1 DEF MadeFor
  <2> QED BY <2>4, <2>5, <2>6 DEF SettingsKept
<1> QED BY <1>1 DEF MadeInStep, HasReset

LEMMA MadeCrashed == ASSUME BaseInv, MadeInStep, Crash PROVE MadeInStep'
<1>1. /\ loop' = Idle /\ UNCHANGED <<row, resetFor, today>> /\ swept' = Never
  BY DEF Crash, dbVars
<1>2. loop'.pc = "idle" /\ \A u : ~(Listed(u)')
  BY <1>1 DEF Idle, Listed
<1>3. ASSUME NEW u \in Ids PROVE MadeFor(u)'
  <2>1. MadeFor(u)
    BY DEF MadeInStep
  <2> QED BY <1>1, <1>2, <2>1 DEF MadeFor, HasReset
<1> QED BY <1>2, <1>3 DEF MadeInStep

LEMMA ListMade == ASSUME BaseInv, MadeInStep, ListUsers PROVE MadeInStep'
<1>1. /\ loop.pc = "idle" /\ loop'.pc = "list"
      /\ UNCHANGED <<row, resetFor, today>>
      /\ DOMAIN loop'.rows = {v \in Ids : row[v] # NoRow}
      /\ \A u \in DOMAIN loop'.rows : /\ loop'.rows[u].last = row[u].last
                                      /\ loop'.rows[u].day = row[u].day
  BY DEF ListUsers, dbVars
<1>2. ASSUME NEW u \in Ids PROVE MadeFor(u)'
  <2>1. MadeFor(u)
    BY DEF MadeInStep
  <2>2. Listed(u)' <=> row[u] # NoRow
    BY <1>1 DEF Listed
  <2> QED BY <1>1, <2>1, <2>2 DEF MadeFor, HasReset
<1> QED BY <1>1, <1>2 DEF MadeInStep

\* A reset recorded since the instant of this month was carried out in this month.
LEMMA LastInMonth ==
    ASSUME NEW d \in Nat, NEW last \in Nat, NEW day \in 1..MonthDays, Instant(d, day) <= last, last <= d
    PROVE  Month(last) = Month(d)
<1>1. Instant(d, day) \in Nat /\ Month(Instant(d, day)) = Month(d)
  BY InstantMonth
<1>2. \A a, b \in Nat : a <= b => Month(a) <= Month(b) /\ Month(a) \in Nat /\ Month(b) \in Nat
  BY AccountBounds DEF Month
<1>3. Month(Instant(d, day)) <= Month(last) /\ Month(last) <= Month(d)
  BY <1>1, <1>2
<1> QED BY <1>1, <1>2, <1>3

LEMMA CheckMade == ASSUME BaseInv, MadeInStep, Check PROVE MadeInStep'
<1> DEFINE due == {u \in DOMAIN loop.rows : ResetDue(today, loop.rows[u])}
           f   == [u \in due |-> [at |-> Instant(today, loop.rows[u].day), nids |-> NodesOf(u)]]
<1>1. /\ loop.pc = "list" /\ UNCHANGED <<row, resetFor, today, late>> /\ today \in Nat
      /\ DOMAIN f = due
  BY AccountBounds DEF Check, dbVars, BaseInv, ShapeOK
<1>2. \/ loop'.pc = "idle" /\ due = {} /\ swept' = today
      \/ loop'.pc = "next" /\ loop'.due = f /\ loop'.now = today
  BY DEF Check, Idle
<1>3. ASSUME NEW u \in due PROVE Month(f[u].at) = Month(today)
  <2>1. loop.rows[u].day \in 1..MonthDays
    BY <1>1, DaysAssumption DEF BaseInv, LoopOK, ResetDue
  <2>2. Month(Instant(today, loop.rows[u].day)) = Month(today)
    BY <1>1, <2>1, InstantMonth
  <2> QED BY <2>2
<1>4. ASSUME NEW u \in Ids \ late, u \notin due, row[u] # NoRow, Came(today, row[u].day)
      PROVE  HasReset(u, today)
  <2>1. MadeFor(u) /\ row[u].day >= 1 /\ today >= Instant(today, row[u].day)
    BY <1>4 DEF MadeInStep, Came
  <2>2. Listed(u) /\ loop.rows[u].day = row[u].day
    BY <1>1, <1>4, <2>1 DEF MadeFor
  <2>3. /\ loop.rows[u].day \in 1..MonthDays /\ loop.rows[u].last \in Never..MaxDays
    BY <1>1, <2>1, <2>2, DaysAssumption DEF BaseInv, LoopOK, Listed
  <2>4. PICK day \in 1..MonthDays, last \in Int : day = loop.rows[u].day /\ last = loop.rows[u].last
    BY <2>3, AccountBounds DEF Never
  <2>5. Instant(today, day) \in Nat
    BY <1>1, InstantMonth
  <2>6. ~(last < Instant(today, day))
    BY <1>4, <2>1, <2>2, <2>4 DEF ResetDue, Listed
  <2>7. last \in Nat /\ Instant(today, day) <= last /\ last # Never
    BY <2>4, <2>5, <2>6 DEF Never
  <2>8. last <= today /\ HasReset(u, last)
    BY <2>1, <2>2, <2>4, <2>7 DEF MadeFor
  <2>9. Month(last) = Month(today)
    BY <1>1, <2>7, <2>8, LastInMonth
  <2> QED BY <2>8, <2>9 DEF HasReset
<1> HIDE DEF f, due
<1>5. ASSUME NEW u \in Ids PROVE MadeFor(u)'
  <2>1. MadeFor(u)
    BY DEF MadeInStep
  <2>2. ~(Listed(u)') /\ (loop'.pc = "next" => (Due(u)' <=> u \in due))
    BY <1>1, <1>2 DEF Listed, Due, Recording
  <2> QED BY <1>1, <1>2, <1>4, <2>1, <2>2 DEF MadeFor, HasReset
<1> QED BY <1>1, <1>2, <1>3, <1>5 DEF MadeInStep

LEMMA AutoResetMade ==
    ASSUME BaseInv, MadeInStep, NEW u \in Ids, AutoReset(u) PROVE MadeInStep'
<1> DEFINE at == loop.due[u].at
<1>1. /\ loop.pc = "next" /\ u \in DOMAIN loop.due /\ loop'.pc = "record" /\ loop'.u = u
      /\ loop'.now = loop.now /\ loop'.due = loop.due /\ UNCHANGED <<today, late, swept>>
      /\ resetFor' = [resetFor EXCEPT ![u] = resetFor[u] \cup {at}]
  BY DEF AutoReset
<1>2. Month(at) = Month(loop.now)
  BY <1>1 DEF MadeInStep
<1>3. /\ \A v \in Ids : resetFor[v] \subseteq resetFor'[v]
      /\ at \in resetFor'[u]
  BY <1>1 DEF BaseInv, ShapeOK
<1>4. /\ \A v \in Ids : \A d : HasReset(v, d) => HasReset(v, d)'
      /\ HasReset(u, loop.now)'
  BY <1>1, <1>2, <1>3 DEF HasReset
<1>5. \A v \in Ids : row'[v] # NoRow => /\ row[v] # NoRow /\ row'[v].last = row[v].last
                                        /\ row'[v].day = row[v].day
  <2>1. PICK q : RowStep(u, q) /\ (row[u] # NoRow => q.day = row[u].day /\ q.last = row[u].last)
    BY UsedRow DEF AutoReset, ResetUsage, BaseInv
  <2> QED BY <2>1, RowAfter DEF RowStep, BaseInv
<1>6. ASSUME NEW v \in Ids PROVE MadeFor(v)'
  <2>1. MadeFor(v)
    BY DEF MadeInStep
  <2>2. ~(Listed(v)') /\ (Due(v)' <=> v # u /\ Due(v))
    BY <1>1 DEF Listed, Due, Recording
  <2>3. CASE v = u
    BY <1>1, <1>4, <1>5, <2>1, <2>2, <2>3 DEF MadeFor, HasReset
  <2>4. CASE v # u
    BY <1>1, <1>4, <1>5, <2>1, <2>2, <2>4 DEF MadeFor, HasReset
  <2> QED BY <2>3, <2>4
<1> QED BY <1>1, <1>4, <1>6 DEF MadeInStep, HasReset

\* The loop leaves a user: its reset failed, or was carried out in this month.
LEMMA LeaveMade ==
    ASSUME BaseInv, MadeInStep, NEW u, loop'.pc = "sync", loop'.due = Without(loop.due, u),
           loop'.now = loop.now, loop.pc \in {"next", "record"}, loop.pc = "record" => u = loop.u,
           u \in late' \/ HasReset(u, loop.now), UNCHANGED <<resetFor, today>>, late \subseteq late',
           \A v \in Ids : row'[v] # NoRow =>
              /\ row[v] # NoRow /\ row'[v].day = row[v].day
              /\ \/ row'[v].last = row[v].last
                 \/ row'[v].last = loop.now /\ HasReset(v, loop.now)
    PROVE  MadeInStep'
<1>1. /\ DOMAIN loop'.due = DOMAIN loop.due \ {u}
      /\ \A v \in DOMAIN loop'.due : loop'.due[v] = loop.due[v]
  BY DEF Without
<1>2. loop.now <= today
  BY AccountBounds DEF BaseInv, LoopOK, ShapeOK
<1>3. ASSUME NEW v \in Ids PROVE MadeFor(v)'
  <2>1. MadeFor(v)
    BY DEF MadeInStep
  <2>2. ~(Listed(v)') /\ (v # u /\ Due(v) => Due(v)')
    BY <1>1 DEF Listed, Due, Recording
  <2>3. /\ row'[v] # NoRow /\ row'[v].last # Never =>
              row'[v].last <= today /\ HasReset(v, row'[v].last)
    BY <1>2, <2>1 DEF MadeFor
  <2>4. ASSUME v \notin late', row'[v] # NoRow, ~(Due(v)'), Came(loop.now, row'[v].day)
        PROVE  HasReset(v, loop.now)
    <3>1. CASE v = u
      BY <2>4, <3>1
    <3>2. CASE v # u
      BY <2>1, <2>2, <2>4, <3>2 DEF MadeFor
    <3> QED BY <3>1, <3>2
  <2> QED BY <2>2, <2>3, <2>4 DEF MadeFor, HasReset
<1> QED BY <1>1, <1>3 DEF MadeInStep

LEMMA LoopMade == ASSUME BaseInv, ShapeOK', MadeInStep, Loop PROVE MadeInStep'
<1>1. CASE ListUsers
  BY <1>1, ListMade
<1>2. CASE Check
  BY <1>2, CheckMade
<1>3. ASSUME NEW u \in Ids, AutoReset(u) PROVE MadeInStep'
  BY <1>3, AutoResetMade
<1>4. ASSUME NEW u \in Ids, AutoResetFails(u) PROVE MadeInStep'
  <2>1. /\ loop.pc = "next" /\ loop'.pc = "sync" /\ loop'.due = Without(loop.due, u)
        /\ loop'.now = loop.now /\ UNCHANGED <<row, resetFor, today>> /\ late' = late \cup {u}
    BY <1>4 DEF AutoResetFails, dbVars
  <2> QED BY <2>1, LeaveMade
<1>5. CASE RecordReset
  <2>1. /\ loop.pc = "record" /\ loop'.pc = "sync" /\ loop'.due = Without(loop.due, loop.u)
        /\ loop'.now = loop.now /\ UNCHANGED <<resetFor, late, today>>
        /\ row' = IF row[loop.u] = NoRow THEN row ELSE [row EXCEPT ![loop.u].last = loop.now]
    BY <1>5 DEF RecordReset, Recorded, histVars, resetVars
  <2>2. loop.u \in Ids /\ loop.now \in Never..MaxDays /\ ShapeOK
    BY <2>1, AccountBounds DEF BaseInv, LoopOK, DueOK, ShapeOK, Never
  <2>3. PICK q : /\ RowStep(loop.u, q)
                 /\ row[loop.u] # NoRow => q.last = loop.now /\ q.day = row[loop.u].day
    BY <2>1, <2>2, LastRow
  <2>4. /\ row'[loop.u] = q /\ \A v \in Ids : v # loop.u => row'[v] = row[v]
        /\ row[loop.u] = NoRow => q = NoRow
    BY <2>2, <2>3, RowAfter DEF RowStep
  <2>5. HasReset(loop.u, loop.now)
    BY <2>1 DEF MadeInStep
  <2>6. \A v \in Ids : row'[v] # NoRow =>
              /\ row[v] # NoRow /\ row'[v].day = row[v].day
              /\ \/ row'[v].last = row[v].last
                 \/ row'[v].last = loop.now /\ HasReset(v, loop.now)
    BY <2>3, <2>4, <2>5
  <2> QED BY <2>1, <2>5, <2>6, LeaveMade
<1>6. CASE RecordFails
  <2>1. /\ loop.pc = "record" /\ loop'.pc = "sync" /\ loop'.due = Without(loop.due, loop.u)
        /\ loop'.now = loop.now /\ UNCHANGED <<row, resetFor, late, today>>
    BY <1>6 DEF RecordFails, Recorded, dbVars
  <2>2. HasReset(loop.u, loop.now)
    BY <2>1 DEF MadeInStep
  <2> QED BY <2>1, <2>2, LeaveMade
<1>7. CASE LoopNext \/ \E n \in Nodes : LoopSync(n)
  <2>1. /\ loop.pc = "sync" /\ UNCHANGED <<row, resetFor, today, late>>
        /\ loop = [pc |-> "sync", now |-> loop.now, due |-> loop.due, todo |-> loop.todo]
    BY <1>7 DEF LoopSync, LoopNext, dbVars, resetVars, BaseInv, LoopOK
  <2>2. \/ loop'.pc = "idle" /\ DOMAIN loop.due = {} /\ swept' = loop.now
        \/ loop'.pc \in {"next", "sync"} /\ loop'.due = loop.due /\ loop'.now = loop.now
    BY <1>7, <2>1 DEF LoopSync, LoopNext, Idle
  <2>3. ASSUME NEW v \in Ids PROVE MadeFor(v)'
    <3>1. MadeFor(v)
      BY DEF MadeInStep
    <3>2. /\ ~(Listed(v)') /\ (loop'.pc # "idle" => (Due(v)' <=> Due(v)))
          /\ loop'.pc = "idle" => ~Due(v)
      BY <2>1, <2>2 DEF Recording, Listed, Due
    <3> QED BY <2>1, <2>2, <3>1, <3>2 DEF MadeFor, HasReset
  <2> QED BY <2>1, <2>2, <2>3 DEF MadeInStep
<1> QED BY <1>1, <1>2, <1>3, <1>4, <1>5, <1>6, <1>7 DEF Loop

LEMMA HandleMade ==
    ASSUME BaseInv, ShapeOK', MadeInStep, NEW w \in Workers, Handle(w) PROVE MadeInStep'
<1>0. today \in Nat /\ today <= today
  BY AccountBounds DEF BaseInv, ShapeOK
<1>1. CASE BotPanics(w)
  BY <1>1, MadeCrashed DEF BotPanics
<1>2. CASE Insert(w)
  <2>1. UNCHANGED <<loop, resetFor, swept, late, today>>
    BY <1>2 DEF Insert, histVars, resetVars
  <2>2. wk[w].u \in Ids
    BY <1>2, JobFields DEF Insert, BaseInv
  <2>3. ASSUME NEW v \in Ids
        PROVE  \/ row'[v] = row[v]
               \/ row'[v] = NewRow(0, 0) /\ ~InRound(v)
    <3>1. CASE v \in made
      BY <1>2, <2>2, <3>1 DEF Insert, BaseInv, ShapeOK
    <3>2. CASE v \notin made
      <4>1. ~InRound(v)
        BY <3>2 DEF BaseInv, LoopOK, DueOK, InRound
      <4>2. row'[v] = row[v] \/ row'[v] = NewRow(0, 0)
        BY <1>2, <2>2 DEF Insert, BaseInv, ShapeOK
      <4> QED BY <4>1, <4>2
    <3> QED BY <3>1, <3>2
  <2>4. NewRow(0, 0).day = 0 /\ NewRow(0, 0).last = Never
    BY DEF NewRow
  <2>5. SettingsKept
    BY <2>3, <2>4 DEF SettingsKept
  <2> QED BY <1>0, <2>1, <2>5, MadeKept
<1>3. CASE Write(w)
  <2>1. UNCHANGED <<loop, resetFor, swept, today>> /\ late \subseteq late'
    BY <1>3 DEF Write
  <2>2. ASSUME NEW v \in Ids, row'[v] # NoRow, row[v] # NoRow
        PROVE  v \in late' \/ row'[v].day = row[v].day
    <3>1. \A y \in Ids : y # wk[w].u => row'[y] = row[y]
      BY <1>3, WriteOthers DEF BaseInv
    <3>2. late' = late \cup {y \in {wk[w].u} : row[y] # NoRow /\ row'[y] # NoRow
                                               /\ row'[y].day # row[y].day}
      BY <1>3 DEF Write
    <3> QED BY <2>2, <3>1, <3>2
  <2>3. SettingsKept
    BY <1>3, <2>2, WriteOthers DEF BaseInv, SettingsKept
  <2> QED BY <1>0, <2>1, <2>3, MadeKept
<1>4. CASE AddTraffic(w)
  <2>1. UNCHANGED <<loop, resetFor, swept, late, today>>
    BY <1>4 DEF AddTraffic, resetVars
  <2>2. SettingsKept
    BY <1>4, AddOthers DEF BaseInv, SettingsKept
  <2> QED BY <1>0, <2>1, <2>2, MadeKept
<1>5. CASE ~(BotPanics(w) \/ Insert(w) \/ Write(w) \/ AddTraffic(w))
  <2>1. UNCHANGED <<row, loop, resetFor, swept, late, today>>
    BY <1>5 DEF Handle, GetByName, GetRow, GetNodes, StoreFails, Lookup, SyncOne, Finish, dbVars,
       histVars, resetVars
  <2> QED BY <1>0, <2>1, MadeKept DEF SettingsKept
<1> QED BY <1>1, <1>2, <1>3, <1>4, <1>5

LEMMA MadeStep == ASSUME BaseInv, ShapeOK', MadeInStep, [Next]_vars PROVE MadeInStep'
<1>0. today \in Nat /\ today <= today
  BY AccountBounds DEF BaseInv, ShapeOK
<1>1. ASSUME NEW w \in Workers, Begin(w) PROVE MadeInStep'
  <2>1. UNCHANGED <<row, loop, resetFor, swept, late, today>>
    BY <1>1, BeginJob DEF BaseInv, dbVars, histVars, resetVars
  <2> QED BY <1>0, <2>1, MadeKept DEF SettingsKept
<1>2. ASSUME NEW w \in Workers, Handle(w) PROVE MadeInStep'
  BY <1>2, HandleMade
<1>3. ASSUME NEW n \in Nodes, DeleteNode(n) \/ Enforce(n) \/ Connect(n) \/ Disconnect(n)
      PROVE  MadeInStep'
  <2>1. UNCHANGED <<row, loop, resetFor, swept, late, today>>
    BY <1>3 DEF DeleteNode, Enforce, Connect, Disconnect, dbVars, resetVars
  <2> QED BY <1>0, <2>1, MadeKept DEF SettingsKept
<1>4. CASE Loop
  BY <1>4, LoopMade
<1>5. CASE NextDay
  <2>1. UNCHANGED <<row, loop, resetFor, swept, late>> /\ today' = today + 1
    BY <1>5 DEF NextDay, dbVars, histVars, resetVars
  <2> QED BY <1>0, <2>1, MadeKept DEF SettingsKept
<1>6. CASE PanelCrash
  BY <1>6, MadeCrashed DEF PanelCrash
<1>7. CASE UNCHANGED vars
  <2>1. UNCHANGED <<row, loop, resetFor, swept, late, today>>
    BY <1>7 DEF vars
  <2> QED BY <1>0, <2>1, MadeKept DEF SettingsKept
<1> QED BY <1>1, <1>2, <1>3, <1>4, <1>5, <1>6, <1>7 DEF Next

\* monthlyResetDue against what autoResetLoop recorded earlier: after each round every user
\* whose reset day had come is reset for the month, though the rounds skipped days, users
\* were edited meanwhile, and the process died and came back.
THEOREM RoundComplete == Spec => []MadeUp
<1>1. Init => MadeInStep
  <2>1. SUFFICES ASSUME Init PROVE MadeInStep
    OBVIOUS
  <2>2. loop.pc = "idle" /\ swept = Never /\ \A u : ~Listed(u)
    BY <2>1 DEF Init, Idle, Listed
  <2>3. ASSUME NEW u \in Ids, row[u] # NoRow PROVE row[u].last = Never
    BY <2>1, <2>3 DEF Init, NewRow
  <2> QED BY <2>2, <2>3 DEF MadeInStep, MadeFor
<1>2. BaseInv /\ MadeInStep /\ [Next]_vars => BaseInv' /\ MadeInStep'
  BY BaseStep, MadeStep DEF BaseInv
<1>3. Spec => [](BaseInv /\ MadeInStep)
  BY <1>1, <1>2, BaseInit, PTL DEF Spec
<1>4. MadeInStep => MadeUp
  <2>1. SUFFICES ASSUME MadeInStep, loop.pc = "idle", swept # Never, NEW u \in Ids \ late,
                        row[u] # NoRow, row[u].day >= 1, swept >= Instant(swept, row[u].day)
                 PROVE  \E i \in resetFor[u] : Month(i) = Month(swept)
    BY DEF MadeUp
  <2> QED BY <2>1 DEF MadeInStep, MadeFor, Came, HasReset
<1> QED BY <1>3, <1>4, PTL

-----------------------------------------------------------------------------
(* What nodes serve. *)

\* A node's users are the same when none of them changed.
LEMMA EffectiveSame ==
    ASSUME NEW n,
           \A v \in Ids : <<v, n>> \in assign' /\ Active(row'[v]) <=> <<v, n>> \in assign /\ Active(row[v]),
           \A v \in Ids : <<v, n>> \in assign /\ Active(row[v]) => row'[v].uuid = row[v].uuid
    PROVE  Effective(n)' = Effective(n)
<1>1. ASSUME NEW p PROVE p \in Effective(n)' <=> p \in Effective(n)
  <2>1. p \in Effective(n) <=> \E v \in Ids : <<v, n>> \in assign /\ Active(row[v])
                                               /\ p = <<v, row[v].uuid>>
    BY Zenon DEF Effective
  <2>2. p \in Effective(n)' <=> \E v \in Ids : <<v, n>> \in assign' /\ Active(row'[v])
                                               /\ p = <<v, row'[v].uuid>>
    BY Zenon DEF Effective
  <2> QED BY <2>1, <2>2, Zenon
<1>2. \A p : p \in Effective(n)' <=> p \in Effective(n)
  BY <1>1
<1> QED BY <1>2, Zenon

LEMMA EffectiveStays ==
    ASSUME NEW n, row' = row, assign' = assign PROVE Effective(n)' = Effective(n)
  BY DEF Effective, Active

\* One user's change concerns the nodes it is assigned to.
LEMMA EffectiveOthers ==
    ASSUME NEW n, NEW u \in Ids, \A v \in Ids : v # u => row'[v] = row[v],
           \A v \in Ids : v # u => (<<v, n>> \in assign' <=> <<v, n>> \in assign),
           <<u, n>> \notin assign, <<u, n>> \notin assign'
    PROVE  Effective(n)' = Effective(n)
<1>1. ASSUME NEW v \in Ids
      PROVE  /\ <<v, n>> \in assign' /\ Active(row'[v]) <=> <<v, n>> \in assign /\ Active(row[v])
             /\ <<v, n>> \in assign /\ Active(row[v]) => row'[v].uuid = row[v].uuid
  <2>1. CASE v = u
    BY <2>1
  <2>2. CASE v # u
    BY <2>2, Zenon
  <2> QED BY <2>1, <2>2
<1> QED BY <1>1, EffectiveSame

InOrder(n) == serves[n] = Effective(n) \/ Syncing(n) \/ Owed(n)

LEMMA ServesShown ==
    /\ ServesInStep <=> \A n \in nodes \ missed : InOrder(n)
    /\ ServesInStep' <=> \A n \in nodes' \ missed' : InOrder(n)'
  BY DEF ServesInStep, InOrder

LEMMA InOrderKept ==
    ASSUME NEW n, InOrder(n), serves'[n] = serves[n], Effective(n)' = Effective(n),
           Syncing(n) => InOrder(n)', Owed(n) => InOrder(n)'
    PROVE  InOrder(n)'
  BY DEF InOrder

\* The lists that worker w does not hold stay.
LEMMA SyncingStays ==
    ASSUME NEW n, NEW w \in Workers, loop' = loop, Syncing(n),
           \A v \in Workers : v # w => wk'[v] = wk[v],
           wk[w].pc = "sync" /\ n \in wk[w].todo => wk'[w].pc = "sync" /\ n \in wk'[w].todo
    PROVE  Syncing(n)'
  BY DEF Syncing

\* So does what other workers owe, while the user keeps its row and its node.
LEMMA OwedStays ==
    ASSUME WorkersOK, NEW n, NEW w \in Workers, Owed(n),
           \A v \in Workers : v # w => wk'[v] = wk[v],
           \A y \in Ids : row[y] # NoRow /\ <<y, n>> \in assign => row'[y] # NoRow /\ <<y, n>> \in assign',
           Owes(w, n) => Owed(n)' \/ Syncing(n)'
    PROVE  Owed(n)' \/ Syncing(n)'
<1>1. PICK v \in Workers : Owes(v, n)
  BY DEF Owed
<1>2. CASE v = w
  BY <1>1, <1>2
<1>3. CASE v # w
  <2>1. wk[v].u \in Ids
    BY <1>1, JobFields DEF Owes
  <2>2. Owes(v, n)'
    BY <1>1, <1>3, <2>1 DEF Owes
  <2> QED BY <2>2 DEF Owed
<1> QED BY <1>2, <1>3

\* A step of worker w that leaves the tables, and what the nodes serve.
LEMMA WorkerServes ==
    ASSUME WorkersOK, ServesInStep, NEW w \in Workers, UNCHANGED <<row, assign, nodes, serves, loop>>,
           missed \subseteq missed', \A v \in Workers : v # w => wk'[v] = wk[v],
           wk[w].pc = "sync" => wk[w].todo = {},
           \A n \in nodes \ missed' : Owes(w, n) => Owed(n)' \/ Syncing(n)'
    PROVE  ServesInStep'
<1>1. ASSUME NEW n \in nodes \ missed' PROVE InOrder(n)'
  <2>1. InOrder(n) /\ Effective(n)' = Effective(n) /\ serves'[n] = serves[n]
    BY <1>1, ServesShown, EffectiveStays
  <2>2. Syncing(n) => Syncing(n)'
    BY SyncingStays
  <2>3. Owed(n) => Owed(n)' \/ Syncing(n)'
    BY OwedStays
  <2> QED BY <2>1, <2>2, <2>3, InOrderKept DEF InOrder
<1> QED BY <1>1, ServesShown

LEMMA CrashServes == ASSUME ShapeOK, Crash PROVE ServesInStep'
  BY DEF Crash, ServesInStep, ShapeOK, dbVars

\* A connected node is synced; one that is not is missed already.
SyncedOrMissed(m) ==
    \/ /\ serves' = IF m \in nodes THEN [serves EXCEPT ![m] = Effective(m)] ELSE serves
       /\ missed' = missed \ {m}
    \/ m \in missed /\ UNCHANGED <<serves, missed>>

LEMMA SyncNodeServes == ASSUME ShapeOK, NEW m \in Nodes, SyncNode(m) PROVE SyncedOrMissed(m)
  BY DEF ShapeOK, SyncNode, SyncedOrMissed

\* A node that is synced serves its users; the others are none the wiser.
LEMMA SyncedServes ==
    ASSUME ShapeOK, ServesInStep, NEW m \in Nodes, UNCHANGED <<row, assign, nodes>>,
           SyncedOrMissed(m),
           \A n \in Nodes : n # m /\ Syncing(n) => Syncing(n)',
           \A n \in Nodes : n # m /\ Owed(n) => Owed(n)'
    PROVE  ServesInStep'
<1>1. ASSUME NEW n \in nodes' \ missed' PROVE InOrder(n)'
  <2>0. n \in nodes /\ n \in Nodes /\ Effective(n)' = Effective(n)
    BY <1>1, EffectiveStays DEF ShapeOK
  <2>1. CASE n = m
    <3>1. serves'[n] = Effective(n)
      BY <1>1, <2>0, <2>1 DEF ShapeOK, SyncedOrMissed
    <3> QED BY <2>0, <3>1 DEF InOrder
  <2>2. CASE n # m
    <3>1. serves'[n] = serves[n] /\ n \notin missed
      BY <1>1, <2>0, <2>2 DEF ShapeOK, SyncedOrMissed
    <3>2. InOrder(n)
      BY <2>0, <3>1, ServesShown
    <3> QED BY <2>0, <2>2, <3>1, <3>2 DEF InOrder
  <2> QED BY <2>1, <2>2
<1> QED BY <1>1, ServesShown

LEMMA RowsAreRows == NoRow \notin WideRow
  BY NoRowAssumption DEF WideRow

LEMMA ReadServes ==
    ASSUME BaseInv, ServesInStep, NEW w \in Workers,
           GetByName(w) \/ GetRow(w) \/ GetNodes(w) \/ Lookup(w) \/ Finish(w) \/ StoreFails(w)
    PROVE  ServesInStep'
<1>0. /\ UNCHANGED <<row, assign, nodes, serves, loop>> /\ missed \subseteq missed'
      /\ wk[w].pc # "idle" /\ (wk[w].pc = "sync" => wk[w].todo = {})
  BY DEF GetByName, GetRow, GetNodes, Lookup, Finish, StoreFails, dbVars, histVars, resetVars
<1>1. wk[w] \in Job /\ wk \in [Workers -> {Idle} \cup Job] /\ WorkersOK
  BY <1>0, JobFields DEF BaseInv, WorkersOK
<1>2. \A v \in Workers : v # w => wk'[v] = wk[v]
  BY <1>1 DEF GetByName, GetRow, GetNodes, Lookup, Finish, StoreFails, Done, Goto
<1>3. ASSUME NEW n \in nodes \ missed', Owes(w, n) PROVE Owed(n)' \/ Syncing(n)'
  <2>0. /\ wk[w].pc \in {"get", "nids"} /\ wk[w].op = "reset" /\ row[wk[w].u] # NoRow
        /\ n \in NodesOf(wk[w].u)
    BY <1>3 DEF Owes, NodesOf, BaseInv, ShapeOK
  <2>1. CASE GetRow(w)
    <3>1. wk' = [wk EXCEPT ![w].r = row[wk[w].u], ![w].pc = "nids"]
      BY <2>0, <2>1 DEF GetRow
    <3>2. wk'[w].pc = "nids" /\ wk'[w].op = wk[w].op /\ wk'[w].u = wk[w].u
      BY <1>1, <3>1 DEF Job
    <3>3. Owes(w, n)'
      BY <1>0, <1>3, <2>0, <3>2 DEF Owes
    <3> QED BY <3>3 DEF Owed
  <2>2. CASE GetNodes(w)
    <3>1. wk' = [wk EXCEPT ![w].todo = NodesOf(wk[w].u), ![w].pc = "sync"]
      BY <2>0, <2>2 DEF GetNodes
    <3>2. wk'[w].pc = "sync" /\ n \in wk'[w].todo
      BY <1>1, <2>0, <3>1 DEF Job
    <3> QED BY <3>2 DEF Syncing
  <2>3. CASE StoreFails(w)
    BY <1>3, <2>0, <2>3 DEF StoreFails
  <2> QED BY <2>0, <2>1, <2>2, <2>3 DEF GetByName, Lookup, Finish
<1> QED BY <1>0, <1>1, <1>2, <1>3, WorkerServes

LEMMA InsertServes ==
    ASSUME BaseInv, ServesInStep, NEW w \in Workers, Insert(w) PROVE ServesInStep'
<1> DEFINE u == wk[w].u
<1>0. /\ UNCHANGED <<assign, nodes, serves, loop, missed>> /\ wk[w].pc = "insert"
      /\ u \in Ids /\ wk[w] \in Job /\ wk \in [Workers -> {Idle} \cup Job] /\ WorkersOK
  BY JobFields DEF Insert, histVars, resetVars, BaseInv, WorkersOK
<1>1. \A v \in Workers : v # w => wk'[v] = wk[v]
  BY <1>0 DEF Insert, Done, Goto
<1>2. ASSUME NEW n \in nodes \ missed PROVE InOrder(n)'
  <2>1. CASE u \in made
    <3>1. row' = row
      BY <2>1 DEF Insert
    <3>2. Effective(n)' = Effective(n)
      BY <1>0, <3>1, EffectiveStays
    <3>3. Syncing(n) => Syncing(n)'
      BY <1>0, <1>1, SyncingStays
    <3>4. Owed(n) => Owed(n)' \/ Syncing(n)'
      BY <1>0, <1>1, <3>1, OwedStays DEF Owes
    <3> QED BY <1>0, <1>2, <3>2, <3>3, <3>4, ServesShown, InOrderKept DEF InOrder
  <2>2. CASE u \notin made
    <3>1. row' = [row EXCEPT ![u] = NewRow(0, 0)] /\ <<u, n>> \notin assign
      BY <2>2 DEF Insert, BaseInv, ShapeOK
    <3>2. \A v \in Ids : v # u => row'[v] = row[v]
      BY <3>1 DEF BaseInv, ShapeOK
    <3>3. Effective(n)' = Effective(n)
      BY <1>0, <3>1, <3>2, EffectiveOthers
    <3>4. Syncing(n) => Syncing(n)'
      BY <1>0, <1>1, SyncingStays
    <3>5. Owed(n) => Owed(n)' \/ Syncing(n)'
      <4>1. \A y \in Ids : row[y] # NoRow /\ <<y, n>> \in assign =>
                              row'[y] # NoRow /\ <<y, n>> \in assign'
        BY <1>0, <3>1, <3>2
      <4> QED BY <1>0, <1>1, <4>1, OwedStays DEF Owes
    <3> QED BY <1>0, <1>2, <3>3, <3>4, <3>5, ServesShown, InOrderKept DEF InOrder
  <2> QED BY <2>1, <2>2
<1> QED BY <1>0, <1>2, ServesShown

\* What a write does to the assignments.
LEMMA WriteAssigns ==
    ASSUME ShapeOK, WorkersOK, NEW w \in Workers, Write(w), NEW n \in Nodes
    PROVE  /\ \A v \in Ids : v # wk[w].u => (<<v, n>> \in assign' <=> <<v, n>> \in assign)
           /\ wk[w].op = "reset" => assign' = assign
           /\ <<wk[w].u, n>> \in assign' => <<wk[w].u, n>> \in assign \/ n \in wk[w].set
<1>1. CASE assign' = assign
  BY <1>1
<1>2. CASE assign' = Assigned(wk[w].u, wk[w].set) /\ wk[w].op # "reset"
  BY <1>2 DEF Assigned
<1>3. CASE assign' = assign \ ({wk[w].u} \X Nodes) /\ wk[w].op # "reset"
  BY <1>3
<1> QED BY <1>1, <1>2, <1>3 DEF Write, Deleted

LEMMA WriteServes ==
    ASSUME BaseInv, ServesInStep, NEW w \in Workers, Write(w) PROVE ServesInStep'
<1> DEFINE u == wk[w].u
<1>0. /\ UNCHANGED <<nodes, serves, loop>> /\ wk[w].pc = "write" /\ missed \subseteq missed'
      /\ ShapeOK /\ WorkersOK
  BY DEF Write, BaseInv
<1>1. u \in Ids /\ wk[w] \in Job /\ wk \in [Workers -> {Idle} \cup Job]
  BY <1>0, JobFields DEF WorkersOK
<1>2. /\ \A v \in Workers : v # w => wk'[v] = wk[v]
      /\ wk'[w].todo = wk[w].todo \cup wk[w].set /\ wk'[w].op = wk[w].op /\ wk'[w].u = u
      /\ wk'[w].pc = IF wk[w].op = "reset" THEN "get" ELSE "sync"
  BY <1>1 DEF Write, Touched, Job
<1>3. \A v \in Ids : v # u => row'[v] = row[v]
  BY <1>0, WriteOthers
<1>4. ASSUME NEW n \in nodes \ missed' PROVE InOrder(n)'
  <2>0. n \in Nodes /\ InOrder(n) /\ serves'[n] = serves[n]
    BY <1>0, <1>4, ServesShown DEF ShapeOK
  <2>1. /\ \A v \in Ids : v # u => (<<v, n>> \in assign' <=> <<v, n>> \in assign)
        /\ wk[w].op = "reset" => assign' = assign
        /\ <<u, n>> \in assign' => <<u, n>> \in assign \/ n \in wk[w].set
    BY <1>0, <2>0, WriteAssigns
  <2>2. Syncing(n) => Syncing(n)'
    BY <1>0, <1>2, SyncingStays
  <2>3. ASSUME <<u, n>> \notin assign, <<u, n>> \notin assign' PROVE InOrder(n)'
    <3>1. Effective(n)' = Effective(n)
      BY <1>1, <1>3, <2>1, <2>3, EffectiveOthers
    <3>2. \A y \in Ids : row[y] # NoRow /\ <<y, n>> \in assign =>
                            row'[y] # NoRow /\ <<y, n>> \in assign'
      BY <1>3, <2>1, <2>3
    <3>3. Owed(n) => Owed(n)' \/ Syncing(n)'
      BY <1>0, <1>2, <3>2, OwedStays DEF Owes
    <3> QED BY <2>0, <2>2, <3>1, <3>3, InOrderKept DEF InOrder
  <2>4. CASE wk[w].op = "reset"
    <3>0. /\ assign' = assign
          /\ row' = IF row[u] = NoRow THEN row ELSE [row EXCEPT ![u].used = 0]
      BY <2>1, <2>4 DEF Write, ResetUsage
    <3>1. CASE <<u, n>> \notin assign
      BY <2>3, <3>0, <3>1
    <3>2. CASE <<u, n>> \in assign /\ row[u] # NoRow
      <4>1. row'[u] # NoRow
        <5>1. PICK q : RowStep(u, q) /\ q \in WideRow
          BY <1>0, <1>1, <3>0, <3>2, UsedRow
        <5> QED BY <1>0, <1>1, <5>1, RowAfter, RowsAreRows
      <4>2. Owes(w, n)'
        BY <1>2, <2>4, <3>0, <3>2, <4>1 DEF Owes
      <4> QED BY <4>2 DEF InOrder, Owed
    <3>3. CASE row[u] = NoRow
      <4>1. row' = row
        BY <3>0, <3>3
      <4>2. Effective(n)' = Effective(n)
        BY <3>0, <4>1, EffectiveStays
      <4>3. Owed(n) => Owed(n)' \/ Syncing(n)'
        BY <1>0, <1>2, <3>0, <4>1, OwedStays DEF Owes
      <4> QED BY <2>0, <2>2, <4>2, <4>3, InOrderKept DEF InOrder
    <3> QED BY <3>1, <3>2, <3>3
  <2>5. CASE wk[w].op # "reset"
    <3>1. CASE n \in wk[w].todo \cup wk[w].set
      <4>1. Syncing(n)'
        BY <1>2, <2>5, <3>1 DEF Syncing
      <4> QED BY <4>1 DEF InOrder
    <3>2. CASE n \notin wk[w].todo \cup wk[w].set
      <4>1. n \notin NodesOf(u)
        BY <1>4, <2>5, <3>2 DEF Write
      <4>2. <<u, n>> \notin assign /\ <<u, n>> \notin assign'
        BY <2>0, <2>1, <3>2, <4>1 DEF NodesOf
      <4> QED BY <2>3, <4>2
    <3> QED BY <3>1, <3>2
  <2> QED BY <2>4, <2>5
<1> QED BY <1>0, <1>4, ServesShown

LEMMA AddServes ==
    ASSUME BaseInv, ServesInStep, NEW w \in Workers, AddTraffic(w) PROVE ServesInStep'
<1> DEFINE u == wk[w].u
<1>0. /\ UNCHANGED <<nodes, serves, loop, assign>> /\ wk[w].pc = "add" /\ missed \subseteq missed'
      /\ ShapeOK /\ WorkersOK
  BY DEF AddTraffic, BaseInv
<1>1. u \in Ids /\ wk[w] \in Job /\ wk \in [Workers -> {Idle} \cup Job]
  BY <1>0, JobFields DEF WorkersOK
<1>2. /\ \A v \in Workers : v # w => wk'[v] = wk[v]
      /\ wk'[w].todo = wk[w].set /\ wk'[w].pc = "sync"
  BY <1>1 DEF AddTraffic, Job
<1>3. /\ \A v \in Ids : v # u => row'[v] = row[v]
      /\ row'[u] # NoRow => row'[u].uuid = row[u].uuid
  BY <1>0, AddOthers
<1>4. \A y \in Ids : row[y] # NoRow => row'[y] # NoRow
  <2>1. CASE row[u] = NoRow
    BY <1>3, <2>1
  <2>2. CASE row[u] # NoRow
    <3>1. row[u] \in WideRow
      BY <1>0, <1>1, <2>2 DEF ShapeOK
    <3>2. PICK k \in Nat : k = row[u].used + 1
      BY <3>1 DEF WideRow
    <3>3. PICK q : q = [row[u] EXCEPT !.used = k]
      OBVIOUS
    <3>4. row' = [row EXCEPT ![u] = q]
      BY <1>0, <1>1, <2>2, <3>2, <3>3 DEF AddTraffic, ShapeOK
    <3>5. q \in WideRow
      BY <3>1, <3>3 DEF WideRow
    <3>6. row'[u] = q
      BY <1>0, <1>1, <3>4 DEF ShapeOK
    <3> QED BY <1>3, <3>5, <3>6, RowsAreRows
  <2> QED BY <2>1, <2>2
<1>5. ASSUME NEW n \in nodes \ missed' PROVE InOrder(n)'
  <2>0. n \in Nodes /\ InOrder(n) /\ serves'[n] = serves[n]
    BY <1>0, <1>5, ServesShown DEF ShapeOK
  <2>1. CASE n \in wk[w].set
    <3>1. Syncing(n)'
      BY <1>2, <2>1 DEF Syncing
    <3> QED BY <3>1 DEF InOrder
  <2>2. CASE n \notin wk[w].set
    <3>1. Syncing(n) => Syncing(n)'
      BY <1>0, <1>2, SyncingStays
    <3>2. Owed(n) => Owed(n)' \/ Syncing(n)'
      BY <1>0, <1>2, <1>4, OwedStays DEF Owes
    <3>3. Effective(n)' = Effective(n)
      <4>1. CASE <<u, n>> \notin assign
        BY <1>0, <1>1, <1>3, <4>1, EffectiveOthers
      <4>2. CASE row[u] = NoRow
        <5>1. row' = row
          BY <4>2 DEF AddTraffic
        <5> QED BY <1>0, <5>1, EffectiveStays
      <4>3. CASE <<u, n>> \in assign /\ row[u] # NoRow
        <5>1. n \in NodesOf(u) \ wk[w].set
          BY <2>0, <2>2, <4>3 DEF NodesOf
        <5>2. Active(row'[u]) = Active(row[u])
          <6>1. SUFFICES ASSUME Active(row'[u]) # Active(row[u]) PROVE FALSE
            BY Zenon
          <6>2. missed' = missed \cup (NodesOf(u) \ wk[w].set)
            BY <4>3, <6>1, Zenon DEF AddTraffic
          <6> QED BY <1>5, <5>1, <6>2
        <5>3. ASSUME NEW v \in Ids
              PROVE  /\ Active(row'[v]) <=> Active(row[v])
                     /\ Active(row[v]) => row'[v].uuid = row[v].uuid
          <6>1. CASE v = u
            <7>1. Active(row'[u]) <=> Active(row[u])
              BY <5>2, Zenon
            <7>2. row'[u].uuid = row[u].uuid
              BY <1>1, <1>3, <1>4, <4>3
            <7> QED BY <6>1, <7>1, <7>2, Zenon
          <6>2. CASE v # u
            BY <1>3, <6>2, Zenon
          <6> QED BY <6>1, <6>2
        <5> QED BY <1>0, <5>3, EffectiveSame
      <4> QED BY <4>1, <4>2, <4>3
    <3> QED BY <2>0, <3>1, <3>2, <3>3, InOrderKept DEF InOrder
  <2> QED BY <2>1, <2>2
<1> QED BY <1>0, <1>5, ServesShown

LEMMA SyncOneServes ==
    ASSUME BaseInv, ServesInStep, NEW w \in Workers, NEW m \in Nodes, SyncOne(w, m) PROVE ServesInStep'
<1>0. /\ UNCHANGED <<row, assign, nodes, loop>> /\ wk[w].pc = "sync" /\ SyncedOrMissed(m)
      /\ ShapeOK /\ WorkersOK
  BY SyncNodeServes DEF SyncOne, dbVars, BaseInv
<1>1. wk[w] \in Job /\ wk \in [Workers -> {Idle} \cup Job]
  BY <1>0, JobFields DEF WorkersOK
<1>2. /\ \A v \in Workers : v # w => wk'[v] = wk[v]
      /\ wk'[w].todo = wk[w].todo \ {m} /\ wk'[w].pc = "sync"
  BY <1>0, <1>1 DEF SyncOne, Job
<1>3. ASSUME NEW n \in Nodes, n # m, Syncing(n) PROVE Syncing(n)'
  BY <1>0, <1>2, <1>3, SyncingStays
<1>4. ASSUME NEW n \in Nodes, n # m, Owed(n) PROVE Owed(n)'
  <2>1. PICK v \in Workers : Owes(v, n)
    BY <1>4 DEF Owed
  <2>2. v # w
    BY <1>0, <2>1 DEF Owes
  <2>3. Owes(v, n)'
    BY <1>0, <1>2, <2>1, <2>2 DEF Owes
  <2> QED BY <2>3 DEF Owed
<1> QED BY <1>0, <1>3, <1>4, SyncedServes

LEMMA HandleServes ==
    ASSUME BaseInv, ServesInStep, NEW w \in Workers, Handle(w) PROVE ServesInStep'
<1>1. CASE GetByName(w) \/ GetRow(w) \/ GetNodes(w) \/ Lookup(w) \/ Finish(w) \/ StoreFails(w)
  BY <1>1, ReadServes
<1>2. CASE BotPanics(w)
  BY <1>2, CrashServes DEF BotPanics, BaseInv
<1>3. CASE Insert(w)
  BY <1>3, InsertServes
<1>4. CASE Write(w)
  BY <1>4, WriteServes
<1>5. CASE AddTraffic(w)
  BY <1>5, AddServes
<1>6. ASSUME NEW n \in Nodes, SyncOne(w, n) PROVE ServesInStep'
  BY <1>6, SyncOneServes
<1> QED BY <1>1, <1>2, <1>3, <1>4, <1>5, <1>6 DEF Handle

\* A step of the loop that leaves the rows' settings, and hands on its list.
LEMMA LoopServesKept ==
    ASSUME ServesInStep, UNCHANGED <<assign, nodes, serves, wk>>, missed \subseteq missed',
           \A y \in Ids : row[y] # NoRow => row'[y] # NoRow,
           \A y \in Ids : row'[y] # row[y] => row'[y].uuid = row[y].uuid
                                              /\ (Active(row'[y]) <=> Active(row[y])),
           \A n \in Nodes : Syncing(n) => Syncing(n)',
           ShapeOK, WorkersOK
    PROVE  ServesInStep'
<1>1. ASSUME NEW n \in nodes \ missed' PROVE InOrder(n)'
  <2>0. n \in Nodes /\ InOrder(n) /\ serves'[n] = serves[n]
    BY <1>1, ServesShown DEF ShapeOK
  <2>1. \A v \in Ids : /\ Active(row'[v]) <=> Active(row[v])
                       /\ row'[v].uuid = row[v].uuid
    BY Zenon
  <2>2. Effective(n)' = Effective(n)
    BY <2>1, EffectiveSame
  <2>3. Owed(n) => Owed(n)'
    <3>1. \A v \in Workers : Owes(v, n) => Owes(v, n)'
      <4>1. ASSUME NEW v \in Workers, Owes(v, n) PROVE Owes(v, n)'
        <5>1. wk[v].u \in Ids
          BY <4>1, JobFields DEF Owes
        <5> QED BY <4>1, <5>1 DEF Owes
      <4> QED BY <4>1
    <3> QED BY <3>1 DEF Owed
  <2> QED BY <2>0, <2>2, <2>3, InOrderKept DEF InOrder
<1> QED BY <1>1, ServesShown

LEMMA AutoResetServes ==
    ASSUME BaseInv, ServesInStep, NEW u \in Ids, AutoReset(u) PROVE ServesInStep'
<1>0. /\ UNCHANGED <<assign, nodes, serves, wk>> /\ ShapeOK /\ WorkersOK
      /\ loop.pc = "next" /\ loop'.pc = "record" /\ loop'.u = u /\ loop'.due = loop.due
      /\ missed' = missed \cup (NodesOf(u) \ loop.due[u].nids)
      /\ row' = IF row[u] = NoRow THEN row ELSE [row EXCEPT ![u].used = 0]
  BY DEF AutoReset, ResetUsage, BaseInv
<1>1. PICK q : RowStep(u, q) /\ (row[u] # NoRow => q \in WideRow)
  BY <1>0, UsedRow
<1>2. /\ \A v \in Ids : v # u => row'[v] = row[v]
      /\ \A y \in Ids : row[y] # NoRow => row'[y] # NoRow
  BY <1>0, <1>1, RowAfter, RowsAreRows
<1>3. ASSUME NEW n \in nodes \ missed' PROVE InOrder(n)'
  <2>0. n \in Nodes /\ InOrder(n) /\ serves'[n] = serves[n]
    BY <1>0, <1>3, ServesShown DEF ShapeOK
  <2>1. CASE n \in loop.due[u].nids
    <3>1. Syncing(n)'
      BY <1>0, <2>1 DEF Syncing
    <3> QED BY <3>1 DEF InOrder
  <2>2. CASE n \notin loop.due[u].nids
    <3>1. <<u, n>> \notin assign
      BY <1>0, <1>3, <2>0, <2>2 DEF NodesOf
    <3>2. Effective(n)' = Effective(n)
      BY <1>0, <1>2, <3>1, EffectiveOthers
    <3>3. Syncing(n) => Syncing(n)'
      BY <1>0 DEF Syncing
    <3>4. ASSUME Owed(n) PROVE Owed(n)'
      <4>1. PICK v \in Workers : Owes(v, n)
        BY <3>4 DEF Owed
      <4>2. wk[v].u \in Ids
        BY <1>0, <4>1, JobFields DEF Owes
      <4>3. Owes(v, n)'
        BY <1>0, <1>2, <4>1, <4>2 DEF Owes
      <4> QED BY <4>3 DEF Owed
    <3> QED BY <2>0, <3>2, <3>3, <3>4, InOrderKept DEF InOrder
  <2> QED BY <2>1, <2>2
<1> QED BY <1>0, <1>3, ServesShown

LEMMA LoopServes == ASSUME BaseInv, ServesInStep, Loop PROVE ServesInStep'
<1>0. ShapeOK /\ WorkersOK /\ LoopOK
  BY DEF BaseInv
<1>1. CASE ListUsers \/ Check \/ LoopNext \/ \E u \in Ids : AutoResetFails(u)
  <2>1. /\ UNCHANGED <<row, assign, nodes, serves, wk, missed>>
        /\ loop.pc \in {"idle", "list", "next", "sync"} /\ (loop.pc = "sync" => loop.todo = {})
    BY <1>1 DEF ListUsers, Check, LoopNext, AutoResetFails, dbVars, histVars, resetVars
  <2>2. \A n \in Nodes : Syncing(n) => Syncing(n)'
    BY <2>1 DEF Syncing
  <2> QED BY <1>0, <2>1, <2>2, LoopServesKept
<1>2. ASSUME NEW u \in Ids, AutoReset(u) PROVE ServesInStep'
  BY <1>2, AutoResetServes
<1>3. ASSUME loop.pc = "record", loop' = Recorded, wk' = wk
      PROVE  \A n \in Nodes : Syncing(n) => Syncing(n)'
  BY <1>3 DEF Syncing, Recorded
<1>4. CASE RecordReset
  <2>1. /\ UNCHANGED <<assign, nodes, serves, wk, missed>> /\ loop.pc = "record" /\ loop' = Recorded
        /\ row' = IF row[loop.u] = NoRow THEN row ELSE [row EXCEPT ![loop.u].last = loop.now]
    BY <1>4 DEF RecordReset, histVars, resetVars
  <2>2. loop.u \in Ids /\ loop.now \in Never..MaxDays
    BY <1>0, <2>1, AccountBounds DEF LoopOK, DueOK, ShapeOK, Never
  <2>3. PICK q : /\ RowStep(loop.u, q)
                 /\ row[loop.u] # NoRow =>
                       /\ q \in WideRow /\ q.used = row[loop.u].used
                       /\ q.uuid = row[loop.u].uuid /\ q.limit = row[loop.u].limit
                       /\ (q.on <=> row[loop.u].on)
    BY <1>0, <2>1, <2>2, LastRow
  <2>4. /\ row'[loop.u] = q /\ \A v \in Ids : v # loop.u => row'[v] = row[v]
        /\ row[loop.u] = NoRow => q = NoRow
    BY <1>0, <2>2, <2>3, RowAfter DEF RowStep
  <2>5. \A y \in Ids : row[y] # NoRow => row'[y] # NoRow
    BY <2>3, <2>4, RowsAreRows
  <2>6. ASSUME NEW y \in Ids, row'[y] # row[y]
        PROVE  row'[y].uuid = row[y].uuid /\ (Active(row'[y]) <=> Active(row[y]))
    <3>1. y = loop.u /\ row[y] # NoRow /\ row'[y] = q /\ q # NoRow
      BY <2>4, <2>5, <2>6
    <3>2. Active(q) <=> Active(row[y])
      BY <2>3, <3>1, Zenon DEF Active
    <3> QED BY <2>3, <3>1, <3>2
  <2> QED BY <1>0, <1>3, <2>1, <2>5, <2>6, LoopServesKept
<1>5. CASE RecordFails
  <2>1. UNCHANGED <<row, assign, nodes, serves, wk, missed>> /\ loop.pc = "record" /\ loop' = Recorded
    BY <1>5 DEF RecordFails, dbVars
  <2> QED BY <1>0, <1>3, <2>1, LoopServesKept
<1>6. ASSUME NEW m \in Nodes, LoopSync(m) PROVE ServesInStep'
  <2>1. /\ UNCHANGED <<row, assign, nodes, wk>> /\ SyncedOrMissed(m)
        /\ loop.pc = "sync" /\ loop' = [loop EXCEPT !.todo = @ \ {m}]
    BY <1>0, <1>6, SyncNodeServes DEF LoopSync, dbVars
  <2>2. loop'.pc = "sync" /\ loop'.todo = loop.todo \ {m}
    <3>1. loop = [pc |-> "sync", now |-> loop.now, due |-> loop.due, todo |-> loop.todo]
      BY <1>0, <2>1 DEF LoopOK
    <3> QED BY <2>1, <3>1
  <2>3. \A n \in Nodes : n # m /\ Syncing(n) => Syncing(n)'
    BY <2>1, <2>2 DEF Syncing
  <2>4. \A n \in Nodes : n # m /\ Owed(n) => Owed(n)'
    BY <2>1 DEF Owed, Owes
  <2> QED BY <1>0, <2>1, <2>3, <2>4, SyncedServes
<1> QED BY <1>1, <1>2, <1>4, <1>5, <1>6 DEF Loop

LEMMA DeleteNodeServes ==
    ASSUME BaseInv, ServesInStep, NEW m \in Nodes, DeleteNode(m) PROVE ServesInStep'
<1>0. /\ UNCHANGED <<row, serves, wk, loop, missed, resetVars>> /\ nodes' = nodes \ {m}
      /\ assign' = assign \ (Ids \X {m}) /\ ShapeOK /\ WorkersOK
  BY DEF DeleteNode, BaseInv
<1>1. ASSUME NEW n \in nodes' \ missed' PROVE InOrder(n)'
  <2>0. n # m /\ InOrder(n) /\ serves'[n] = serves[n]
    BY <1>0, <1>1, ServesShown
  <2>1. \A v \in Ids : <<v, n>> \in assign' <=> <<v, n>> \in assign
    BY <1>0, <2>0
  <2>2. Effective(n)' = Effective(n)
    BY <1>0, <2>1, EffectiveSame, Zenon
  <2>3. Syncing(n) => Syncing(n)'
    BY <1>0 DEF Syncing
  <2>4. ASSUME Owed(n) PROVE Owed(n)'
    <3>1. PICK v \in Workers : Owes(v, n)
      BY <2>4 DEF Owed
    <3>2. wk[v].u \in Ids
      BY <1>0, <3>1, JobFields DEF Owes
    <3>3. Owes(v, n)'
      BY <1>0, <2>1, <3>1, <3>2 DEF Owes
    <3> QED BY <3>3 DEF Owed
  <2> QED BY <2>0, <2>2, <2>3, <2>4, InOrderKept DEF InOrder
<1> QED BY <1>1, ServesShown

LEMMA ServesStep == ASSUME BaseInv, ServesInStep, [Next]_vars PROVE ServesInStep'
<1>0. ShapeOK /\ WorkersOK
  BY DEF BaseInv
<1>1. ASSUME NEW w \in Workers, Begin(w) PROVE ServesInStep'
  <2>1. PICK x \in Job : wk' = [wk EXCEPT ![w] = x]
    BY <1>0, <1>1, BeginJob
  <2>2. UNCHANGED <<row, assign, nodes, serves, loop, missed>> /\ wk[w].pc = "idle"
    BY <1>0, <1>1, BeginJob DEF dbVars, histVars, resetVars
  <2>3. \A v \in Workers : v # w => wk'[v] = wk[v]
    BY <1>0, <2>1 DEF WorkersOK
  <2> QED BY <1>0, <2>2, <2>3, WorkerServes DEF Owes
<1>2. ASSUME NEW w \in Workers, Handle(w) PROVE ServesInStep'
  BY <1>2, HandleServes
<1>3. ASSUME NEW n \in Nodes, DeleteNode(n) PROVE ServesInStep'
  BY <1>3, DeleteNodeServes
<1>4. ASSUME NEW m \in Nodes, Enforce(m) \/ Connect(m) \/ Disconnect(m) PROVE ServesInStep'
  <2>1. /\ UNCHANGED <<row, assign, nodes, wk, loop>>
        /\ SyncedOrMissed(m) \/ (serves' = serves /\ missed \subseteq missed')
    <3>1. CASE Enforce(m)
      BY <1>0, <3>1, SyncNodeServes DEF Enforce, dbVars
    <3>2. CASE Connect(m)
      BY <3>2 DEF Connect, SyncedOrMissed, dbVars
    <3>3. CASE Disconnect(m)
      BY <3>3 DEF Disconnect, dbVars
    <3> QED BY <1>4, <3>1, <3>2, <3>3
  <2>2. \A n \in Nodes : (Syncing(n) => Syncing(n)') /\ (Owed(n) => Owed(n)')
    BY <2>1 DEF Syncing, Owed, Owes
  <2>3. CASE SyncedOrMissed(m)
    BY <1>0, <2>1, <2>2, <2>3, SyncedServes
  <2>4. CASE serves' = serves /\ missed \subseteq missed'
    BY <1>0, <2>1, <2>2, <2>4, LoopServesKept
  <2> QED BY <2>1, <2>3, <2>4
<1>5. CASE Loop
  BY <1>5, LoopServes
<1>6. CASE NextDay \/ UNCHANGED vars
  <2>1. UNCHANGED <<row, assign, nodes, serves, loop, missed, wk>>
    BY <1>6 DEF NextDay, vars, dbVars, histVars, resetVars
  <2>2. \A n \in Nodes : Syncing(n) => Syncing(n)'
    BY <2>1 DEF Syncing
  <2> QED BY <1>0, <2>1, <2>2, LoopServesKept
<1>7. CASE PanelCrash
  BY <1>0, <1>7, CrashServes DEF PanelCrash
<1> QED BY <1>1, <1>2, <1>3, <1>4, <1>5, <1>6, <1>7 DEF Next

\* When the handlers of api.go and bot.go, ingestTraffic and autoResetLoop are through,
\* each node serves its effective users, apart from the nodes a handler could not know of.
THEOREM Synced == Spec => []HandlersSync
<1>1. Init => ServesInStep
  BY DEF Init, ServesInStep
<1>2. Spec => [](BaseInv /\ ServesInStep)
  BY <1>1, BaseInit, BaseStep, ServesStep, PTL DEF Spec
<1>3. BaseInv /\ ServesInStep => HandlersSync
  <2>1. SUFFICES ASSUME BaseInv, ServesInStep, Quiet, NEW n \in nodes \ missed
                 PROVE  serves[n] = Effective(n)
    BY DEF HandlersSync
  <2>2. ~Syncing(n) /\ ~Owed(n)
    BY <2>1 DEF Quiet, Syncing, Owed, Owes
  <2> QED BY <2>1, <2>2 DEF ServesInStep
<1> QED BY <1>2, <1>3, PTL
=============================================================================

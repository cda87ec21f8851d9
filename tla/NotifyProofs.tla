---------------------------- MODULE NotifyProofs ----------------------------
(***************************************************************************)
(* Proofs about Notify, for any number of users, connections and ticks of  *)
(* grace: its types, that routine restarts stay quiet, and that what the   *)
(* admins heard last of a node is true.                                    *)
(***************************************************************************)
EXTENDS Notify, TLAPS

\* Connections are numbered as they come, and a timer is started by a connection that
\* had left its node without one.
ConnsOK ==
    /\ \A c \in Conns : c > nconns => h[c] = "none"
    /\ \A c \in Conns : h[c] # "off" => timer[c].pc = "unset"
    /\ \A c \in Conns : h[c] = "left" \/ timer[c].pc # "unset" => c \in left

\* Without a flap there is one timer at most that is not done; while the node is away it
\* has as long to run as the grace period has left, and no notice was decided before it.
Pending(c) == c \in left /\ timer[c].pc # "done"

GraceOK ==
    /\ ~early
    /\ notices <= 1
    /\ hub # 0 => notices = 0
    /\ \A c, d \in Conns : Pending(c) /\ Pending(d) => c = d
    /\ hub = 0 => \A c \in Conns :
          /\ Pending(c) /\ timer[c].pc \in {"unset", "wait"} => notices = 0
          /\ timer[c].pc = "wait" => away + timer[c].due >= Grace

GraceInStep == "flap" \notin causes => GraceOK

\* Without crossing notices, a timer on its way and a handler on its way exclude each
\* other; the mark and the last notice agree but for the one that is being sent.
TellingOK ==
    /\ \A c, d \in Conns : ~(TimerBusy(c) /\ HandlerBusy(d))
    /\ \A c \in Conns : TimerBusy(c) => hub = 0
    /\ \A c \in Conns : timer[c].pc = "post" => marked
    /\ said = "offline" => marked \/ \E c \in Conns : h[c] = "say"
    /\ marked => said = "offline" \/ \E c \in Conns : timer[c].pc = "post"
    /\ \A c \in Conns : h[c] = "say" => ~marked /\ said = "offline"
    /\ \A c, d \in Conns : h[c] = "say" /\ h[d] = "say" => c = d
    /\ marked => hub = 0 \/ \E c \in Conns : h[c] = "registered"

NothingLost == causes \cap {"crossed", "restart", "error"} = {}

TellingInStep == NothingLost => TellingOK

-----------------------------------------------------------------------------
(* Types. *)

BaseInv == TypeOK /\ ConnsOK

\* A handler or a timer goes on, and no other does.
LEMMA HandlerAt ==
    ASSUME TypeOK, NEW c \in Conns, NEW pc \in HandlerPcs, h' = [h EXCEPT ![c] = pc]
    PROVE  /\ h' \in [Conns -> HandlerPcs] /\ h'[c] = pc
           /\ \A d \in Conns : d # c => h'[d] = h[d]
BY DEF TypeOK

TimersOK ==
    timer \in [Conns -> Timer] /\ \A c \in Conns : timer[c].due > 0 => timer[c].pc = "wait"

LEMMA TimerSet ==
    ASSUME TypeOK, NEW c \in Conns, NEW pc \in TimerPcs, NEW n \in 0..Grace,
           n > 0 => pc = "wait", timer' = [timer EXCEPT ![c] = TimerAt(pc, n)]
    PROVE  /\ TimersOK' /\ timer'[c].pc = pc /\ timer'[c].due = n
           /\ \A d \in Conns : d # c => timer'[d] = timer[d]
<1>1. TimerAt(pc, n) \in Timer /\ TimerAt(pc, n).pc = pc /\ TimerAt(pc, n).due = n
  BY DEF TimerAt, Timer
<1>2. timer \in [Conns -> Timer] /\ \A d \in Conns : timer[d].due > 0 => timer[d].pc = "wait"
  BY DEF TypeOK
<1>3. timer'[c] = TimerAt(pc, n) /\ \A d \in Conns : d # c => timer'[d] = timer[d]
  BY <1>2
<1>4. timer' \in [Conns -> Timer]
  BY <1>1, <1>2
<1> QED
  BY <1>1, <1>2, <1>3, <1>4 DEF TimersOK

LEMMA TimerMoves ==
    ASSUME TypeOK, NEW c \in Conns, NEW pc \in TimerPcs, timer[c].pc # "wait",
           timer' = [timer EXCEPT ![c].pc = pc]
    PROVE  /\ TimersOK' /\ timer'[c].pc = pc /\ timer'[c].due = timer[c].due
           /\ \A d \in Conns : d # c => timer'[d] = timer[d]
<1>1. timer \in [Conns -> Timer] /\ timer[c] \in Timer
  BY DEF TypeOK
<1>2. timer'[c] = [timer[c] EXCEPT !.pc = pc] /\ \A d \in Conns : d # c => timer'[d] = timer[d]
  BY <1>1
<1>3. timer'[c].pc = pc /\ timer'[c].due = timer[c].due /\ timer'[c] \in Timer
  BY <1>1, <1>2 DEF Timer
<1>4. timer' \in [Conns -> Timer]
  BY <1>1, <1>2, <1>3
<1>5. ~(timer[c].due > 0)
  BY DEF TypeOK
<1> QED
  BY <1>2, <1>3, <1>4, <1>5 DEF TypeOK, TimersOK

LEMMA DismissAt ==
    ASSUME TypeOK, NEW c \in Conns, Dismiss(c)
    PROVE  /\ TimersOK' /\ timer'[c].pc = "done" /\ timer'[c].due = 0
           /\ \A d \in Conns : d # c => timer'[d] = timer[d]
<1>1. "done" \in TimerPcs /\ 0 \in 0..Grace /\ ~(0 > 0)
  BY NotifyBounds DEF TimerPcs
<1> QED
  BY <1>1, TimerSet DEF Dismiss

LEMMA DecidesAt ==
    ASSUME TypeOK, NEW c \in Conns, Decides(c)
    PROVE  /\ TimersOK' /\ timer'[c].pc = "node" /\ timer'[c].due = 0
           /\ \A d \in Conns : d # c => timer'[d] = timer[d]
<1>1. "node" \in TimerPcs /\ 0 \in 0..Grace /\ ~(0 > 0)
  BY NotifyBounds DEF TimerPcs
<1> QED
  BY <1>1, TimerSet DEF Decides

LEMMA ScheduleAt ==
    ASSUME TypeOK, NEW c \in Conns, Schedule(c)
    PROVE  /\ TimersOK' /\ timer'[c].pc = "wait" /\ timer'[c].due = Grace
           /\ \A d \in Conns : d # c => timer'[d] = timer[d]
           /\ h' \in [Conns -> HandlerPcs] /\ h'[c] = "off" /\ h[c] = "left"
           /\ \A d \in Conns : d # c => h'[d] = h[d]
<1>1. "wait" \in TimerPcs /\ Grace \in 0..Grace /\ "off" \in HandlerPcs
  BY NotifyBounds DEF TimerPcs, HandlerPcs
<1>2. /\ timer' = [timer EXCEPT ![c] = TimerAt("wait", Grace)]
      /\ h' = [h EXCEPT ![c] = "off"] /\ h[c] = "left"
  BY DEF Schedule
<1>3. /\ TimersOK' /\ timer'[c].pc = "wait" /\ timer'[c].due = Grace
      /\ \A d \in Conns : d # c => timer'[d] = timer[d]
  BY <1>1, <1>2, TimerSet
<1>4. /\ h' \in [Conns -> HandlerPcs] /\ h'[c] = "off"
      /\ \A d \in Conns : d # c => h'[d] = h[d]
  BY <1>1, <1>2, HandlerAt
<1> QED
  BY <1>2, <1>3, <1>4

\* A timer on its way goes on.
LEMMA TimerGoesOn ==
    ASSUME TypeOK, NEW c \in Conns, GetNode(c) \/ Mark(c) \/ SayOffline(c)
    PROVE  /\ TimersOK' /\ timer'[c].pc \in {"mark", "post", "done"}
           /\ \A d \in Conns : d # c => timer'[d] = timer[d]
<1>1. timer[c].pc # "wait"
  BY DEF GetNode, Mark, SayOffline
<1>2. PICK pc \in {"mark", "post", "done"} : timer' = [timer EXCEPT ![c].pc = pc] \/ Dismiss(c)
  BY DEF GetNode, Mark, SayOffline
<1>3. CASE Dismiss(c)
  BY <1>3, DismissAt
<1>4. CASE timer' = [timer EXCEPT ![c].pc = pc]
  <2>1. pc \in TimerPcs
    BY DEF TimerPcs
  <2> QED
    BY <1>1, <1>4, <2>1, TimerMoves
<1> QED
  BY <1>2, <1>3, <1>4

\* Every timer that runs has a tick less to run.
LEMMA TickAt ==
    ASSUME TypeOK, Tick
    PROVE  /\ TimersOK'
           /\ \A c \in Conns : timer'[c].pc = timer[c].pc
           /\ \A c \in Conns : timer'[c].due = IF Running(c) THEN timer[c].due - 1 ELSE timer[c].due
<1>1. timer \in [Conns -> Timer] /\ \A c \in Conns : timer[c].due > 0 => timer[c].pc = "wait"
  BY DEF TypeOK
<1>2. \A c \in Conns : timer'[c] = IF Running(c) THEN TimerAt("wait", timer[c].due - 1)
                                                ELSE timer[c]
  BY DEF Tick
<1>3. ASSUME NEW c \in Conns
      PROVE  /\ timer'[c] \in Timer /\ timer'[c].pc = timer[c].pc
             /\ timer'[c].due = IF Running(c) THEN timer[c].due - 1 ELSE timer[c].due
             /\ timer'[c].due > 0 => timer'[c].pc = "wait"
  <2>1. CASE Running(c)
    <3>1. timer'[c] = TimerAt("wait", timer[c].due - 1)
      BY <1>2, <2>1
    <3>2. timer[c].pc = "wait" /\ timer[c].due - 1 \in 0..Grace
      BY <1>1, <2>1, NotifyBounds DEF Running, Timer
    <3> QED
      BY <2>1, <3>1, <3>2 DEF TimerAt, Timer, TimerPcs
  <2>2. CASE ~Running(c)
    BY <1>1, <1>2, <2>2
  <2> QED
    BY <2>1, <2>2
<1>4. timer' \in [Conns -> Timer]
  BY <1>3 DEF Tick
<1> QED
  BY <1>3, <1>4 DEF TimersOK

-----------------------------------------------------------------------------
\* What the parts of the state keep of their types in a step of each kind.
NodeTypes ==
    /\ exists \in BOOLEAN /\ hub \in 0..MaxConns /\ h \in [Conns -> HandlerPcs]
    /\ hub # 0 => h[hub] \in {"registered", "say", "reading"}
    /\ TimersOK /\ marked \in BOOLEAN /\ nconns \in 0..MaxConns
UserTypes ==
    /\ active \subseteq Users /\ known \in [Users -> {"unseen", "yes", "no"}]
    /\ loop \in LoopState /\ flips \in 0..MaxFlips
HistTypes ==
    /\ said \in {"nothing", "online", "offline"} /\ heard \subseteq Users
    /\ away \in 0..Grace /\ left \subseteq Conns /\ notices \in 0..2
    /\ early \in BOOLEAN /\ word \in {"none", "told", "lost"} /\ causes \subseteq CauseKinds

LEMMA TypeSplit == TypeOK <=> NodeTypes /\ UserTypes /\ HistTypes
BY DEF TypeOK, NodeTypes, UserTypes, HistTypes, TimersOK

LEMMA TypeSplitNext == TypeOK' <=> NodeTypes' /\ UserTypes' /\ HistTypes'
BY DEF TypeOK, NodeTypes, UserTypes, HistTypes, TimersOK

LEMMA NodeKept == ASSUME NodeTypes, UNCHANGED nodeVars PROVE NodeTypes'
BY DEF NodeTypes, nodeVars, TimersOK

LEMMA UserKept == ASSUME UserTypes, UNCHANGED userVars PROVE UserTypes'
BY DEF UserTypes, userVars

LEMMA HistKept == ASSUME HistTypes, UNCHANGED histVars PROVE HistTypes'
BY DEF HistTypes, histVars

LEMMA ConnsKept == ASSUME ConnsOK, UNCHANGED nodeVars, UNCHANGED left PROVE ConnsOK'
BY DEF ConnsOK, nodeVars

LEMMA ConnRange == Conns \subseteq Nat /\ \A c \in Conns : c \in 0..MaxConns /\ c # 0
BY NotifyBounds DEF Conns

LEMMA IdleShape == Idle \in LoopState
BY DEF Idle, LoopState

LEMMA HandlerBase ==
    ASSUME BaseInv, NEW c \in Conns, Handler(c)
    PROVE  BaseInv'
<1>0. TypeOK /\ ConnsOK /\ NodeTypes /\ UserTypes /\ HistTypes /\ c \in 0..MaxConns /\ c # 0
  BY TypeSplit, ConnRange DEF BaseInv
<1>p. {"accepted", "registered", "say", "reading", "left", "off"} \subseteq HandlerPcs
  BY DEF HandlerPcs
<1>n. nconns \in 0..MaxConns /\ UserTypes' /\ UNCHANGED <<exists, nconns>>
  <2>1. UNCHANGED <<exists, nconns, userVars>>
    BY DEF Handler, Register, NoticeOnline, SayOnline, Unregister, Schedule
  <2> QED
    BY <1>0, <2>1, UserKept DEF NodeTypes
<1>1. CASE Register(c)
  <2>1. /\ h' \in [Conns -> HandlerPcs] /\ h'[c] = "registered"
        /\ \A d \in Conns : d # c => h'[d] = h[d]
    BY <1>0, <1>1, <1>p, HandlerAt DEF Register
  <2>2. h[c] = "accepted" /\ hub' = c /\ UNCHANGED <<timer, marked, left, said, heard, early>>
    BY <1>1 DEF Register
  <2>3. NodeTypes'
    BY <1>0, <1>n, <2>1, <2>2 DEF NodeTypes, TimersOK
  <2>4. HistTypes'
    BY <1>0, <1>1, NotifyBounds DEF Register, HistTypes, CauseKinds
  <2>5. ConnsOK'
    BY <1>0, <1>n, <2>1, <2>2 DEF ConnsOK
  <2> QED
    BY <1>n, <2>3, <2>4, <2>5, TypeSplitNext DEF BaseInv
<1>2. CASE NoticeOnline(c) \/ SayOnline(c)
  <2>1. PICK pc \in {"say", "reading"} : h' = [h EXCEPT ![c] = pc]
    BY <1>2 DEF NoticeOnline, SayOnline
  <2>2. /\ h' \in [Conns -> HandlerPcs] /\ h'[c] = pc
        /\ \A d \in Conns : d # c => h'[d] = h[d]
    BY <1>0, <1>p, <2>1, HandlerAt
  <2>3. h[c] \in {"registered", "say"} /\ UNCHANGED <<hub, timer, left>> /\ marked' \in BOOLEAN
    BY <1>0, <1>2 DEF NoticeOnline, SayOnline, histVars, NodeTypes
  <2>4. NodeTypes'
    BY <1>0, <1>n, <2>1, <2>2, <2>3, ConnRange DEF NodeTypes, TimersOK, Conns
  <2>5. HistTypes'
    BY <1>0, <1>2 DEF NoticeOnline, SayOnline, Posts, Delivers, Loses, histVars, HistTypes, CauseKinds
  <2>6. ConnsOK'
    BY <1>0, <1>n, <2>1, <2>2, <2>3 DEF ConnsOK
  <2> QED
    BY <1>n, <2>4, <2>5, <2>6, TypeSplitNext DEF BaseInv
<1>3. CASE Unregister(c)
  <2>0. h[c] = "reading" /\ UNCHANGED <<timer, marked, said, heard, away, notices, early, word>>
    BY <1>3 DEF Unregister
  <2>1. CASE hub = c
    <3>1. /\ h' = [h EXCEPT ![c] = "left"] /\ hub' = 0 /\ left' = left \cup {c}
          /\ causes' \subseteq causes \cup {"flap"}
      BY <1>3, <2>1 DEF Unregister
    <3>2. /\ h' \in [Conns -> HandlerPcs] /\ h'[c] = "left"
          /\ \A d \in Conns : d # c => h'[d] = h[d]
      BY <1>0, <1>p, <3>1, HandlerAt
    <3>3. NodeTypes'
      BY <1>0, <1>n, <2>0, <3>1, <3>2, NotifyBounds DEF NodeTypes, TimersOK
    <3>4. HistTypes'
      BY <1>0, <2>0, <3>1 DEF HistTypes, CauseKinds
    <3>5. ConnsOK'
      BY <1>0, <1>n, <2>0, <3>1, <3>2 DEF ConnsOK
    <3> QED
      BY <1>n, <3>3, <3>4, <3>5, TypeSplitNext DEF BaseInv
  <2>2. CASE hub # c
    <3>1. h' = [h EXCEPT ![c] = "off"] /\ UNCHANGED <<hub, left, causes>>
      BY <1>3, <2>2 DEF Unregister
    <3>2. /\ h' \in [Conns -> HandlerPcs] /\ h'[c] = "off"
          /\ \A d \in Conns : d # c => h'[d] = h[d]
      BY <1>0, <1>p, <3>1, HandlerAt
    <3>3. hub # 0 => hub \in Conns
      BY <1>0, NotifyBounds DEF NodeTypes, Conns
    <3>4. NodeTypes'
      BY <1>0, <1>n, <2>0, <2>2, <3>1, <3>2, <3>3 DEF NodeTypes, TimersOK
    <3>5. HistTypes'
      BY <1>0, <2>0, <3>1 DEF HistTypes
    <3>6. ConnsOK'
      BY <1>0, <1>n, <2>0, <3>1, <3>2 DEF ConnsOK
    <3> QED
      BY <1>n, <3>4, <3>5, <3>6, TypeSplitNext DEF BaseInv
  <2> QED
    BY <2>1, <2>2
<1>4. CASE Schedule(c)
  <2>1. /\ TimersOK' /\ timer'[c].pc = "wait"
        /\ \A d \in Conns : d # c => timer'[d] = timer[d]
        /\ h' \in [Conns -> HandlerPcs] /\ h'[c] = "off" /\ h[c] = "left"
        /\ \A d \in Conns : d # c => h'[d] = h[d]
    BY <1>0, <1>4, ScheduleAt
  <2>2. UNCHANGED <<hub, marked, left>> /\ HistTypes'
    BY <1>0, <1>4, HistKept DEF Schedule, histVars
  <2>3. hub # 0 => hub \in Conns /\ hub # c
    BY <1>0, <2>1, NotifyBounds DEF NodeTypes, Conns
  <2>4. NodeTypes'
    BY <1>0, <1>n, <2>1, <2>2, <2>3 DEF NodeTypes
  <2>5. ConnsOK'
    BY <1>0, <1>n, <2>1, <2>2 DEF ConnsOK
  <2> QED
    BY <1>n, <2>2, <2>4, <2>5, TypeSplitNext DEF BaseInv
<1> QED
  BY <1>1, <1>2, <1>3, <1>4 DEF Handler

LEMMA TimerBase ==
    ASSUME BaseInv, NEW c \in Conns, TimerStep(c)
    PROVE  BaseInv'
<1>0. TypeOK /\ ConnsOK /\ NodeTypes /\ UserTypes /\ HistTypes
  BY TypeSplit DEF BaseInv
<1>p. {"node", "mark", "post", "done"} \subseteq TimerPcs
  BY DEF TimerPcs
<1>n. UserTypes' /\ UNCHANGED <<exists, hub, h, nconns, left>>
  <2>1. UNCHANGED <<exists, hub, h, nconns, userVars, left>>
    BY DEF TimerStep, Fire, GetNode, Mark, SayOffline, histVars
  <2> QED
    BY <1>0, <2>1, UserKept
\* The timer had been started, and is not before that again.
<1>k. ASSUME TimersOK', timer'[c].pc # "unset", timer[c].pc # "unset",
             \A d \in Conns : d # c => timer'[d] = timer[d], marked' \in BOOLEAN, HistTypes'
      PROVE  BaseInv'
  <2>1. NodeTypes'
    BY <1>0, <1>n, <1>k DEF NodeTypes
  <2>2. ConnsOK'
    BY <1>0, <1>n, <1>k DEF ConnsOK
  <2> QED
    BY <1>n, <1>k, <2>1, <2>2, TypeSplitNext DEF BaseInv
<1>1. CASE Fire(c)
  <2>1. timer[c].pc = "wait" /\ UNCHANGED marked
    BY <1>1 DEF Fire, Due, TimerAt
  <2>2. /\ TimersOK' /\ timer'[c].pc \in {"node", "done"}
        /\ \A d \in Conns : d # c => timer'[d] = timer[d]
    BY <1>0, <1>1, DismissAt, DecidesAt DEF Fire
  <2>3. HistTypes'
    <3>1. UNCHANGED <<said, heard, away, left, word>>
      BY <1>1 DEF Fire
    <3>2. early' \in BOOLEAN
      BY <1>0, <1>1, Zenon DEF Fire, Decides, HistTypes
    <3>3. notices' \in {notices, notices + 1} /\ (notices' # notices => notices < 2)
      BY <1>1 DEF Fire, Decides
    <3>4. causes' \subseteq causes \cup {"crossed"}
      BY <1>1 DEF Fire, Decides
    <3>5. notices' \in 0..2
      BY <1>0, <3>3 DEF HistTypes
    <3> QED
      BY <1>0, <3>1, <3>2, <3>4, <3>5 DEF HistTypes, CauseKinds
  <2> QED
    BY <1>0, <1>k, <2>1, <2>2, <2>3 DEF NodeTypes
<1>2. CASE GetNode(c)
  <2>1. timer[c].pc = "node" /\ UNCHANGED marked
    BY <1>2 DEF GetNode
  <2>2. /\ TimersOK' /\ timer'[c].pc \in {"mark", "done"}
        /\ \A d \in Conns : d # c => timer'[d] = timer[d]
    <3>1. CASE Dismiss(c)
      BY <1>0, <3>1, DismissAt
    <3>2. CASE timer' = [timer EXCEPT ![c].pc = IF exists THEN "mark" ELSE "done"]
      BY <1>0, <1>p, <2>1, <3>2, TimerMoves
    <3> QED
      BY <1>2, <3>1, <3>2 DEF GetNode
  <2>3. HistTypes'
    BY <1>0, <1>2 DEF GetNode, Word, HistTypes, CauseKinds
  <2> QED
    BY <1>0, <1>k, <2>1, <2>2, <2>3 DEF NodeTypes
<1>3. CASE Mark(c)
  <2>1. timer[c].pc = "mark" /\ marked' = TRUE /\ timer' = [timer EXCEPT ![c].pc = "post"]
    BY <1>3 DEF Mark
  <2>2. /\ TimersOK' /\ timer'[c].pc = "post"
        /\ \A d \in Conns : d # c => timer'[d] = timer[d]
    BY <1>0, <1>p, <2>1, TimerMoves
  <2>3. HistTypes'
    BY <1>0, <1>3, HistKept DEF Mark
  <2> QED
    BY <1>k, <2>1, <2>2, <2>3
<1>4. CASE SayOffline(c)
  <2>1. timer[c].pc = "post" /\ UNCHANGED marked /\ Dismiss(c)
    BY <1>4 DEF SayOffline
  <2>2. /\ TimersOK' /\ timer'[c].pc = "done"
        /\ \A d \in Conns : d # c => timer'[d] = timer[d]
    BY <1>0, <2>1, DismissAt
  <2>3. HistTypes'
    BY <1>0, <1>4 DEF SayOffline, Delivers, Loses, Word, HistTypes, CauseKinds
  <2> QED
    BY <1>0, <1>k, <2>1, <2>2, <2>3 DEF NodeTypes
<1> QED
  BY <1>1, <1>2, <1>3, <1>4 DEF TimerStep

LEMMA AcceptBase ==
    ASSUME BaseInv, Accept
    PROVE  BaseInv'
<1>0. TypeOK /\ ConnsOK /\ NodeTypes /\ UserTypes /\ HistTypes
  BY TypeSplit DEF BaseInv
<1>1. /\ nconns' = nconns + 1 /\ nconns' \in Conns /\ nconns \in 0..MaxConns
      /\ nconns' \in 0..MaxConns
  BY <1>0, NotifyBounds DEF Accept, NodeTypes, Conns
<1>2. UserTypes' /\ HistTypes' /\ UNCHANGED <<exists, hub, timer, marked, left>>
  BY <1>0, UserKept, HistKept DEF Accept, histVars
<1>3. /\ h' \in [Conns -> HandlerPcs] /\ h'[nconns'] = "accepted"
      /\ \A d \in Conns : d # nconns' => h'[d] = h[d]
  BY <1>0, <1>1 DEF Accept, NodeTypes, HandlerPcs
<1>4. h[nconns'] = "none"
  BY <1>0, <1>1 DEF ConnsOK
<1>5. hub # 0 => hub \in Conns /\ hub # nconns'
  BY <1>0, <1>4, NotifyBounds DEF NodeTypes, Conns
<1>6. NodeTypes'
  BY <1>0, <1>1, <1>2, <1>3, <1>5 DEF NodeTypes, TimersOK
<1>7. ConnsOK'
  <2>1. \A c \in Conns : c > nconns' => c > nconns /\ c # nconns'
    BY <1>1, ConnRange
  <2> QED
    BY <1>0, <1>2, <1>3, <1>4, <2>1 DEF ConnsOK
<1> QED
  BY <1>2, <1>6, <1>7, TypeSplitNext DEF BaseInv

LEMMA TickBase ==
    ASSUME BaseInv, Tick
    PROVE  BaseInv'
<1>0. TypeOK /\ ConnsOK /\ NodeTypes /\ UserTypes /\ HistTypes
  BY TypeSplit DEF BaseInv
<1>1. TimersOK' /\ \A c \in Conns : timer'[c].pc = timer[c].pc
  BY <1>0, TickAt
<1>2. /\ UNCHANGED <<exists, hub, h, marked, nconns, userVars, said, heard, left, notices, early, word,
                   causes>>
      /\ away' \in {away, away + 1} /\ (away' # away => away < Grace)
  BY DEF Tick
<1>3. NodeTypes'
  BY <1>0, <1>1, <1>2 DEF NodeTypes
<1>4. HistTypes'
  BY <1>0, <1>2, NotifyBounds DEF HistTypes
<1>5. ConnsOK'
  BY <1>0, <1>1, <1>2 DEF ConnsOK
<1> QED
  BY <1>0, <1>2, <1>3, <1>4, <1>5, UserKept, TypeSplitNext DEF BaseInv

LEMMA RestartBase ==
    ASSUME BaseInv, PanelRestart
    PROVE  BaseInv'
<1>0. TypeOK /\ ConnsOK /\ NodeTypes /\ UserTypes /\ HistTypes
  BY TypeSplit DEF BaseInv
<1>1. Unset \in Timer /\ Unset.pc = "unset" /\ Unset.due = 0
  BY NotifyBounds DEF Unset, TimerAt, Timer, TimerPcs
<1>2. timer' = [c \in Conns |-> Unset] /\ left' = {} /\ hub' = 0
  BY DEF PanelRestart
<1>3. TimersOK' /\ \A c \in Conns : timer'[c].pc = "unset"
  BY <1>1, <1>2 DEF TimersOK
<1>4. /\ h' \in [Conns -> HandlerPcs]
      /\ \A c \in Conns : h'[c] \in {"off", "none"} /\ (c > nconns => h'[c] = "none")
  BY <1>0, ConnRange DEF PanelRestart, HandlerPcs, NodeTypes
<1>5. NodeTypes'
  <2>1. exists' = exists /\ nconns' = nconns
    BY DEF PanelRestart
  <2>2. marked' \in BOOLEAN
    BY Zenon DEF PanelRestart
  <2>3. hub' = 0 /\ hub' \in 0..MaxConns
    BY <1>2, NotifyBounds
  <2> QED
    BY <1>0, <1>3, <1>4, <2>1, <2>2, <2>3 DEF NodeTypes
<1>6. UserTypes'
  <2>1. known' \in [Users -> {"unseen", "yes", "no"}]
    BY DEF PanelRestart
  <2> QED
    BY <1>0, <2>1, IdleShape DEF UserTypes, PanelRestart
<1>7. HistTypes'
  BY <1>0, NotifyBounds DEF HistTypes, PanelRestart, CauseKinds
<1>8. ConnsOK'
  BY <1>3, <1>4 DEF ConnsOK, PanelRestart
<1> QED
  BY <1>5, <1>6, <1>7, <1>8, TypeSplitNext DEF BaseInv

LEMMA LoopBase ==
    ASSUME BaseInv, Loop \/ (\E u \in Users : Flip(u)) \/ DeleteNode
    PROVE  BaseInv'
<1>0. TypeOK /\ ConnsOK /\ NodeTypes /\ UserTypes /\ HistTypes
  BY TypeSplit DEF BaseInv
<1>1. CASE DeleteNode
  <2>1. UNCHANGED <<hub, h, timer, marked, nconns, left>> /\ exists' = FALSE
    BY <1>1 DEF DeleteNode, histVars
  <2>2. UserTypes' /\ HistTypes'
    BY <1>0, <1>1, UserKept, HistKept DEF DeleteNode
  <2>3. NodeTypes'
    BY <1>0, <2>1 DEF NodeTypes, TimersOK
  <2>4. ConnsOK'
    BY <1>0, <2>1 DEF ConnsOK
  <2> QED
    BY <2>2, <2>3, <2>4, TypeSplitNext DEF BaseInv
<1>2. ASSUME UNCHANGED nodeVars, UNCHANGED left, UserTypes', HistTypes' PROVE BaseInv'
  BY <1>0, <1>2, NodeKept, ConnsKept, TypeSplitNext DEF BaseInv
<1>3. ASSUME NEW u \in Users, Flip(u) PROVE BaseInv'
  <2>1. UserTypes'
    BY <1>0, <1>3, NotifyBounds DEF Flip, UserTypes
  <2> QED
    BY <1>0, <1>2, <1>3, <2>1, HistKept DEF Flip, histVars
<1>4. CASE ListUsers \/ LockLoop \/ UnlockLoop
  <2>1. loop' \in LoopState
    <3>1. loop \in LoopState /\ active \subseteq Users
      BY <1>0 DEF UserTypes
    <3>2. CASE ListUsers
      BY <3>1, <3>2 DEF ListUsers, LoopState
    <3>3. CASE loop' = [loop EXCEPT !.pc = "locked", !.todo = Users]
      BY <3>1, <3>3 DEF LoopState
    <3>4. CASE loop' = Idle
      BY <3>4, IdleShape
    <3> QED
      BY <1>4, <3>2, <3>3, <3>4 DEF LockLoop, UnlockLoop
  <2>2. UNCHANGED <<nodeVars, active, known, flips, histVars>>
    BY <1>4 DEF ListUsers, LockLoop, UnlockLoop
  <2> QED
    BY <1>0, <1>2, <2>1, <2>2, HistKept DEF UserTypes, histVars
<1>5. ASSUME NEW u \in Users, CheckUser(u) PROVE BaseInv'
  <2>1. loop' \in LoopState /\ known' \in [Users -> {"unseen", "yes", "no"}]
    BY <1>0, <1>5 DEF CheckUser, LoopState, UserTypes, State
  <2>2. UNCHANGED <<nodeVars, active, flips, said, away, left, notices, early, word>>
    BY <1>5 DEF CheckUser
  <2>3. heard' \subseteq Users /\ causes' \subseteq CauseKinds
    BY <1>0, <1>5 DEF CheckUser, HistTypes, CauseKinds
  <2> QED
    BY <1>0, <1>2, <2>1, <2>2, <2>3 DEF UserTypes, HistTypes
<1> QED
  BY <1>1, <1>3, <1>4, <1>5 DEF Loop

LEMMA BaseNext ==
    ASSUME BaseInv, [Next]_vars
    PROVE  BaseInv'
<1>1. CASE UNCHANGED vars
  BY <1>1, TypeSplit, TypeSplitNext, NodeKept, UserKept, HistKept, ConnsKept
     DEF vars, histVars, BaseInv
<1> QED
  BY <1>1, AcceptBase, TickBase, RestartBase, LoopBase, HandlerBase, TimerBase DEF Next

LEMMA BaseInit == Init => BaseInv
<1> SUFFICES ASSUME Init PROVE BaseInv
  OBVIOUS
<1>1. Unset \in Timer /\ Unset.pc = "unset" /\ Unset.due = 0
  BY NotifyBounds DEF Unset, TimerAt, Timer, TimerPcs
<1>2. TimersOK /\ \A c \in Conns : timer[c].pc = "unset"
  BY <1>1 DEF Init, TimersOK
<1>3. NodeTypes
  <2>1. h \in [Conns -> HandlerPcs]
    BY DEF Init, HandlerPcs
  <2>2. exists \in BOOLEAN /\ marked \in BOOLEAN
    BY Zenon DEF Init
  <2>3. hub = 0 /\ hub \in 0..MaxConns /\ nconns \in 0..MaxConns
    BY NotifyBounds DEF Init
  <2> QED
    BY <1>2, <2>1, <2>2, <2>3 DEF NodeTypes
<1>4. UserTypes /\ HistTypes
  <2>1. known \in [Users -> {"unseen", "yes", "no"}] /\ active \subseteq Users /\ loop \in LoopState
    BY IdleShape DEF Init
  <2>2. flips \in 0..MaxFlips /\ away \in 0..Grace /\ notices \in 0..2
    BY NotifyBounds DEF Init
  <2>3. early \in BOOLEAN
    BY Zenon DEF Init
  <2>4. /\ said \in {"nothing", "online", "offline"} /\ heard \subseteq Users
        /\ left \subseteq Conns /\ causes \subseteq CauseKinds /\ word \in {"none", "told", "lost"}
    BY DEF Init
  <2> QED
    BY <2>1, <2>2, <2>3, <2>4 DEF UserTypes, HistTypes
<1>5. ConnsOK
  BY <1>2 DEF Init, ConnsOK
<1> QED
  BY <1>3, <1>4, <1>5, TypeSplit DEF BaseInv

LEMMA BaseAlways == Spec => []BaseInv
BY BaseInit, BaseNext, PTL DEF Spec

\* Every value keeps its shape, and what the hub holds is a connection whose handler
\* still runs (hub.go register, unregister).
THEOREM TypeCorrect == Spec => []TypeOK
<1>1. BaseInv => TypeOK
  BY DEF BaseInv
<1> QED
  BY <1>1, BaseAlways, PTL

-----------------------------------------------------------------------------
(* The grace period. *)

\* Nothing is forgotten of what has gone wrong.
LEMMA CausesGrow ==
    ASSUME [Next]_vars
    PROVE  causes \subseteq causes'
<1>1. ASSUME NEW c \in Conns, Handler(c) \/ TimerStep(c) PROVE causes \subseteq causes'
  BY <1>1 DEF Handler, Register, NoticeOnline, SayOnline, Unregister, Schedule, TimerStep,
     Fire, Decides, GetNode, Mark, SayOffline, Posts, Delivers, Loses, histVars
<1>2. CASE Accept \/ Tick \/ DeleteNode \/ PanelRestart \/ UNCHANGED vars
  BY <1>2 DEF Accept, Tick, DeleteNode, PanelRestart, histVars, vars
<1>3. ASSUME NEW u \in Users, Flip(u) \/ CheckUser(u) PROVE causes \subseteq causes'
  BY <1>3 DEF Flip, CheckUser, histVars
<1>4. CASE ListUsers \/ LockLoop \/ UnlockLoop
  BY <1>4 DEF ListUsers, LockLoop, UnlockLoop, histVars
<1> QED
  BY <1>1, <1>2, <1>3, <1>4 DEF Next, Loop

LEMMA GraceKept ==
    ASSUME GraceOK, UNCHANGED <<hub, timer, left, notices, early, away>>
    PROVE  GraceOK'
BY DEF GraceOK, Pending

\* A timer that decided or was dismissed goes on.
LEMMA GracePast ==
    ASSUME BaseInv, GraceOK, UNCHANGED <<hub, left, notices, early, away>>, NEW c \in Conns,
           timer[c].pc # "unset", timer'[c].pc \notin {"unset", "wait"},
           timer[c].pc = "done" => timer'[c].pc = "done",
           \A d \in Conns : d # c => timer'[d] = timer[d]
    PROVE  GraceOK'
<1>1. c \in left
  BY DEF BaseInv, ConnsOK
<1>2. \A d \in Conns : Pending(d)' => Pending(d)
  BY <1>1 DEF Pending
<1> QED
  BY <1>2 DEF GraceOK

LEMMA HandlerGrace ==
    ASSUME BaseInv, GraceOK, "flap" \notin causes', NEW c \in Conns, Handler(c)
    PROVE  GraceOK'
<1>0. TypeOK /\ ConnsOK /\ away \in 0..Grace /\ c # 0
  BY ConnRange DEF BaseInv, TypeOK
<1>1. CASE Register(c)
  BY <1>0, <1>1 DEF Register, GraceOK, Pending
<1>2. CASE NoticeOnline(c) \/ SayOnline(c)
  BY <1>2, GraceKept DEF NoticeOnline, SayOnline, histVars
<1>3. CASE Unregister(c)
  <2>0. h[c] = "reading" /\ UNCHANGED <<timer, away, notices, early>>
    BY <1>3 DEF Unregister
  <2>1. CASE hub = c
    <3>1. hub' = 0 /\ left' = left \cup {c} /\ \A d \in left : timer[d].pc = "done"
      BY <1>3, <2>1 DEF Unregister
    <3>2. timer[c].pc = "unset" /\ notices = 0
      BY <1>0, <2>0, <2>1 DEF ConnsOK, GraceOK
    <3>3. \A d \in Conns : timer[d].pc # "wait" /\ (Pending(d)' => d = c)
      BY <1>0, <2>0, <3>1, <3>2 DEF ConnsOK, Pending
    <3> QED
      BY <2>0, <3>2, <3>3 DEF GraceOK
  <2>2. CASE hub # c
    BY <1>3, <2>0, <2>2, GraceKept DEF Unregister
  <2> QED
    BY <2>1, <2>2
<1>4. CASE Schedule(c)
  <2>1. /\ timer'[c].pc = "wait" /\ timer'[c].due = Grace /\ h[c] = "left"
        /\ \A d \in Conns : d # c => timer'[d] = timer[d]
    BY <1>0, <1>4, ScheduleAt
  <2>2. UNCHANGED <<hub, left, notices, early, away>>
    BY <1>4 DEF Schedule, histVars
  <2>3. timer[c].pc = "unset" /\ c \in left
    BY <1>0, <2>1 DEF ConnsOK
  <2>4. \A d \in Conns : Pending(d)' <=> Pending(d)
    BY <2>1, <2>2, <2>3 DEF Pending
  <2>5. away + Grace >= Grace
    BY <1>0, NotifyBounds
  <2>6. hub = 0 => notices = 0
    BY <2>3 DEF GraceOK, Pending
  <2> QED
    BY <2>1, <2>2, <2>4, <2>5, <2>6 DEF GraceOK
<1> QED
  BY <1>1, <1>2, <1>3, <1>4 DEF Handler

LEMMA TimerGrace ==
    ASSUME BaseInv, GraceOK, NEW c \in Conns, TimerStep(c)
    PROVE  GraceOK'
<1>0. TypeOK /\ ConnsOK /\ away \in 0..Grace /\ notices \in 0..2 /\ early \in BOOLEAN
  BY DEF BaseInv, TypeOK
<1>1. CASE Fire(c)
  <2>1. timer[c].pc = "wait" /\ timer[c].due = 0 /\ UNCHANGED <<hub, left, away>>
    BY <1>1 DEF Fire, Due, TimerAt
  <2>2. CASE hub # 0
    <3>1. Dismiss(c) /\ UNCHANGED <<early, notices>>
      BY <1>1, <2>2 DEF Fire
    <3>2. timer'[c].pc = "done" /\ \A d \in Conns : d # c => timer'[d] = timer[d]
      BY <1>0, <3>1, DismissAt
    <3> QED
      BY <2>1, <3>1, <3>2, GracePast
  <2>3. CASE hub = 0
    <3>1. Decides(c)
      BY <1>1, <2>3 DEF Fire
    <3>2. timer'[c].pc = "node" /\ \A d \in Conns : d # c => timer'[d] = timer[d]
      BY <1>0, <3>1, DecidesAt
    <3>3. ~(away < Grace)
      BY <1>0, <2>1, <2>3, NotifyBounds DEF GraceOK
    <3>4. ~early'
      BY <3>1, <3>3, Zenon DEF Decides, GraceOK
    <3>5. c \in left /\ Pending(c)
      BY <1>0, <2>1 DEF ConnsOK, Pending
    <3>6. notices = 0
      BY <2>1, <2>3, <3>5 DEF GraceOK
    <3>7. notices' = 1
      BY <3>1, <3>6 DEF Decides
    <3>8. \A d \in Conns : Pending(d)' => d = c
      BY <2>1, <3>2, <3>5 DEF GraceOK, Pending
    <3>9. \A d \in Conns : timer'[d].pc # "wait"
      BY <1>0, <2>1, <3>2, <3>8 DEF ConnsOK, Pending
    <3> QED
      BY <2>1, <2>3, <3>2, <3>4, <3>7, <3>8, <3>9 DEF GraceOK
  <2> QED
    BY <2>2, <2>3
<1>2. CASE GetNode(c) \/ Mark(c) \/ SayOffline(c)
  <2>1. UNCHANGED <<hub, left, notices, early, away>> /\ timer[c].pc \in {"node", "mark", "post"}
    BY <1>2 DEF GetNode, Mark, SayOffline, histVars
  <2>2. /\ timer'[c].pc \in {"mark", "post", "done"}
        /\ \A d \in Conns : d # c => timer'[d] = timer[d]
    BY <1>0, <1>2, <2>1, TimerGoesOn
  <2> QED
    BY <2>1, <2>2, GracePast
<1> QED
  BY <1>1, <1>2 DEF TimerStep

LEMMA TickGrace ==
    ASSUME BaseInv, GraceOK, Tick
    PROVE  GraceOK'
<1>0. TypeOK /\ ConnsOK /\ away \in 0..Grace /\ timer \in [Conns -> Timer]
  BY DEF BaseInv, TypeOK
<1>1. /\ \A c \in Conns : timer'[c].pc = timer[c].pc
      /\ \A c \in Conns : timer'[c].due = IF Running(c) THEN timer[c].due - 1 ELSE timer[c].due
  BY <1>0, TickAt
<1>2. UNCHANGED <<hub, left, notices, early>>
  BY DEF Tick
<1>3. \A c \in Conns : Pending(c)' <=> Pending(c)
  BY <1>1, <1>2 DEF Pending
<1>4. ASSUME NEW c \in Conns, hub = 0, timer[c].pc = "wait"
      PROVE  away' + timer'[c].due >= Grace
  <2>1. left # {} /\ away + timer[c].due >= Grace /\ timer[c].due \in 0..Grace
    BY <1>0, <1>4 DEF ConnsOK, GraceOK, Timer
  <2>2. away' = IF away < Grace THEN away + 1 ELSE away
    BY <1>4, <2>1 DEF Tick
  <2>3. timer'[c].due = IF timer[c].due > 0 THEN timer[c].due - 1 ELSE timer[c].due
    BY <1>1, <1>4 DEF Running
  <2> QED
    BY <1>0, <2>1, <2>2, <2>3, NotifyBounds
<1> QED
  BY <1>1, <1>2, <1>3, <1>4 DEF GraceOK

LEMMA RestartGrace ==
    ASSUME GraceOK, PanelRestart
    PROVE  GraceOK'
<1>1. Unset.pc = "unset"
  BY DEF Unset, TimerAt
<1>2. \A c \in Conns : timer'[c].pc = "unset" /\ ~Pending(c)'
  BY <1>1 DEF PanelRestart, Pending
<1>3. notices' = 0 /\ early' = early
  BY DEF PanelRestart
<1> QED
  BY <1>2, <1>3 DEF GraceOK

LEMMA GraceNext ==
    ASSUME BaseInv, GraceInStep, [Next]_vars
    PROVE  GraceInStep'
<1> SUFFICES ASSUME "flap" \notin causes' PROVE GraceOK'
  BY DEF GraceInStep
<1>0. GraceOK
  BY CausesGrow DEF GraceInStep
<1>1. CASE Accept \/ DeleteNode \/ UNCHANGED vars
  BY <1>0, <1>1, GraceKept DEF Accept, DeleteNode, vars, nodeVars, histVars
<1>2. CASE Loop
  BY <1>0, <1>2, GraceKept DEF Loop, ListUsers, LockLoop, CheckUser, UnlockLoop, nodeVars, histVars
<1>3. CASE \E u \in Users : Flip(u)
  BY <1>0, <1>3, GraceKept DEF Flip, nodeVars, histVars
<1> QED
  BY <1>0, <1>1, <1>2, <1>3, HandlerGrace, TimerGrace, TickGrace, RestartGrace DEF Next

\* A routine restart stays quiet: without a flap no offline notice is decided before the
\* node was away for the grace period, and only one in an outage (notify.go
\* scheduleOfflineNotice).
THEOREM RestartsQuiet == Spec => []QuietRestarts
<1>1. Init => GraceInStep
  <2> SUFFICES ASSUME Init PROVE GraceOK
    BY DEF GraceInStep
  <2>1. Unset.pc = "unset"
    BY DEF Unset, TimerAt
  <2>2. \A c \in Conns : timer[c].pc = "unset" /\ ~Pending(c)
    BY <2>1 DEF Init, Pending
  <2>3. notices = 0 /\ early = FALSE
    BY DEF Init
  <2> QED
    BY <2>2, <2>3 DEF GraceOK
<1>2. GraceInStep => QuietRestarts
  BY DEF GraceInStep, GraceOK, QuietRestarts
<1> QED
  BY <1>1, <1>2, BaseAlways, GraceNext, PTL DEF Spec

-----------------------------------------------------------------------------
(* The last notice. *)

OnWay == {"node", "mark", "post"}

\* A step that sends nothing and begins or ends no notice; it may empty the hub.
LEMMA TellingKept ==
    ASSUME TellingOK, hub' \in {hub, 0}, UNCHANGED <<marked, said>>,
           \A d \in Conns : \/ h'[d] = h[d]
                            \/ {h[d], h'[d]} \cap {"registered", "say"} = {},
           \A d \in Conns : \/ timer'[d].pc = timer[d].pc
                            \/ {timer[d].pc, timer'[d].pc} \cap OnWay = {}
    PROVE  TellingOK'
<1>1. \A d \in Conns : /\ TimerBusy(d)' <=> TimerBusy(d)
                       /\ timer'[d].pc = "post" <=> timer[d].pc = "post"
  BY DEF TimerBusy, OnWay
<1>2. \A d \in Conns : /\ HandlerBusy(d)' <=> HandlerBusy(d)
                       /\ h'[d] = "say" <=> h[d] = "say"
                       /\ h'[d] = "registered" <=> h[d] = "registered"
  BY DEF HandlerBusy
<1> QED
  BY <1>1, <1>2 DEF TellingOK

LEMMA HandlerTelling ==
    ASSUME BaseInv, TellingOK, NothingLost', NEW c \in Conns, Handler(c)
    PROVE  TellingOK'
<1>0. TypeOK /\ ConnsOK /\ h \in [Conns -> HandlerPcs] /\ marked \in BOOLEAN
  BY DEF BaseInv, TypeOK
<1>p. {"registered", "say", "reading", "left", "off"} \subseteq HandlerPcs
  BY DEF HandlerPcs
<1>b. ASSUME NEW d \in Conns, HandlerBusy(d) PROVE \A e \in Conns : ~TimerBusy(e) /\ timer[e].pc # "post"
  BY <1>b DEF TellingOK, TimerBusy
<1>1. CASE Register(c)
  <2>1. h'[c] = "registered" /\ \A d \in Conns : d # c => h'[d] = h[d]
    BY <1>0, <1>1, <1>p, HandlerAt DEF Register
  <2>2. h[c] = "accepted" /\ UNCHANGED <<timer, marked, said>>
    BY <1>1 DEF Register
  <2>3. \A d \in Conns : ~TimerBusy(d)
    BY <1>1 DEF Register, NothingLost
  <2>4. \A d \in Conns : ~TimerBusy(d)' /\ timer'[d].pc # "post" /\ timer[d].pc # "post"
    BY <2>2, <2>3 DEF TimerBusy
  <2>5. \A d \in Conns : h'[d] = "say" <=> h[d] = "say"
    BY <2>1, <2>2
  <2> QED
    BY <2>1, <2>2, <2>4, <2>5 DEF TellingOK
<1>2. CASE NoticeOnline(c)
  <2>1. /\ h[c] = "registered" /\ marked' = FALSE /\ UNCHANGED <<timer, hub, said>>
        /\ h' = [h EXCEPT ![c] = IF marked THEN "say" ELSE "reading"]
    BY <1>2 DEF NoticeOnline, histVars
  <2>2. /\ h'[c] = IF marked THEN "say" ELSE "reading"
        /\ \A d \in Conns : d # c => h'[d] = h[d]
    BY <1>0, <2>1
  <2>3. \A e \in Conns : ~TimerBusy(e) /\ timer[e].pc # "post"
    BY <1>b, <2>1 DEF HandlerBusy
  <2>4. \A e \in Conns : ~TimerBusy(e)' /\ timer'[e].pc # "post"
    BY <2>1, <2>3 DEF TimerBusy
  <2>5. CASE marked
    <3>1. said = "offline" /\ \A d \in Conns : h[d] # "say"
      BY <2>3, <2>5 DEF TellingOK
    <3>2. h'[c] = "say" /\ \A d \in Conns : h'[d] = "say" => d = c
      BY <2>2, <2>5, <3>1
    <3> QED
      BY <2>1, <2>4, <3>1, <3>2 DEF TellingOK
  <2>6. CASE ~marked
    <3>1. \A d \in Conns : h'[d] = "say" <=> h[d] = "say"
      BY <2>1, <2>2, <2>6
    <3> QED
      BY <2>1, <2>4, <2>6, <3>1 DEF TellingOK
  <2> QED
    BY <2>5, <2>6
<1>3. CASE SayOnline(c)
  <2>1. h[c] = "say" /\ UNCHANGED <<timer, hub, marked>> /\ h' = [h EXCEPT ![c] = "reading"]
    BY <1>3 DEF SayOnline
  <2>2. said' = "online"
    BY <1>3 DEF SayOnline, Posts, Delivers, Loses, NothingLost
  <2>3. h'[c] = "reading" /\ \A d \in Conns : d # c => h'[d] = h[d]
    BY <1>0, <1>p, <2>1, HandlerAt
  <2>4. ~marked /\ \A d \in Conns : h'[d] # "say"
    BY <2>1, <2>3 DEF TellingOK
  <2>5. \A e \in Conns : ~TimerBusy(e) /\ timer[e].pc # "post"
    BY <1>b, <2>1 DEF HandlerBusy
  <2>6. \A e \in Conns : ~TimerBusy(e)' /\ timer'[e].pc # "post"
    BY <2>1, <2>5 DEF TimerBusy
  <2> QED
    BY <2>1, <2>2, <2>4, <2>6 DEF TellingOK
<1>4. CASE Unregister(c)
  <2>1. /\ h[c] = "reading" /\ hub' \in {hub, 0} /\ UNCHANGED <<marked, said, timer>>
        /\ h' = [h EXCEPT ![c] = "left"] \/ h' = [h EXCEPT ![c] = "off"]
    BY <1>4 DEF Unregister
  <2>2. h'[c] \in {"left", "off"} /\ \A d \in Conns : d # c => h'[d] = h[d]
    BY <1>0, <1>p, <2>1, HandlerAt
  <2> QED
    BY <2>1, <2>2, TellingKept
<1>5. CASE Schedule(c)
  <2>1. /\ timer'[c].pc = "wait" /\ h[c] = "left" /\ h'[c] = "off"
        /\ \A d \in Conns : d # c => timer'[d] = timer[d]
        /\ \A d \in Conns : d # c => h'[d] = h[d]
    BY <1>0, <1>5, ScheduleAt
  <2>2. timer[c].pc = "unset" /\ UNCHANGED <<hub, marked, said>>
    BY <1>0, <1>5, <2>1 DEF Schedule, ConnsOK, histVars
  <2> QED
    BY <2>1, <2>2, TellingKept DEF OnWay
<1> QED
  BY <1>1, <1>2, <1>3, <1>4, <1>5 DEF Handler

LEMMA TimerTelling ==
    ASSUME BaseInv, TellingOK, NothingLost', NEW c \in Conns, TimerStep(c)
    PROVE  TellingOK'
<1>0. TypeOK /\ ConnsOK /\ timer \in [Conns -> Timer] /\ marked \in BOOLEAN
  BY DEF BaseInv, TypeOK
<1>h. UNCHANGED <<h, hub>>
  BY DEF TimerStep, Fire, GetNode, Mark, SayOffline
<1>i. \A d \in Conns : HandlerBusy(d)' <=> HandlerBusy(d)
  BY <1>h DEF HandlerBusy
\* A timer on its way stays on its way, or is done without having marked the node.
<1>k. ASSUME UNCHANGED <<marked, said>>, timer'[c].pc # "post", timer[c].pc # "post",
             TimerBusy(c)' => hub = 0 /\ \A d \in Conns : ~HandlerBusy(d),
             \A d \in Conns : d # c => timer'[d] = timer[d]
      PROVE  TellingOK'
  <2>1. \A d \in Conns : timer'[d].pc = "post" <=> timer[d].pc = "post"
    BY <1>k
  <2>2. \A d \in Conns : TimerBusy(d)' => hub = 0 /\ \A e \in Conns : ~HandlerBusy(e)
    BY <1>k DEF TellingOK, TimerBusy
  <2> QED
    BY <1>h, <1>i, <1>k, <2>1, <2>2 DEF TellingOK
<1>1. CASE Fire(c)
  <2>1. timer[c].pc = "wait" /\ UNCHANGED <<marked, said>>
    BY <1>1 DEF Fire, Due, TimerAt
  <2>2. CASE hub # 0
    <3>1. timer'[c].pc = "done" /\ \A d \in Conns : d # c => timer'[d] = timer[d]
      BY <1>0, <1>1, <2>2, DismissAt DEF Fire
    <3> QED
      BY <1>k, <2>1, <3>1 DEF TimerBusy
  <2>3. CASE hub = 0
    <3>1. Decides(c)
      BY <1>1, <2>3 DEF Fire
    <3>2. timer'[c].pc = "node" /\ \A d \in Conns : d # c => timer'[d] = timer[d]
      BY <1>0, <3>1, DecidesAt
    <3>3. \A d \in Conns : ~HandlerBusy(d)
      BY <3>1 DEF Decides, NothingLost
    <3> QED
      BY <1>k, <2>1, <2>3, <3>2, <3>3
  <2> QED
    BY <2>2, <2>3
<1>2. CASE GetNode(c) \/ Mark(c) \/ SayOffline(c)
  <2>0. \A d \in Conns : d # c => timer'[d] = timer[d]
    BY <1>0, <1>2, TimerGoesOn
  <2>1. TimerBusy(c) /\ hub = 0 /\ \A d \in Conns : ~HandlerBusy(d) /\ h[d] # "say"
    BY <1>2 DEF GetNode, Mark, SayOffline, TimerBusy, HandlerBusy, TellingOK
  <2>2. CASE GetNode(c)
    <3>1. timer[c].pc = "node" /\ UNCHANGED <<marked, said>>
      BY <2>2 DEF GetNode
    <3>2. timer'[c].pc # "post"
      <4>1. CASE Dismiss(c)
        BY <1>0, <4>1, DismissAt
      <4>2. CASE timer' = [timer EXCEPT ![c].pc = IF exists THEN "mark" ELSE "done"]
        BY <1>0, <3>1, <4>2, TimerMoves DEF TimerPcs
      <4> QED
        BY <2>2, <4>1, <4>2 DEF GetNode
    <3> QED
      BY <1>k, <2>0, <2>1, <3>1, <3>2
  <2>3. CASE Mark(c)
    <3>1. marked' = TRUE /\ said' = said /\ timer' = [timer EXCEPT ![c].pc = "post"]
      BY <2>3 DEF Mark, histVars
    <3>2. timer'[c].pc = "post"
      BY <1>0, <2>3, <3>1, TimerMoves DEF Mark, TimerPcs
    <3> QED
      BY <1>h, <1>i, <2>1, <3>1, <3>2 DEF TellingOK
  <2>4. CASE SayOffline(c)
    <3>1. timer[c].pc = "post" /\ marked' = marked /\ Dismiss(c) /\ said' = "offline"
      BY <2>4 DEF SayOffline, Posts, Delivers, Loses, NothingLost
    <3>2. marked
      BY <3>1 DEF TellingOK
    <3> QED
      BY <1>h, <1>i, <2>1, <3>1, <3>2 DEF TellingOK
  <2> QED
    BY <1>2, <2>2, <2>3, <2>4
<1> QED
  BY <1>1, <1>2 DEF TimerStep

LEMMA TellingNext ==
    ASSUME BaseInv, TellingInStep, [Next]_vars
    PROVE  TellingInStep'
<1> SUFFICES ASSUME NothingLost' PROVE TellingOK'
  BY DEF TellingInStep
<1>0. TellingOK /\ TypeOK /\ ConnsOK
  BY CausesGrow DEF TellingInStep, NothingLost, BaseInv
<1>1. CASE DeleteNode \/ UNCHANGED vars
  BY <1>0, <1>1, TellingKept DEF DeleteNode, vars, nodeVars, histVars
<1>2. CASE Loop
  BY <1>0, <1>2, TellingKept DEF Loop, ListUsers, LockLoop, CheckUser, UnlockLoop, nodeVars, histVars
<1>3. CASE \E u \in Users : Flip(u)
  BY <1>0, <1>3, TellingKept DEF Flip, nodeVars, histVars
<1>4. CASE Tick
  <2>1. \A c \in Conns : timer'[c].pc = timer[c].pc
    BY <1>0, <1>4, TickAt
  <2> QED
    BY <1>0, <1>4, <2>1, TellingKept DEF Tick
<1>5. CASE Accept
  <2>1. nconns' = nconns + 1 /\ nconns' \in Conns /\ nconns \in 0..MaxConns
    BY <1>0, <1>5, NotifyBounds DEF Accept, TypeOK, Conns
  <2>2. h'[nconns'] = "accepted" /\ \A d \in Conns : d # nconns' => h'[d] = h[d]
    BY <1>0, <1>5, <2>1 DEF Accept, TypeOK
  <2>3. h[nconns'] = "none"
    BY <1>0, <2>1 DEF ConnsOK
  <2> QED
    BY <1>0, <1>5, <2>2, <2>3, TellingKept DEF Accept, histVars
<1>6. CASE PanelRestart
  BY <1>6 DEF PanelRestart, NothingLost
<1> QED
  BY <1>0, <1>1, <1>2, <1>3, <1>4, <1>5, <1>6, HandlerTelling, TimerTelling DEF Next

\* What the admins heard last of the node is true and is what the panel remembers, unless
\* two notices crossed, one was not delivered or the panel restarted (notify.go
\* noticeOnline, scheduleOfflineNotice).
THEOREM LastNoticeTrue == Spec => []LastWord
<1>1. Init => TellingInStep
  <2> SUFFICES ASSUME Init PROVE TellingOK
    BY DEF TellingInStep
  <2>1. Unset.pc = "unset"
    BY DEF Unset, TimerAt
  <2>2. \A c \in Conns : timer[c].pc = "unset" /\ h[c] = "none"
    BY <2>1 DEF Init
  <2> QED
    BY <2>2 DEF Init, TellingOK, TimerBusy, HandlerBusy
<1>2. TellingInStep => LastWord
  BY DEF TellingInStep, NothingLost, TellingOK, LastWord, AtRest, TimerBusy, HandlerBusy
<1> QED
  BY <1>1, <1>2, BaseAlways, TellingNext, PTL DEF Spec
=============================================================================

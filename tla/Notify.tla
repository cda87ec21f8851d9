------------------------------- MODULE Notify -------------------------------
(***************************************************************************)
(* Push notifications (internal/panel/notify.go): the offline and online   *)
(* notices of one node, driven by the hub's connections (hub.go handleWS,  *)
(* register, unregister), and the lapse notices of users, driven by the    *)
(* enforcement loop (traffic.go).  notifyMu is held by the loop while it   *)
(* posts; every other critical section is one step.                        *)
(*                                                                         *)
(* Time passes in ticks; the 90 seconds of scheduleOfflineNotice are Grace *)
(* ticks.  A timer fires at its time or later, and is never stopped.       *)
(***************************************************************************)
EXTENDS Integers

CONSTANTS
    Users,      \* user ids
    MaxConns,   \* bound: connections of the node
    MaxFlips,   \* bound: how often users become active or inactive
    Grace,      \* the grace period, in ticks
    Faults      \* which FaultKinds the run injects

FaultKinds == {"deleteNode", "dbError", "postError", "panelRestart"}

ASSUME NotifyBounds == MaxConns \in Nat /\ MaxFlips \in Nat /\ Grace \in Nat \ {0}
ASSUME NotifyFaults == Faults \subseteq FaultKinds

Conns == 1..MaxConns

VARIABLES
    exists,     \* the node has a row
    hub,        \* Hub.conns[node], 0 when none
    h,          \* h[c]: where the handler of connection c is
    timer,      \* timer[c]: the timer that connection c's unregister started
    marked,     \* App.offlineNotified[node]
    nconns,     \* connections so far
    active,     \* users that are active by their row
    known,      \* App.userActive: "unseen", "yes" or "no"
    loop,       \* checkUserTransitions; it holds notifyMu at pc "locked"
    flips,
    (* history, read by no action of the system *)
    said,       \* the notice about the node that was delivered last
    heard,      \* users whose lapse was delivered since they were seen active
    away,       \* ticks since the node left the hub, at most Grace
    left,       \* connections whose end left the node without one
    notices,    \* offline notices decided in this outage
    early,      \* one was decided before the node was away for Grace
    word,       \* what became of this outage's notice: "none" yet, "told", "lost"
    causes      \* what has gone wrong so far

nodeVars == <<exists, hub, h, timer, marked, nconns>>
userVars == <<active, known, loop, flips>>
histVars == <<said, heard, away, left, notices, early, word, causes>>
vars == <<nodeVars, userVars, histVars>>

CauseKinds == {"flap", "crossed", "restart", "error"}
HandlerPcs == {"none", "accepted", "registered", "say", "reading", "left", "off"}
TimerPcs   == {"unset", "wait", "node", "mark", "post", "done"}
Timer      == [pc: TimerPcs, due: 0..Grace]
LoopState  == [pc: {"idle", "listed", "locked"}, rows: SUBSET Users, todo: SUBSET Users]

TimerAt(pc, n) == [pc |-> pc, due |-> n]
Unset == TimerAt("unset", 0)
Idle  == [pc |-> "idle", rows |-> {}, todo |-> {}]

Init ==
    /\ exists = TRUE
    /\ hub = 0
    /\ h = [c \in Conns |-> "none"]
    /\ timer = [c \in Conns |-> Unset]
    /\ marked = FALSE
    /\ nconns = 0
    /\ active \in SUBSET Users
    /\ known = [u \in Users |-> "unseen"]
    /\ loop = Idle
    /\ flips = 0
    /\ said = "nothing"
    /\ heard = {}
    /\ away = 0
    /\ left = {}
    /\ notices = 0
    /\ early = FALSE
    /\ word = "none"
    /\ causes = {}

\* notifyMu is free.
MuFree == loop.pc # "locked"

\* A notice is on its way, from a timer or from a handler.
TimerBusy(c)   == timer[c].pc \in {"node", "mark", "post"}
HandlerBusy(c) == h[c] \in {"registered", "say"}

\* notifyAdmins: errors are ignored, and without a token or admins nothing is sent.
Delivers(msg) == said' = msg /\ UNCHANGED causes
Loses         == "postError" \in Faults /\ causes' = causes \cup {"error"} /\ UNCHANGED said
Posts(msg)    == Delivers(msg) \/ Loses

\* The node is away, and an offline notice was delivered or dropped.
Word(v) == word' = IF hub = 0 /\ word # "told" THEN v ELSE word

-----------------------------------------------------------------------------
(* The handlers of the node's connections. *)

\* The node connects; GetNodeByToken finds its row.
Accept ==
    /\ nconns < MaxConns
    /\ exists
    /\ nconns' = nconns + 1
    /\ h' = [h EXCEPT ![nconns'] = "accepted"]
    /\ UNCHANGED <<exists, hub, timer, marked, userVars, histVars>>

\* register: the connection takes the place of any other.
Register(c) ==
    /\ h[c] = "accepted"
    /\ hub' = c
    /\ h' = [h EXCEPT ![c] = "registered"]
    /\ away' = 0
    /\ notices' = 0
    /\ word' = "none"
    /\ causes' = IF \E d \in Conns : TimerBusy(d) THEN causes \cup {"crossed"} ELSE causes
    /\ UNCHANGED <<exists, timer, marked, nconns, userVars, said, heard, left, early>>

\* Bug: the mark stays.
BugNoticeOnline(c) ==
    /\ h[c] = "registered"
    /\ MuFree
    /\ h' = [h EXCEPT ![c] = IF marked THEN "say" ELSE "reading"]
    /\ UNCHANGED <<exists, hub, timer, marked, nconns, userVars, histVars>>

\* noticeOnline: read and delete the mark.
NoticeOnline(c) ==
    /\ h[c] = "registered"
    /\ MuFree
    /\ h' = [h EXCEPT ![c] = IF marked THEN "say" ELSE "reading"]
    /\ marked' = FALSE
    /\ UNCHANGED <<exists, hub, timer, nconns, userVars, histVars>>

\* ... and announce the node.  The handler does not serve it before.
SayOnline(c) ==
    /\ h[c] = "say"
    /\ h' = [h EXCEPT ![c] = "reading"]
    /\ Posts("online")
    /\ UNCHANGED <<exists, hub, timer, marked, nconns, userVars, heard, away, left,
                   notices, early, word>>

\* Bug: the end of a replaced connection counts too.
BugUnregister(c) ==
    /\ h[c] = "reading"
    /\ h' = [h EXCEPT ![c] = "left"]
    /\ hub' = IF hub = c THEN 0 ELSE hub
    /\ left' = IF hub = c THEN left \cup {c} ELSE left
    /\ causes' = IF hub = c /\ \E d \in left : timer[d].pc # "done"
                 THEN causes \cup {"flap"} ELSE causes
    /\ UNCHANGED <<exists, timer, marked, nconns, userVars, said, heard, away, notices,
                   early, word>>

\* Bug: the connection stays in the hub.
BugUnregisterKeeps(c) ==
    /\ h[c] = "reading"
    /\ h' = [h EXCEPT ![c] = IF hub = c THEN "left" ELSE "off"]
    /\ left' = IF hub = c THEN left \cup {c} ELSE left
    /\ UNCHANGED <<exists, hub, timer, marked, nconns, userVars, said, heard, away, notices,
                   early, word, causes>>

\* readLoop fails; unregister removes the connection if it is still the node's.
\* ("flap": the node leaves before the timer of an earlier outage is done)
Unregister(c) ==
    /\ h[c] = "reading"
    /\ IF hub = c
       THEN /\ hub' = 0
            /\ h' = [h EXCEPT ![c] = "left"]
            /\ left' = left \cup {c}
            /\ causes' = IF \E d \in left : timer[d].pc # "done"
                         THEN causes \cup {"flap"} ELSE causes
       ELSE /\ h' = [h EXCEPT ![c] = "off"]
            /\ UNCHANGED <<hub, left, causes>>
    /\ UNCHANGED <<exists, timer, marked, nconns, userVars, said, heard, away, notices,
                   early, word>>

\* scheduleOfflineNotice.
Schedule(c) ==
    /\ h[c] = "left"
    /\ h' = [h EXCEPT ![c] = "off"]
    /\ timer' = [timer EXCEPT ![c] = TimerAt("wait", Grace)]
    /\ UNCHANGED <<exists, hub, marked, nconns, userVars, histVars>>

-----------------------------------------------------------------------------
(* The timers. *)

Running(c) == timer[c].pc = "wait" /\ timer[c].due > 0

\* Time passes.
Tick ==
    /\ \/ \E c \in Conns : Running(c)
       \/ hub = 0 /\ left # {} /\ away < Grace
    /\ timer' = [c \in Conns |-> IF Running(c) THEN TimerAt("wait", timer[c].due - 1)
                                               ELSE timer[c]]
    /\ away' = IF hub = 0 /\ left # {} /\ away < Grace THEN away + 1 ELSE away
    /\ UNCHANGED <<exists, hub, h, marked, nconns, userVars, said, heard, left, notices,
                   early, word, causes>>

Due(c) == timer[c] = TimerAt("wait", 0)

\* The timer's function goes on with a notice.
Decides(c) ==
    /\ timer' = [timer EXCEPT ![c] = TimerAt("node", 0)]
    /\ early' = (early \/ away < Grace)
    /\ notices' = IF notices < 2 THEN notices + 1 ELSE notices
    /\ causes' = IF \E d \in Conns : HandlerBusy(d) THEN causes \cup {"crossed"} ELSE causes

Dismiss(c) == timer' = [timer EXCEPT ![c] = TimerAt("done", 0)]

\* Bug: a timer also gives way to a mark that is already there.
BugFire(c) ==
    /\ Due(c)
    /\ IF hub # 0 \/ marked THEN Dismiss(c) /\ UNCHANGED <<early, notices, causes>>
                            ELSE Decides(c)
    /\ UNCHANGED <<exists, hub, h, marked, nconns, userVars, said, heard, away, left, word>>

\* The timer fires: is the node connected?
Fire(c) ==
    /\ Due(c)
    /\ IF hub # 0 THEN Dismiss(c) /\ UNCHANGED <<early, notices, causes>>
                  ELSE Decides(c)
    /\ UNCHANGED <<exists, hub, h, marked, nconns, userVars, said, heard, away, left, word>>

\* GetNode; the notice is dropped without a row, or on an error.
GetNode(c) ==
    /\ timer[c].pc = "node"
    /\ \/ /\ timer' = [timer EXCEPT ![c].pc = IF exists THEN "mark" ELSE "done"]
          /\ UNCHANGED <<word, causes>>
       \/ /\ "dbError" \in Faults
          /\ Dismiss(c)
          /\ Word("lost")
          /\ causes' = causes \cup {"error"}
    /\ UNCHANGED <<exists, hub, h, marked, nconns, userVars, said, heard, away, left,
                   notices, early>>

Mark(c) ==
    /\ timer[c].pc = "mark"
    /\ MuFree
    /\ marked' = TRUE
    /\ timer' = [timer EXCEPT ![c].pc = "post"]
    /\ UNCHANGED <<exists, hub, h, nconns, userVars, histVars>>

SayOffline(c) ==
    /\ timer[c].pc = "post"
    /\ Dismiss(c)
    /\ \/ Delivers("offline") /\ Word("told")
       \/ Loses /\ Word("lost")
    /\ UNCHANGED <<exists, hub, h, marked, nconns, userVars, heard, away, left, notices,
                   early>>

\* The node's row goes; its connection and its timers stay.
DeleteNode ==
    /\ "deleteNode" \in Faults
    /\ exists
    /\ exists' = FALSE
    /\ UNCHANGED <<hub, h, timer, marked, nconns, userVars, histVars>>

-----------------------------------------------------------------------------
(* Users. *)

\* A user is enabled, disabled, renewed, expires or uses up its quota.
Flip(u) ==
    /\ flips < MaxFlips
    /\ flips' = flips + 1
    /\ active' = IF u \in active THEN active \ {u} ELSE active \cup {u}
    /\ UNCHANGED <<nodeVars, known, loop, histVars>>

\* checkUserTransitions, in every tick of enforcementLoop: ListUsers ...
ListUsers ==
    /\ loop.pc = "idle"
    /\ loop' = [pc |-> "listed", rows |-> active, todo |-> {}]
    /\ UNCHANGED <<nodeVars, active, known, flips, histVars>>

\* ... an error ends it; the lock, held to the end ...
LockLoop ==
    /\ loop.pc = "listed"
    /\ \/ loop' = [loop EXCEPT !.pc = "locked", !.todo = Users]
       \/ "dbError" \in Faults /\ loop' = Idle
    /\ UNCHANGED <<nodeVars, active, known, flips, histVars>>

State(u) == IF u \in loop.rows THEN "yes" ELSE "no"

\* Bug: the new state is stored before the old one is read.
BugCheckUser(u) ==
    /\ loop.pc = "locked"
    /\ u \in loop.todo
    /\ loop' = [loop EXCEPT !.todo = @ \ {u}]
    /\ known' = [known EXCEPT ![u] = State(u)]
    /\ UNCHANGED <<nodeVars, active, flips, histVars>>

\* ... and for each user, a notice if it was active and is not.
CheckUser(u) ==
    /\ loop.pc = "locked"
    /\ u \in loop.todo
    /\ loop' = [loop EXCEPT !.todo = @ \ {u}]
    /\ known' = [known EXCEPT ![u] = State(u)]
    /\ IF known[u] = "yes" /\ State(u) = "no"
       THEN \/ heard' = heard \cup {u} /\ UNCHANGED causes
            \/ /\ "postError" \in Faults
               /\ causes' = causes \cup {"error"}
               /\ UNCHANGED heard
       ELSE heard' = heard \ loop.rows /\ UNCHANGED causes
    /\ UNCHANGED <<nodeVars, active, flips, said, away, left, notices, early, word>>

UnlockLoop ==
    /\ loop.pc = "locked"
    /\ loop.todo = {}
    /\ loop' = Idle
    /\ UNCHANGED <<nodeVars, active, known, flips, histVars>>

\* The panel process ends and starts again: connections, timers, marks and
\* userActive are gone.
PanelRestart ==
    /\ "panelRestart" \in Faults
    /\ nconns < MaxConns
    /\ nconns > 0
    /\ hub' = 0
    /\ h' = [c \in Conns |-> IF c <= nconns THEN "off" ELSE "none"]
    /\ timer' = [c \in Conns |-> Unset]
    /\ marked' = FALSE
    /\ known' = [u \in Users |-> "unseen"]
    /\ loop' = Idle
    /\ away' = 0
    /\ left' = {}
    /\ notices' = 0
    /\ word' = "none"
    /\ causes' = causes \cup {"restart"}
    /\ UNCHANGED <<exists, nconns, active, flips, said, heard, early>>

-----------------------------------------------------------------------------
Handler(c) ==
    \/ Register(c) \/ NoticeOnline(c) \/ SayOnline(c) \/ Unregister(c) \/ Schedule(c)

TimerStep(c) == Fire(c) \/ GetNode(c) \/ Mark(c) \/ SayOffline(c)

Loop == ListUsers \/ LockLoop \/ (\E u \in Users : CheckUser(u)) \/ UnlockLoop

Next ==
    \/ Accept \/ Tick \/ DeleteNode \/ PanelRestart \/ Loop
    \/ \E c \in Conns : Handler(c) \/ TimerStep(c)
    \/ \E u \in Users : Flip(u)

Spec == Init /\ [][Next]_vars

(***************************************************************************)
(* Fairness: goroutines run, time passes, the loop ticks, posts return     *)
(* (the HTTP client has a timeout), and a goroutine that waits for notifyMu*)
(* gets it (Go's mutex hands over to a waiter).  Nodes need not connect,   *)
(* and connections need not end.                                           *)
(***************************************************************************)
Fairness ==
    /\ WF_vars(Tick)
    /\ WF_vars(ListUsers)
    /\ WF_vars(\E u \in Users : CheckUser(u))
    /\ WF_vars(UnlockLoop)
    /\ SF_vars(LockLoop /\ loop'.pc = "locked")
    /\ \A c \in Conns :
        /\ WF_vars(Register(c))
        /\ SF_vars(NoticeOnline(c))
        /\ WF_vars(SayOnline(c))
        /\ WF_vars(Schedule(c))
        /\ WF_vars(Fire(c))
        /\ WF_vars(GetNode(c))
        /\ SF_vars(Mark(c))
        /\ WF_vars(SayOffline(c))

FairSpec == Spec /\ Fairness

-----------------------------------------------------------------------------
\* Type invariant; what the hub holds is a connection whose handler still runs.
TypeOK ==
    /\ exists \in BOOLEAN
    /\ hub \in 0..MaxConns
    /\ hub # 0 => h[hub] \in {"registered", "say", "reading"}
    /\ h \in [Conns -> HandlerPcs]
    /\ timer \in [Conns -> Timer]
    /\ \A c \in Conns : timer[c].due > 0 => timer[c].pc = "wait"
    /\ marked \in BOOLEAN
    /\ nconns \in 0..MaxConns
    /\ active \subseteq Users
    /\ known \in [Users -> {"unseen", "yes", "no"}]
    /\ loop \in LoopState
    /\ flips \in 0..MaxFlips
    /\ said \in {"nothing", "online", "offline"}
    /\ heard \subseteq Users
    /\ away \in 0..Grace
    /\ left \subseteq Conns
    /\ notices \in 0..2
    /\ early \in BOOLEAN
    /\ word \in {"none", "told", "lost"}
    /\ causes \subseteq CauseKinds

\* "The node has been disconnected for 90 s without reconnecting (debounced, so
\* routine restarts stay quiet)" (docs/telegram.md:44): no offline notice comes
\* earlier, and only one in an outage, unless the node left again while the timer
\* of an earlier outage was not yet done (notify.go:110).
QuietRestarts == "flap" \notin causes => ~early /\ notices <= 1

\* Nothing is being announced.
AtRest == \A c \in Conns : ~TimerBusy(c) /\ ~HandlerBusy(c)

\* What admins heard last is true and is what the panel remembers: after an
\* offline notice the node is offline, and is marked so that its return is
\* announced; unless an offline and an online notice were on their way at the
\* same time, a message was not delivered or the panel restarted.
LastWord ==
    (AtRest /\ causes \cap {"crossed", "restart", "error"} = {}) =>
        /\ said = "offline" => hub = 0
        /\ marked <=> said = "offline"

\* A node that leaves and does not come back is announced: however often it came and
\* went before, and though the enforcement loop holds notifyMu while it posts, an offline
\* notice is delivered (notify.go:108-125).  Not so when the node's row is gone, when
\* GetNode or the post fails in this outage, or when the panel restarts (which empties
\* "left": an outage whose beginning the panel did not see).
OutageTold ==
    (hub = 0 /\ left # {}) ~> (word # "none" \/ hub # 0 \/ ~exists \/ left = {})

\* The lapse of a user the loop has seen active is announced, unless the user is
\* active again first, the message is not delivered or the panel restarts.
LapseTold ==
    \A u \in Users :
        (known[u] = "yes" /\ u \notin active) ~>
            (u \in heard \/ u \in active \/ causes \cap {"restart", "error"} # {})
=============================================================================

----------------------------- MODULE BotProofs -----------------------------
(***************************************************************************)
(* Proofs about Bot, for any tokens, requests, commands and faults: its    *)
(* types, that one goroutine is meant to run, that the stored settings are *)
(* the live ones, and what becomes of a command.                           *)
(***************************************************************************)
EXTENDS Bot, FiniteSetTheorems, TLAPS

\* Goroutines are numbered as they start, and every request and every start of the panel
\* starts one at most.
Busy       == {w \in Savers : hk[w].pc # "idle"}
Started(n) == \A b \in BotIds : bots[b] = Absent <=> b > n

CountOK ==
    /\ IsFiniteSet(Busy)
    /\ \E n \in 0..MaxBots : Started(n) /\ n + Cardinality(Busy) <= 1 + changes

\* A request starts a goroutine for a token only.
StartsOK == \A w \in Savers : hk[w].pc = "start" => hk[w].tok \in Tokens

\* A batch lies between the goroutine's offset and what was sent.
BatchesOK ==
    \A b \in BotIds : Present(b) =>
        \A i \in bots[b].batch : bots[b].off <= i /\ i <= sent[bots[b].tok]

\* Of the goroutines nobody has told to stop only botCancel's is not leaked; once the
\* restarts are through it runs for the live token.
OneInStep ==
    /\ \A b \in leaked : bots[b] # Absent
    /\ \A b \in BotIds : b \in Running /\ b \notin leaked <=> b = botCancel
    /\ ~stale /\ (\A w \in Savers : hk[w].pc \notin {"stop", "start"}) =>
          /\ botCancel = 0 <=> tg.tok = NoToken
          /\ botCancel # 0 => bots[botCancel].tok = tg.tok

\* Without an overlap or half a failure one request saves at most, and what it has yet to
\* save or to set is all that sets the live settings apart from the stored ones.
Saving(w) == hk[w].pc \in {"token", "ids", "live"}

StoredInStep ==
    ~mixed =>
        /\ \A v, w \in Savers : Saving(v) /\ Saving(w) => v = w
        /\ (\A w \in Savers : ~Saving(w)) => tg = db
        /\ \A w \in Savers :
              /\ hk[w].pc = "token" => tg = db
              /\ hk[w].pc = "ids" => db.tok = hk[w].new /\ db.adm = tg.adm
              /\ hk[w].pc = "live" => db.tok = hk[w].new /\ db.adm = hk[w].adm

\* A command that is not exposed is in one batch at most, and not carried out yet; once
\* carried out, and until it is confirmed, a goroutine still meant to run will confirm it.
Has(b, t, i) == Present(b) /\ bots[b].tok = t /\ i \in bots[b].batch

OnceInStep ==
    \A t \in Tokens, i \in 1..MaxCmds : <<t, i>> \notin exposed =>
        /\ ran[<<t, i>>] <= 1
        /\ \A b \in BotIds : Has(b, t, i) => /\ ran[<<t, i>>] = 0
                                             /\ conf[t] <= i => bots[b].ctx
        /\ \A b, d \in BotIds : Has(b, t, i) /\ Has(d, t, i) => b = d
        /\ ran[<<t, i>>] > 0 /\ conf[t] <= i =>
              \E b \in BotIds : Present(b) /\ bots[b].tok = t /\ bots[b].ctx /\ bots[b].off > i

\* What was confirmed, what is below a goroutine's offset and what it has passed in its
\* batch has been carried out or refused.
Answered(t, i) == ran[<<t, i>>] > 0 \/ <<t, i>> \in refused

LostInStep ==
    /\ \A t \in Tokens, i \in 1..MaxCmds : i < conf[t] => Answered(t, i)
    /\ \A b \in BotIds : Present(b) => \A i \in 1..MaxCmds :
          /\ i < bots[b].off => Answered(bots[b].tok, i)
          /\ i \notin bots[b].batch /\ (\E j \in bots[b].batch : i < j) => Answered(bots[b].tok, i)

-----------------------------------------------------------------------------
(* Goroutines. *)

Live == [pc: {"top", "poll", "handle"}, tok: Tokens, off: 0..(MaxCmds + 1),
         batch: SUBSET (1..MaxCmds), ctx: BOOLEAN]

LEMMA Numbers ==
    /\ MaxBots \in Nat /\ MaxBots = 1 + MaxChanges /\ MaxBots > 0
    /\ BotIds \subseteq Nat /\ \A b \in BotIds : b # 0 /\ b <= MaxBots
    /\ Commands = Tokens \X (1..MaxCmds)
BY BotBounds DEF MaxBots, BotIds, Commands

LEMMA RecShapes ==
    /\ BotRec = {Absent, Gone} \cup Live
    /\ Absent.pc = "none" /\ Gone.pc = "gone" /\ Absent # Gone
    /\ \A r \in Live : r.pc \notin {"none", "gone"} /\ r # Absent /\ r # Gone
<1>1. BotRec = {Absent, Gone} \cup Live
  BY DEF BotRec, Live
<1>2. Absent.pc = "none" /\ Gone.pc = "gone"
  BY DEF Absent, Gone
<1>3. \A r \in Live : r.pc \in {"top", "poll", "handle"}
  BY DEF Live
<1> QED
  BY <1>1, <1>2, <1>3

\* A goroutine that is there is a live one, and no other is.
LEMMA Presence ==
    ASSUME bots \in [BotIds -> BotRec], NEW b \in BotIds
    PROVE  /\ Present(b) <=> bots[b] \in Live
           /\ Present(b) => bots[b] # Absent /\ bots[b] # Gone
           /\ Present(b) => /\ bots[b].tok \in Tokens /\ bots[b].off \in 0..(MaxCmds + 1)
                            /\ bots[b].batch \subseteq 1..MaxCmds /\ bots[b].ctx \in BOOLEAN
                            /\ bots[b].pc \in {"top", "poll", "handle"}
<1>1. bots[b] \in {Absent, Gone} \cup Live
  BY RecShapes
<1>2. Present(b) <=> bots[b] \in Live
  BY <1>1, RecShapes DEF Present
<1>3. bots[b] \in Live => /\ bots[b].tok \in Tokens /\ bots[b].off \in 0..(MaxCmds + 1)
                          /\ bots[b].batch \subseteq 1..MaxCmds
                          /\ bots[b].pc \in {"top", "poll", "handle"}
  BY DEF Live
<1>4. bots[b] \in Live => bots[b].ctx \in BOOLEAN
  BY DEF Live
<1> QED
  BY <1>2, <1>3, <1>4, RecShapes

LEMMA PresenceNext ==
    ASSUME (bots \in [BotIds -> BotRec])', NEW b \in BotIds
    PROVE  /\ Present(b)' <=> bots'[b] \in Live
           /\ Present(b)' => bots'[b] # Absent /\ bots'[b] # Gone
<1>1. bots'[b] \in {Absent, Gone} \cup Live
  BY RecShapes
<1> QED
  BY <1>1, RecShapes DEF Present

\* The shape of a goroutine just started.
LEMMA NewBotShape ==
    ASSUME NEW t \in Tokens
    PROVE  /\ NewBot(t) \in Live /\ NewBot(t).tok = t /\ NewBot(t).off = 0
           /\ NewBot(t).batch = {} /\ NewBot(t).ctx
BY BotBounds DEF NewBot, Live

\* One goroutine becomes r.
Becomes(b, r) ==
    /\ bots' \in [BotIds -> BotRec] /\ bots'[b] = r
    /\ \A d \in BotIds : d # b => bots'[d] = bots[d]

LEMMA BotSet ==
    ASSUME bots \in [BotIds -> BotRec], NEW b \in BotIds, NEW r \in BotRec,
           bots' = [bots EXCEPT ![b] = r]
    PROVE  Becomes(b, r)
BY DEF Becomes

\* The next number is the first that no goroutine has.
LEMMA NextIs ==
    ASSUME NEW n \in 0..MaxBots, n < MaxBots, Started(n)
    PROVE  NextBot = n + 1 /\ n + 1 \in BotIds /\ bots[n + 1] = Absent
<1> DEFINE P(b) == bots[b] = Absent /\ \A d \in 1..(b - 1) : bots[d] # Absent
<1>1. n + 1 \in BotIds
  BY Numbers DEF BotIds
<1>2. \A d \in 1..n : d \in BotIds /\ ~(d > n)
  BY Numbers DEF BotIds
<1>3. bots[n + 1] = Absent /\ \A d \in 1..n : bots[d] # Absent
  BY <1>1, <1>2, Numbers DEF Started
<1>4. P(n + 1)
  BY <1>3, Numbers
<1>5. NextBot \in BotIds /\ P(NextBot)
  <2>1. \E b \in BotIds : P(b)
    BY <1>1, <1>4
  <2>2. NextBot = CHOOSE b \in BotIds : P(b)
    BY Zenon DEF NextBot
  <2> HIDE DEF P
  <2> QED
    BY <2>1, <2>2
<1>6. NextBot > n
  BY <1>5 DEF Started
<1>7. ~(NextBot > n + 1)
  <2> SUFFICES ASSUME NextBot > n + 1 PROVE FALSE
    OBVIOUS
  <2>1. NextBot \in Nat /\ n \in Nat
    BY <1>5, Numbers
  <2>2. n + 1 \in 1..(NextBot - 1)
    BY <2>1
  <2> QED
    BY <1>3, <1>5, <2>2
<1>8. NextBot \in Nat /\ n \in Nat
  BY <1>5, Numbers
<1>9. NextBot = n + 1
  BY <1>6, <1>7, <1>8
<1> QED
  BY <1>1, <1>3, <1>9

\* The top of the loop.
LEMMA CheckAt ==
    ASSUME bots \in [BotIds -> BotRec], NEW b \in BotIds, CheckCtx(b)
    PROVE  \/ ~bots[b].ctx /\ Becomes(b, Gone) /\ Present(b) /\ ~Present(b)'
           \/ /\ Becomes(b, bots'[b]) /\ Present(b) /\ Present(b)' /\ bots'[b] \in Live
              /\ bots[b].ctx /\ (bots'[b].ctx <=> bots[b].ctx)
              /\ bots'[b].tok = bots[b].tok /\ bots'[b].off = bots[b].off
              /\ bots'[b].batch = bots[b].batch
<1>1. bots[b] \in Live /\ Present(b)
  <2>1. bots[b].pc = "top"
    BY DEF CheckCtx
  <2> QED
    BY <2>1, Presence DEF Present
<1>2. CASE ~bots[b].ctx
  <2>1. bots' = [bots EXCEPT ![b] = Gone]
    BY <1>2 DEF CheckCtx
  <2>2. Becomes(b, Gone)
    BY <2>1, BotSet, RecShapes
  <2> QED
    BY <1>1, <1>2, <2>2, RecShapes DEF Becomes, Present
<1>3. CASE bots[b].ctx
  <2> DEFINE r == [bots[b] EXCEPT !.pc = "poll"]
  <2>1. bots' = [bots EXCEPT ![b] = r]
    BY <1>3 DEF CheckCtx
  <2>2. /\ r \in Live /\ r.tok = bots[b].tok /\ r.off = bots[b].off /\ r.batch = bots[b].batch
        /\ r.ctx = bots[b].ctx
    BY <1>1 DEF Live
  <2> HIDE DEF r
  <2>3. Becomes(b, r)
    BY <2>1, <2>2, BotSet, RecShapes
  <2>4. bots'[b] = r /\ Becomes(b, bots'[b])
    BY <2>3 DEF Becomes
  <2>5. Present(b)'
    BY <2>2, <2>4, RecShapes DEF Present
  <2> QED
    BY <1>1, <1>3, <2>2, <2>4, <2>5
<1> QED
  BY <1>2, <1>3

\* A poll returns, or fails; a command is carried out.
Stays(b) ==
    /\ Becomes(b, bots'[b]) /\ Present(b) /\ Present(b)' /\ bots'[b] \in Live /\ bots[b] \in Live
    /\ (bots'[b].ctx <=> bots[b].ctx) /\ bots'[b].tok = bots[b].tok

LEMMA StaysAt ==
    ASSUME bots \in [BotIds -> BotRec], NEW b \in BotIds, Present(b),
           NEW pc \in {"top", "poll", "handle"}, NEW o \in 0..(MaxCmds + 1),
           NEW B \in SUBSET (1..MaxCmds),
           bots' = [bots EXCEPT ![b] = [bots[b] EXCEPT !.off = o, !.batch = B, !.pc = pc]]
    PROVE  Stays(b) /\ bots'[b].off = o /\ bots'[b].batch = B
<1>1. bots[b] \in Live
  BY Presence
<1> DEFINE r == [bots[b] EXCEPT !.off = o, !.batch = B, !.pc = pc]
<1>2. r \in Live /\ r.tok = bots[b].tok /\ r.off = o /\ r.batch = B /\ r.ctx = bots[b].ctx
  BY <1>1 DEF Live
<1>3. bots' = [bots EXCEPT ![b] = r]
  OBVIOUS
<1> HIDE DEF r
<1>4. Becomes(b, r)
  BY <1>2, <1>3, BotSet, RecShapes
<1>5. bots'[b] = r /\ Becomes(b, bots'[b])
  BY <1>4 DEF Becomes
<1>6. Present(b)'
  BY <1>2, <1>5, RecShapes DEF Present
<1> QED
  BY <1>1, <1>2, <1>5, <1>6 DEF Stays

LEMMA ConfirmedIs ==
    ASSUME TypeOK, NEW b \in BotIds, Present(b)
    PROVE  LET t == bots[b].tok
           IN  /\ t \in Tokens /\ Confirmed(b) \in 1..(MaxCmds + 1) /\ Confirmed(b) \in Nat
               /\ Confirmed(b) >= conf[t] /\ Confirmed(b) >= bots[b].off
               /\ (Confirmed(b) = conf[t] \/ Confirmed(b) = bots[b].off)
               /\ sent[t] \in 0..MaxCmds /\ conf[t] \in 1..(MaxCmds + 1)
               /\ bots[b].off \in 0..(MaxCmds + 1) /\ bots[b].off <= sent[t] + 1
<1>1. /\ bots[b].tok \in Tokens /\ bots[b].off \in 0..(MaxCmds + 1)
  BY Presence DEF TypeOK
<1>2. /\ conf[bots[b].tok] \in 1..(MaxCmds + 1) /\ sent[bots[b].tok] \in 0..MaxCmds
      /\ bots[b].off <= sent[bots[b].tok] + 1
  BY <1>1 DEF TypeOK
<1> QED
  BY <1>1, <1>2, BotBounds DEF Confirmed

LEMMA GetAt ==
    ASSUME TypeOK, NEW b \in BotIds, GetUpdates(b)
    PROVE  /\ Stays(b) /\ bots'[b].off = bots[b].off
           /\ bots'[b].batch = Confirmed(b)..sent[bots[b].tok]
           /\ conf' = [conf EXCEPT ![bots[b].tok] = Confirmed(b)]
<1>1. bots \in [BotIds -> BotRec] /\ bots[b].pc = "poll"
  BY DEF TypeOK, GetUpdates
<1>2. Present(b) /\ bots[b] \in Live
  BY <1>1, Presence DEF Present
<1> DEFINE new == Confirmed(b)..sent[bots[b].tok]
           o == bots[b].off
           pc == After(new)
<1>3. new \in SUBSET (1..MaxCmds) /\ o \in 0..(MaxCmds + 1) /\ pc \in {"top", "poll", "handle"}
  <2>1. pc \in {"top", "poll", "handle"}
    BY DEF After
  <2> QED
    BY <1>2, <2>1, ConfirmedIs, BotBounds
<1>4. bots' = [bots EXCEPT ![b].batch = new, ![b].pc = pc]
  BY DEF GetUpdates
<1> HIDE DEF new, pc
<1>5. [bots[b] EXCEPT !.batch = new, !.pc = pc] = [bots[b] EXCEPT !.off = o, !.batch = new, !.pc = pc]
  BY <1>2 DEF Live
<1>6. bots' = [bots EXCEPT ![b] = [bots[b] EXCEPT !.batch = new, !.pc = pc]]
  BY <1>1, <1>4
<1>7. bots' = [bots EXCEPT ![b] = [bots[b] EXCEPT !.off = o, !.batch = new, !.pc = pc]]
  BY <1>5, <1>6
<1>8. Stays(b) /\ bots'[b].off = o /\ bots'[b].batch = new
  BY <1>1, <1>2, <1>3, <1>7, StaysAt
<1> QED
  BY <1>8 DEF GetUpdates, new

LEMMA FailsAt ==
    ASSUME TypeOK, NEW b \in BotIds, GetFails(b)
    PROVE  /\ Stays(b) /\ bots'[b].off = bots[b].off /\ bots'[b].batch = bots[b].batch
           /\ conf' \in {conf, [conf EXCEPT ![bots[b].tok] = Confirmed(b)]}
<1>1. bots \in [BotIds -> BotRec] /\ bots[b].pc = "poll"
  BY DEF TypeOK, GetFails
<1>2. Present(b) /\ bots[b] \in Live
  BY <1>1, Presence DEF Present
<1> DEFINE o == bots[b].off
           B == bots[b].batch
<1>3. o \in 0..(MaxCmds + 1) /\ B \in SUBSET (1..MaxCmds)
  BY <1>1, <1>2, Presence
<1>4. bots' = [bots EXCEPT ![b].pc = "top"]
  BY DEF GetFails
<1>5. [bots[b] EXCEPT !.pc = "top"] = [bots[b] EXCEPT !.off = o, !.batch = B, !.pc = "top"]
  BY <1>2 DEF Live
<1>6. bots' = [bots EXCEPT ![b] = [bots[b] EXCEPT !.pc = "top"]]
  BY <1>1, <1>4
<1>7. bots' = [bots EXCEPT ![b] = [bots[b] EXCEPT !.off = o, !.batch = B, !.pc = "top"]]
  BY <1>5, <1>6
<1> HIDE DEF o, B
<1>8. Stays(b) /\ bots'[b].off = o /\ bots'[b].batch = B
  BY <1>1, <1>2, <1>3, <1>7, StaysAt
<1> QED
  BY <1>8 DEF GetFails, o, B

LEMMA HandleAt ==
    ASSUME TypeOK, NEW b \in BotIds, NEW i \in 1..MaxCmds, Handle(b, i)
    PROVE  /\ Stays(b) /\ bots'[b].off = i + 1 /\ bots'[b].batch = bots[b].batch \ {i}
           /\ i \in bots[b].batch /\ \A j \in bots[b].batch : i <= j
<1>1. bots \in [BotIds -> BotRec] /\ bots[b].pc = "handle"
  BY DEF TypeOK, Handle
<1>2. Present(b) /\ bots[b] \in Live
  BY <1>1, Presence DEF Present
<1> DEFINE o == i + 1
           B == bots[b].batch \ {i}
           pc == After(B)
<1>3. o \in 0..(MaxCmds + 1) /\ B \in SUBSET (1..MaxCmds) /\ pc \in {"top", "poll", "handle"}
  <2>1. pc \in {"top", "poll", "handle"}
    BY DEF After
  <2>2. bots[b].batch \subseteq 1..MaxCmds
    BY <1>1, <1>2, Presence
  <2> QED
    BY <2>1, <2>2, BotBounds
<1>4. bots' = [bots EXCEPT ![b].off = o, ![b].batch = bots[b].batch \ {i}, ![b].pc = pc]
  BY DEF Handle, Offset
<1>5. bots' = [bots EXCEPT ![b] = [bots[b] EXCEPT !.off = o, !.batch = B, !.pc = pc]]
  <2> HIDE DEF o, pc
  <2> QED
    BY <1>1, <1>4
<1> HIDE DEF o, B, pc
<1>8. Stays(b) /\ bots'[b].off = o /\ bots'[b].batch = B
  BY <1>1, <1>2, <1>3, <1>5, StaysAt
<1> QED
  BY <1>8 DEF Handle, o, B

\* botCancel's goroutine is told to stop; nothing else about any changes.
LEMMA StopAt ==
    ASSUME TypeOK, NEW w \in Savers, StopBot(w)
    PROVE  /\ bots' \in [BotIds -> BotRec]
           /\ \A b \in BotIds :
                /\ Present(b)' <=> Present(b)
                /\ bots'[b] = Absent <=> bots[b] = Absent
                /\ Present(b) => /\ bots'[b].tok = bots[b].tok /\ bots'[b].off = bots[b].off
                                 /\ bots'[b].batch = bots[b].batch
                /\ Present(b) /\ b = botCancel => ~bots'[b].ctx
                /\ b # botCancel => bots'[b] = bots[b]
<1>1. bots \in [BotIds -> BotRec]
  BY DEF TypeOK
<1>2. \A b \in BotIds : bots'[b] = IF b = botCancel /\ Present(b)
                                   THEN [bots[b] EXCEPT !.ctx = FALSE] ELSE bots[b]
  BY DEF StopBot
<1>3. ASSUME NEW b \in BotIds
      PROVE  /\ bots'[b] \in BotRec
             /\ Present(b)' <=> Present(b)
             /\ bots'[b] = Absent <=> bots[b] = Absent
             /\ Present(b) => /\ bots'[b].tok = bots[b].tok /\ bots'[b].off = bots[b].off
                              /\ bots'[b].batch = bots[b].batch
             /\ Present(b) /\ b = botCancel => ~bots'[b].ctx
             /\ b # botCancel => bots'[b] = bots[b]
  <2>1. CASE b = botCancel /\ Present(b)
    <3> DEFINE r == [bots[b] EXCEPT !.ctx = FALSE]
    <3>1. bots[b] \in Live /\ bots[b] # Absent
      BY <1>1, <2>1, Presence
    <3>2. /\ r \in Live /\ r.tok = bots[b].tok /\ r.off = bots[b].off
          /\ r.batch = bots[b].batch /\ ~r.ctx
      BY <3>1 DEF Live
    <3>3. bots'[b] = r
      BY <1>2, <2>1
    <3> HIDE DEF r
    <3>4. Present(b)' /\ bots'[b] # Absent
      BY <3>2, <3>3, RecShapes DEF Present
    <3> QED
      BY <2>1, <3>1, <3>2, <3>3, <3>4, RecShapes
  <2>2. CASE ~(b = botCancel /\ Present(b))
    <3>1. bots'[b] = bots[b]
      BY <1>2, <2>2
    <3>2. Present(b)' <=> Present(b)
      BY <3>1 DEF Present
    <3> QED
      BY <1>1, <2>2, <3>1, <3>2
  <2> QED
    BY <2>1, <2>2
<1>4. bots' \in [BotIds -> BotRec]
  BY <1>3 DEF StopBot
<1> QED
  BY <1>3, <1>4

-----------------------------------------------------------------------------
(* Requests. *)

Asking == [pc: {"token", "ids", "live", "stop", "start"}, new: AnyToken, adm: BOOLEAN,
           tok: AnyToken]

LEMMA SaverShapes ==
    /\ Saver = {Idle} \cup Asking /\ Idle.pc = "idle"
    /\ \A r \in Asking : r.pc # "idle" /\ r.pc \in {"token", "ids", "live", "stop", "start"}
BY DEF Saver, Idle, Asking

\* One request goes on.
Asks(w, pc) ==
    /\ hk' \in [Savers -> Saver] /\ hk[w] \in Asking /\ hk'[w] \in Asking /\ hk'[w].pc = pc
    /\ hk'[w].new = hk[w].new /\ hk'[w].adm = hk[w].adm
    /\ \A v \in Savers : v # w => hk'[v] = hk[v]

Ends(w) == /\ hk' \in [Savers -> Saver] /\ hk'[w] = Idle /\ hk'[w].pc = "idle"
           /\ \A v \in Savers : v # w => hk'[v] = hk[v]

LEMMA AskAt ==
    ASSUME hk \in [Savers -> Saver], NEW w \in Savers, hk[w].pc # "idle",
           NEW pc \in {"token", "ids", "live", "stop", "start"},
           hk' = [hk EXCEPT ![w].pc = pc]
    PROVE  Asks(w, pc) /\ hk'[w].tok = hk[w].tok
<1>1. hk[w] \in Asking
  BY SaverShapes
<1> DEFINE r == [hk[w] EXCEPT !.pc = pc]
<1>2. r \in Asking /\ r.pc = pc /\ r.new = hk[w].new /\ r.adm = hk[w].adm /\ r.tok = hk[w].tok
  BY <1>1 DEF Asking
<1>3. hk' = [hk EXCEPT ![w] = r]
  OBVIOUS
<1> HIDE DEF r
<1>4. hk' \in [Savers -> Saver] /\ hk'[w] = r /\ \A v \in Savers : v # w => hk'[v] = hk[v]
  BY <1>2, <1>3, SaverShapes
<1> QED
  BY <1>1, <1>2, <1>4 DEF Asks

LEMMA EndAt ==
    ASSUME hk \in [Savers -> Saver], NEW w \in Savers, hk' = [hk EXCEPT ![w] = Idle]
    PROVE  Ends(w)
BY SaverShapes DEF Ends

LEMMA BeginAt ==
    ASSUME hk \in [Savers -> Saver], tg \in Setting, NEW w \in Savers,
           NEW t \in AnyToken \cup {Keep}, NEW a \in BOOLEAN, Begin(w, t, a)
    PROVE  /\ hk' \in [Savers -> Saver] /\ hk'[w] \in Asking /\ hk[w].pc = "idle"
           /\ \A v \in Savers : v # w => hk'[v] = hk[v]
           /\ \/ t = Keep /\ hk'[w].pc = "ids" /\ hk'[w].new = tg.tok
              \/ t # Keep /\ hk'[w].pc = "token" /\ hk'[w].new = t
           /\ hk'[w].adm = a
<1> DEFINE r == [pc |-> IF t = Keep THEN "ids" ELSE "token", new |-> IF t = Keep THEN tg.tok ELSE t,
                 adm |-> a, tok |-> NoToken]
<1>1. /\ r \in Asking /\ r.adm = a
      /\ \/ t = Keep /\ r.pc = "ids" /\ r.new = tg.tok
         \/ t # Keep /\ r.pc = "token" /\ r.new = t
  <2>1. tg.tok \in AnyToken /\ NoToken \in AnyToken
    BY DEF Setting, AnyToken
  <2> QED
    BY <2>1 DEF Asking
<1>2. hk' = [hk EXCEPT ![w] = r]
  BY DEF Begin
<1> HIDE DEF r
<1>3. hk' \in [Savers -> Saver] /\ hk'[w] = r /\ \A v \in Savers : v # w => hk'[v] = hk[v]
  BY <1>1, <1>2, SaverShapes
<1> QED
  BY <1>1, <1>3 DEF Begin

\* The first critical section of restartBot ends the request or goes on to the second.
LEMMA RestartAt ==
    ASSUME hk \in [Savers -> Saver], tg \in Setting, NEW w \in Savers, StopBot(w)
    PROVE  \/ tg.tok = NoToken /\ Ends(w)
           \/ Asks(w, "start") /\ hk'[w].tok = tg.tok /\ tg.tok \in Tokens
<1>1. hk[w] \in Asking
  <2>1. hk[w].pc = "stop"
    BY DEF StopBot
  <2> QED
    BY <2>1, SaverShapes
<1>2. CASE tg.tok = NoToken
  <2>1. hk' = [hk EXCEPT ![w] = Idle]
    BY <1>2 DEF StopBot
  <2> QED
    BY <1>2, <2>1, EndAt
<1>3. CASE tg.tok # NoToken
  <2> DEFINE r == [hk[w] EXCEPT !.pc = "start", !.tok = tg.tok]
  <2>1. tg.tok \in Tokens /\ tg.tok \in AnyToken
    BY <1>3 DEF Setting, AnyToken
  <2>2. /\ r \in Asking /\ r.pc = "start" /\ r.new = hk[w].new /\ r.adm = hk[w].adm
        /\ r.tok = tg.tok
    BY <1>1, <2>1 DEF Asking
  <2>3. hk' = [hk EXCEPT ![w] = r]
    BY <1>3 DEF StopBot
  <2> HIDE DEF r
  <2>4. hk' \in [Savers -> Saver] /\ hk'[w] = r /\ \A v \in Savers : v # w => hk'[v] = hk[v]
    BY <2>2, <2>3, SaverShapes
  <2> QED
    BY <1>1, <2>1, <2>2, <2>4 DEF Asks
<1> QED
  BY <1>2, <1>3

-----------------------------------------------------------------------------
(* Counting goroutines. *)

LEMMA BusyGrows ==
    ASSUME IsFiniteSet(Busy), NEW w \in Savers, hk[w].pc = "idle", hk'[w].pc # "idle",
           \A v \in Savers : v # w => hk'[v] = hk[v]
    PROVE  IsFiniteSet(Busy') /\ Cardinality(Busy') = Cardinality(Busy) + 1
<1>1. Busy' = Busy \cup {w} /\ w \notin Busy
  BY DEF Busy
<1> QED
  BY <1>1, FS_AddElement

LEMMA BusyShrinks ==
    ASSUME IsFiniteSet(Busy), NEW w \in Savers, hk[w].pc # "idle", hk'[w].pc = "idle",
           \A v \in Savers : v # w => hk'[v] = hk[v]
    PROVE  IsFiniteSet(Busy') /\ Cardinality(Busy') = Cardinality(Busy) - 1
<1>1. Busy' = Busy \ {w} /\ w \in Busy
  BY DEF Busy
<1> QED
  BY <1>1, FS_RemoveElement

LEMMA BusySome ==
    ASSUME IsFiniteSet(Busy)
    PROVE  /\ Cardinality(Busy) \in Nat
           /\ \A w \in Savers : hk[w].pc # "idle" => Cardinality(Busy) >= 1
<1>1. Cardinality(Busy) \in Nat
  BY FS_CardinalityType
<1>2. ASSUME NEW w \in Savers, hk[w].pc # "idle" PROVE Cardinality(Busy) # 0
  <2>1. w \in Busy
    BY <1>2 DEF Busy
  <2> QED
    BY <2>1, FS_EmptySet
<1> QED
  BY <1>1, <1>2

\* The goroutines stay as many as they are, and so do the requests under way.
LEMMA CountKept ==
    ASSUME CountOK, Busy' = Busy, changes' = changes,
           \A b \in BotIds : bots'[b] = Absent <=> bots[b] = Absent
    PROVE  CountOK'
<1>1. PICK n \in 0..MaxBots : Started(n) /\ n + Cardinality(Busy) <= 1 + changes
  BY DEF CountOK
<1>2. Started(n)'
  BY <1>1 DEF Started
<1>3. IsFiniteSet(Busy') /\ n + Cardinality(Busy') <= 1 + changes'
  BY <1>1 DEF CountOK
<1> QED
  BY <1>2, <1>3 DEF CountOK

\* A request goes on; it ends; one begins.
LEMMA CountAsks ==
    ASSUME CountOK, NEW w \in Savers, NEW pc, hk[w] \in Asking, Asks(w, pc), changes' = changes,
           \A b \in BotIds : bots'[b] = Absent <=> bots[b] = Absent
    PROVE  CountOK'
<1>1. \A v \in Savers : hk'[v].pc # "idle" <=> hk[v].pc # "idle"
  BY SaverShapes DEF Asks
<1>2. Busy' = Busy
  BY <1>1 DEF Busy
<1> QED
  BY <1>2, CountKept

LEMMA CountEnds ==
    ASSUME CountOK, changes \in Nat, NEW w \in Savers, hk[w].pc # "idle", Ends(w), changes' = changes,
           \A b \in BotIds : bots'[b] = Absent <=> bots[b] = Absent
    PROVE  CountOK'
<1>1. PICK n \in 0..MaxBots : Started(n) /\ n + Cardinality(Busy) <= 1 + changes
  BY DEF CountOK
<1>2. IsFiniteSet(Busy) /\ Cardinality(Busy) \in Nat
  BY BusySome DEF CountOK
<1>3. IsFiniteSet(Busy') /\ Cardinality(Busy') = Cardinality(Busy) - 1
  BY <1>2, BusyShrinks DEF Ends
<1>4. Started(n)'
  BY <1>1 DEF Started
<1>5. n + Cardinality(Busy') <= 1 + changes'
  BY <1>1, <1>2, <1>3, Numbers
<1> QED
  BY <1>3, <1>4, <1>5 DEF CountOK

LEMMA CountBegins ==
    ASSUME CountOK, changes \in Nat, NEW w \in Savers, hk[w].pc = "idle", hk'[w].pc # "idle",
           \A v \in Savers : v # w => hk'[v] = hk[v], changes' = changes + 1, bots' = bots
    PROVE  CountOK'
<1>1. PICK n \in 0..MaxBots : Started(n) /\ n + Cardinality(Busy) <= 1 + changes
  BY DEF CountOK
<1>2. IsFiniteSet(Busy) /\ Cardinality(Busy) \in Nat
  BY BusySome DEF CountOK
<1>3. IsFiniteSet(Busy') /\ Cardinality(Busy') = Cardinality(Busy) + 1
  BY <1>2, BusyGrows
<1>4. Started(n)'
  BY <1>1 DEF Started
<1>5. n + Cardinality(Busy') <= 1 + changes'
  BY <1>1, <1>2, <1>3, Numbers
<1> QED
  BY <1>3, <1>4, <1>5 DEF CountOK

\* A goroutine is started, for the token the request read.
LEMMA StartAt ==
    ASSUME TypeOK, CountOK, StartsOK, NEW w \in Savers, StartBot(w)
    PROVE  /\ Ends(w) /\ CountOK' /\ hk[w].tok \in Tokens
           /\ \E b \in BotIds :
                /\ botCancel' = b /\ bots[b] = Absent /\ Becomes(b, NewBot(hk[w].tok))
                /\ Present(b)' /\ ~Present(b)
<1>1. /\ bots \in [BotIds -> BotRec] /\ hk \in [Savers -> Saver] /\ hk[w].pc = "start"
      /\ changes \in Nat /\ changes <= MaxChanges /\ changes' = changes
      /\ hk' = [hk EXCEPT ![w] = Idle]
      /\ bots' = [bots EXCEPT ![NextBot] = NewBot(hk[w].tok)] /\ botCancel' = NextBot
  BY BotBounds DEF TypeOK, StartBot
<1>2. hk[w].tok \in Tokens
  BY <1>1 DEF StartsOK
<1>3. PICK n \in 0..MaxBots : Started(n) /\ n + Cardinality(Busy) <= 1 + changes
  BY DEF CountOK
<1>4. IsFiniteSet(Busy) /\ Cardinality(Busy) \in Nat /\ Cardinality(Busy) >= 1
  BY <1>1, BusySome DEF CountOK
<1>5. n < MaxBots
  BY <1>1, <1>3, <1>4, BotBounds DEF MaxBots
<1>6. NextBot = n + 1 /\ n + 1 \in BotIds /\ bots[n + 1] = Absent
  BY <1>3, <1>5, NextIs
<1>7. Ends(w)
  BY <1>1, EndAt
<1> DEFINE r == NewBot(hk[w].tok)
           b == n + 1
<1>8. r \in Live /\ r \in BotRec /\ r # Absent
  BY <1>2, NewBotShape, RecShapes
<1> HIDE DEF r
<1>9. Becomes(b, r)
  <2>1. bots' = [bots EXCEPT ![b] = r]
    BY <1>1, <1>6 DEF r
  <2> QED
    BY <1>1, <1>6, <1>8, <2>1, BotSet
<1>10. Present(b)' /\ ~Present(b)
  <2>1. Present(b)'
    BY <1>8, <1>9, RecShapes DEF Becomes, Present
  <2>2. ~Present(b)
    BY <1>6, RecShapes DEF Present
  <2> QED
    BY <2>1, <2>2
<1>11. CountOK'
  <2>1. \A d \in BotIds : bots'[d] = Absent <=> d > n + 1
    <3> TAKE d \in BotIds
    <3>1. CASE d = b
      BY <1>8, <1>9, <3>1, Numbers DEF Becomes
    <3>2. CASE d # b
      <4>1. bots'[d] = bots[d]
        BY <1>9, <3>2 DEF Becomes
      <4>2. d > n <=> d > n + 1
        BY <3>2, Numbers
      <4> QED
        BY <1>3, <4>1, <4>2 DEF Started
    <3> QED
      BY <3>1, <3>2
  <2>2. Started(n + 1)'
    BY <2>1 DEF Started
  <2>3. IsFiniteSet(Busy') /\ Cardinality(Busy') = Cardinality(Busy) - 1
    BY <1>1, <1>4, <1>7, BusyShrinks DEF Ends
  <2>4. n + 1 \in 0..MaxBots /\ (n + 1) + Cardinality(Busy') <= 1 + changes'
    BY <1>1, <1>3, <1>4, <1>5, <2>3, Numbers
  <2> QED
    BY <2>2, <2>3, <2>4 DEF CountOK
<1> QED
  BY <1>1, <1>2, <1>6, <1>7, <1>9, <1>10, <1>11 DEF r

\* The panel starts again: every goroutine is gone, and one is started for the stored token.
Booted ==
    \/ db.tok = NoToken /\ botCancel' = 0 /\ \A d \in BotIds : ~Present(d)'
    \/ /\ db.tok \in Tokens
       /\ \E b \in BotIds : /\ botCancel' = b /\ bots'[b] = NewBot(db.tok) /\ Present(b)'
                            /\ \A d \in BotIds : d # b => ~Present(d)'

LEMMA BootAt ==
    ASSUME TypeOK, CountOK, PanelRestart
    PROVE  bots' \in [BotIds -> BotRec] /\ CountOK' /\ Booted
<1>1. /\ bots \in [BotIds -> BotRec] /\ db \in Setting /\ changes \in Nat /\ changes < MaxChanges
      /\ changes' = changes + 1
  BY BotBounds DEF TypeOK, PanelRestart
<1>2. PICK n \in 0..MaxBots : Started(n) /\ n + Cardinality(Busy) <= 1 + changes
  BY DEF CountOK
<1>3. Cardinality(Busy) \in Nat
  BY BusySome DEF CountOK
<1>4. n < MaxBots
  BY <1>1, <1>2, <1>3, BotBounds DEF MaxBots
<1>5. NextBot = n + 1 /\ n + 1 \in BotIds /\ bots[n + 1] = Absent
  BY <1>2, <1>4, NextIs
<1> DEFINE b == n + 1
           r == NewBot(db.tok)
<1>6. /\ botCancel' = IF db.tok = NoToken THEN 0 ELSE b
      /\ bots' = [d \in BotIds |-> IF db.tok # NoToken /\ d = b THEN r
                                   ELSE IF Present(d) THEN Gone ELSE bots[d]]
  BY <1>5 DEF PanelRestart, Boot
<1>7. db.tok # NoToken => db.tok \in Tokens /\ r \in Live
  BY <1>1, NewBotShape DEF Setting, AnyToken
<1> HIDE DEF r
<1>8. \A d \in BotIds : d # b \/ db.tok = NoToken =>
          bots'[d] = (IF Present(d) THEN Gone ELSE bots[d])
  BY <1>6
<1>9. \A d \in BotIds : d # b \/ db.tok = NoToken =>
          bots'[d] \in BotRec /\ ~Present(d)' /\ (bots'[d] = Absent <=> bots[d] = Absent)
  <2> SUFFICES ASSUME NEW d \in BotIds, d # b \/ db.tok = NoToken
               PROVE  bots'[d] \in BotRec /\ ~Present(d)' /\ (bots'[d] = Absent <=> bots[d] = Absent)
    OBVIOUS
  <2>1. CASE Present(d)
    BY <1>1, <1>8, <2>1, Presence, RecShapes DEF Present
  <2>2. CASE ~Present(d)
    <3>1. bots'[d] = bots[d]
      BY <1>8, <2>2
    <3> QED
      BY <1>1, <2>2, <3>1 DEF Present
  <2> QED
    BY <2>1, <2>2
<1>10. db.tok # NoToken => bots'[b] = r /\ bots'[b] \in BotRec /\ bots'[b] # Absent /\ Present(b)'
  <2> SUFFICES ASSUME db.tok # NoToken
               PROVE  bots'[b] = r /\ bots'[b] \in BotRec /\ bots'[b] # Absent /\ Present(b)'
    OBVIOUS
  <2>1. bots'[b] = r
    BY <1>5, <1>6
  <2> QED
    BY <1>7, <2>1, RecShapes DEF Present
<1>11. bots' \in [BotIds -> BotRec]
  <2>1. \A d \in BotIds : bots'[d] \in BotRec
    BY <1>9, <1>10
  <2> QED
    BY <1>6, <2>1
<1>12. CountOK'
  <2>1. Busy' = {}
    BY SaverShapes DEF PanelRestart, Busy
  <2>2. IsFiniteSet(Busy') /\ Cardinality(Busy') = 0
    BY <2>1, FS_EmptySet
  <2>3. CASE db.tok = NoToken
    <3>1. Started(n)'
      BY <1>2, <1>9, <2>3 DEF Started
    <3>2. n + Cardinality(Busy') <= 1 + changes'
      BY <1>1, <1>2, <1>3, <2>2, Numbers
    <3> QED
      BY <2>2, <3>1, <3>2 DEF CountOK
  <2>4. CASE db.tok # NoToken
    <3>1. \A d \in BotIds : bots'[d] = Absent <=> d > n + 1
      <4> TAKE d \in BotIds
      <4>1. CASE d = b
        BY <1>10, <2>4, <4>1, Numbers
      <4>2. CASE d # b
        <5>1. d > n <=> d > n + 1
          BY <4>2, Numbers
        <5> QED
          BY <1>2, <1>9, <4>2, <5>1 DEF Started
      <4> QED
        BY <4>1, <4>2
    <3>2. Started(n + 1)'
      BY <3>1 DEF Started
    <3>3. n + 1 \in 0..MaxBots /\ (n + 1) + Cardinality(Busy') <= 1 + changes'
      BY <1>1, <1>2, <1>3, <1>4, <2>2, Numbers
    <3> QED
      BY <2>2, <3>2, <3>3 DEF CountOK
  <2> QED
    BY <2>3, <2>4
<1>13. Booted
  <2>1. CASE db.tok = NoToken
    BY <1>6, <1>9, <2>1 DEF Booted
  <2>2. CASE db.tok # NoToken
    <3>1. botCancel' = b /\ b \in BotIds
      BY <1>5, <1>6, <2>2
    <3>2. bots'[b] = NewBot(db.tok) /\ Present(b)' /\ db.tok \in Tokens
      BY <1>7, <1>10, <2>2 DEF r
    <3>3. \A d \in BotIds : d # b => ~Present(d)'
      BY <1>9
    <3> QED
      BY <3>1, <3>2, <3>3 DEF Booted
  <2> QED
    BY <2>1, <2>2
<1> QED
  BY <1>11, <1>12, <1>13

-----------------------------------------------------------------------------
(* Types. *)

SettingsOK == tg \in Setting /\ db \in Setting /\ hk \in [Savers -> Saver]
GoOK       == /\ bots \in [BotIds -> BotRec] /\ botCancel \in 0..MaxBots
              /\ botCancel # 0 => bots[botCancel] # Absent
              /\ \A b \in BotIds : Present(b) => bots[b].off <= sent[bots[b].tok] + 1
TelegramOK == /\ sent \in [Tokens -> 0..MaxCmds] /\ conf \in [Tokens -> 1..(MaxCmds + 1)]
              /\ changes \in 0..MaxChanges
RunsOK     == ran \in [Commands -> 0..RunCap] /\ refused \subseteq Commands
MarksOK    == /\ exposed \subseteq Commands /\ leaked \subseteq BotIds
              /\ stale \in BOOLEAN /\ mixed \in BOOLEAN

BaseInv == TypeOK /\ CountOK /\ StartsOK /\ BatchesOK

LEMMA TypeParts ==
    TypeOK <=> SettingsOK /\ GoOK /\ TelegramOK /\ RunsOK /\ MarksOK
BY DEF TypeOK, SettingsOK, GoOK, TelegramOK, RunsOK, MarksOK

LEMMA TypePartsNext ==
    SettingsOK' /\ GoOK' /\ TelegramOK' /\ RunsOK' /\ MarksOK' => TypeOK'
BY DEF TypeOK, SettingsOK, GoOK, TelegramOK, RunsOK, MarksOK

LEMMA HoldsIn ==
    ASSUME TypeOK, NEW b \in BotIds
    PROVE  Holds(b) \subseteq Commands
<1>1. CASE Present(b)
  <2>1. bots[b].tok \in Tokens
    BY <1>1, Presence DEF TypeOK
  <2> QED
    BY <2>1, Numbers DEF Holds
<1>2. CASE ~Present(b)
  BY <1>2 DEF Holds
<1> QED
  BY <1>1, <1>2

LEMMA BaseInit == Init => BaseInv
<1> SUFFICES ASSUME Init PROVE BaseInv
  OBVIOUS
<1>1. /\ db \in Setting /\ tg = db /\ hk = [w \in Savers |-> Idle]
      /\ botCancel = IF db.tok = NoToken THEN 0 ELSE 1
      /\ bots = [b \in BotIds |-> IF b = botCancel THEN NewBot(db.tok) ELSE Absent]
  BY DEF Init
<1>2. db.tok \in AnyToken /\ 1 \in BotIds /\ botCancel \in 0..1 /\ 0 \notin BotIds
  BY <1>1, Numbers DEF Setting, BotIds
<1> DEFINE r == NewBot(db.tok)
<1>3. botCancel # 0 => /\ r \in Live /\ r \in BotRec /\ r # Absent /\ db.tok \in Tokens
                       /\ r.tok = db.tok /\ r.off = 0 /\ r.batch = {}
  <2> SUFFICES ASSUME botCancel # 0
               PROVE  /\ r \in Live /\ r \in BotRec /\ r # Absent /\ db.tok \in Tokens
                      /\ r.tok = db.tok /\ r.off = 0 /\ r.batch = {}
    OBVIOUS
  <2>1. db.tok \in Tokens
    BY <1>1, <1>2 DEF AnyToken
  <2> QED
    BY <2>1, NewBotShape, RecShapes
<1> HIDE DEF r
<1>4. \A b \in BotIds : bots[b] = IF b = botCancel THEN r ELSE Absent
  BY <1>1 DEF r
<1>5. bots \in [BotIds -> BotRec]
  <2>1. \A b \in BotIds : bots[b] \in BotRec
    BY <1>2, <1>3, <1>4, RecShapes
  <2> QED
    BY <1>1, <2>1
<1>6. \A b \in BotIds : Present(b) => b = botCancel /\ botCancel # 0
  BY <1>2, <1>4, RecShapes DEF Present
<1>7. SettingsOK /\ StartsOK
  BY <1>1, SaverShapes DEF SettingsOK, StartsOK
<1>8. TelegramOK
  BY BotBounds DEF Init, TelegramOK
<1>9. RunsOK
  BY DEF Init, RunsOK, RunCap
<1>10. MarksOK
  BY DEF Init, MarksOK
<1>11. GoOK
  <2>1. botCancel \in 0..MaxBots
    BY <1>2, Numbers
  <2>2. botCancel # 0 => bots[botCancel] # Absent
    BY <1>2, <1>3, <1>4
  <2>3. ASSUME NEW b \in BotIds, Present(b) PROVE bots[b].off <= sent[bots[b].tok] + 1
    <3>1. bots[b].tok \in Tokens /\ bots[b].off = 0
      BY <1>3, <1>4, <1>6, <2>3
    <3>2. sent[bots[b].tok] = 0
      BY <3>1 DEF Init
    <3> QED
      BY <3>1, <3>2
  <2> QED
    BY <1>5, <2>1, <2>2, <2>3 DEF GoOK
<1>12. BatchesOK
  BY <1>3, <1>4, <1>6 DEF BatchesOK
<1>13. CountOK
  <2>1. Busy = {}
    BY <1>1, SaverShapes DEF Busy
  <2>2. IsFiniteSet(Busy) /\ Cardinality(Busy) = 0
    BY <2>1, FS_EmptySet
  <2>3. Started(botCancel)
    <3>1. \A b \in BotIds : bots[b] = Absent <=> b # botCancel
      BY <1>2, <1>3, <1>4
    <3>2. \A b \in BotIds : b # botCancel <=> b > botCancel
      BY <1>2, Numbers DEF BotIds
    <3> QED
      BY <3>1, <3>2 DEF Started
  <2>4. botCancel \in 0..MaxBots /\ botCancel + Cardinality(Busy) <= 1 + changes
    BY <1>2, <2>2, Numbers DEF Init
  <2> QED
    BY <2>2, <2>3, <2>4 DEF CountOK
<1> QED
  BY <1>7, <1>8, <1>9, <1>10, <1>11, <1>12, <1>13, TypeParts DEF BaseInv

\* A step of a request that starts and stops no goroutine.
LEMMA BaseAsk ==
    ASSUME BaseInv, SettingsOK', StartsOK', CountOK', mixed' \in BOOLEAN, changes' \in 0..MaxChanges,
           UNCHANGED <<botCancel, bots, telegram, ran, refused, leaked, stale, exposed>>
    PROVE  BaseInv'
<1>1. SettingsOK /\ GoOK /\ TelegramOK /\ RunsOK /\ MarksOK /\ BatchesOK
  BY TypeParts DEF BaseInv
<1>2. GoOK' /\ BatchesOK'
  BY <1>1 DEF GoOK, BatchesOK, Present, telegram
<1>3. TelegramOK' /\ RunsOK'
  BY <1>1 DEF TelegramOK, RunsOK, telegram
<1>4. MarksOK'
  BY <1>1 DEF MarksOK
<1> QED
  BY <1>2, <1>3, <1>4, TypePartsNext DEF BaseInv

LEMMA BaseSaver ==
    ASSUME BaseInv, NEW w \in Savers,
           \/ \E t \in AnyToken \cup {Keep}, a \in BOOLEAN : Begin(w, t, a)
           \/ SaveToken(w) \/ SaveIds(w) \/ SaveFails(w) \/ SetTelegram(w)
    PROVE  BaseInv'
<1>1. /\ hk \in [Savers -> Saver] /\ tg \in Setting /\ db \in Setting /\ StartsOK /\ CountOK
      /\ changes \in 0..MaxChanges /\ changes \in Nat /\ mixed \in BOOLEAN
  BY BotBounds DEF BaseInv, TypeOK
<1>2. CASE \E t \in AnyToken \cup {Keep}, a \in BOOLEAN : Begin(w, t, a)
  <2> PICK t \in AnyToken \cup {Keep}, a \in BOOLEAN : Begin(w, t, a)
    BY <1>2
  <2>1. /\ hk' \in [Savers -> Saver] /\ hk'[w] \in Asking /\ hk[w].pc = "idle"
        /\ \A v \in Savers : v # w => hk'[v] = hk[v]
        /\ hk'[w].pc \in {"ids", "token"}
    BY <1>1, BeginAt
  <2>2. changes < MaxChanges /\ changes' = changes + 1 /\ tg' = tg /\ db' = db /\ bots' = bots
    BY DEF Begin
  <2>3. SettingsOK'
    BY <1>1, <2>1, <2>2 DEF SettingsOK
  <2>4. StartsOK'
    BY <1>1, <2>1 DEF StartsOK
  <2>5. CountOK'
    BY <1>1, <2>1, <2>2, CountBegins
  <2>6. mixed' \in BOOLEAN
    BY Zenon DEF Begin
  <2>7. changes' \in 0..MaxChanges
    BY <1>1, <2>2, BotBounds
  <2> QED
    BY <2>3, <2>4, <2>5, <2>6, <2>7, BaseAsk DEF Begin
<1>3. ASSUME NEW pc \in {"ids", "live", "stop"}, hk[w].pc # "idle", hk' = [hk EXCEPT ![w].pc = pc],
             tg' \in Setting, db' \in Setting,
             UNCHANGED <<botCancel, bots, telegram, changes, history>>
      PROVE  BaseInv'
  <2>1. Asks(w, pc) /\ hk[w] \in Asking
    BY <1>1, <1>3, AskAt DEF Asks
  <2>2. SettingsOK'
    BY <1>3, <2>1 DEF SettingsOK, Asks
  <2>3. StartsOK'
    BY <1>1, <1>3, <2>1 DEF StartsOK, Asks
  <2>4. CountOK'
    BY <1>1, <1>3, <2>1, CountAsks
  <2>5. mixed' \in BOOLEAN
    BY <1>1, <1>3 DEF history
  <2>6. changes' \in 0..MaxChanges
    BY <1>1, <1>3
  <2> QED
    BY <1>3, <2>2, <2>3, <2>4, <2>5, <2>6, BaseAsk DEF history
<1>4. hk[w].pc # "idle" => hk[w].new \in AnyToken /\ hk[w].adm \in BOOLEAN
  <2> SUFFICES ASSUME hk[w].pc # "idle" PROVE hk[w].new \in AnyToken /\ hk[w].adm \in BOOLEAN
    OBVIOUS
  <2>1. hk[w] \in Asking
    BY <1>1, SaverShapes
  <2>2. hk[w].new \in AnyToken
    BY <2>1 DEF Asking
  <2>3. hk[w].adm \in BOOLEAN
    BY <2>1 DEF Asking
  <2> QED
    BY <2>2, <2>3
<1>5. CASE SaveToken(w)
  <2>1. db' \in Setting
    BY <1>1, <1>4, <1>5 DEF SaveToken, Setting
  <2> QED
    BY <1>1, <1>3, <1>5, <2>1 DEF SaveToken
<1>6. CASE SaveIds(w)
  <2>1. db' \in Setting
    BY <1>1, <1>4, <1>6 DEF SaveIds, Setting
  <2> QED
    BY <1>1, <1>3, <1>6, <2>1 DEF SaveIds
<1>7. CASE SetTelegram(w)
  <2>1. tg' \in Setting
    BY <1>1, <1>4, <1>7 DEF SetTelegram, Setting
  <2> QED
    BY <1>1, <1>3, <1>7, <2>1 DEF SetTelegram
<1>8. CASE SaveFails(w)
  <2>1. Ends(w) /\ hk[w].pc # "idle" /\ hk[w].pc # "start"
    BY <1>1, <1>8, EndAt DEF SaveFails
  <2>2. SettingsOK'
    BY <1>1, <1>8, <2>1 DEF SettingsOK, SaveFails, Ends
  <2>3. StartsOK'
    BY <1>1, <2>1 DEF StartsOK, Ends
  <2>4. CountOK'
    BY <1>1, <1>8, <2>1, CountEnds DEF SaveFails
  <2>5. mixed' \in BOOLEAN
    BY <1>8, Zenon DEF SaveFails
  <2>6. changes' \in 0..MaxChanges
    BY <1>1, <1>8 DEF SaveFails
  <2> QED
    BY <1>8, <2>2, <2>3, <2>4, <2>5, <2>6, BaseAsk DEF SaveFails
<1> QED
  BY <1>2, <1>5, <1>6, <1>7, <1>8

\* A step of a goroutine.
LEMMA BaseGo ==
    ASSUME BaseInv, NEW b \in BotIds, bots' \in [BotIds -> BotRec],
           \A d \in BotIds : d # b => bots'[d] = bots[d],
           bots[b] # Absent, bots'[b] # Absent,
           Present(b)' => /\ bots'[b].off <= sent[bots'[b].tok] + 1
                          /\ \A i \in bots'[b].batch : bots'[b].off <= i /\ i <= sent[bots'[b].tok],
           conf' \in [Tokens -> 1..(MaxCmds + 1)], RunsOK', exposed' \subseteq Commands,
           UNCHANGED <<tg, db, botCancel, hk, sent, changes, leaked, stale, mixed>>
    PROVE  BaseInv'
<1>1. SettingsOK /\ GoOK /\ TelegramOK /\ MarksOK /\ BatchesOK /\ CountOK /\ StartsOK
  BY TypeParts DEF BaseInv
<1>2. SettingsOK' /\ StartsOK' /\ TelegramOK'
  BY <1>1 DEF SettingsOK, StartsOK, TelegramOK
<1>3. MarksOK'
  BY <1>1 DEF MarksOK
<1>4. \A d \in BotIds : d # b => (Present(d)' <=> Present(d))
  BY DEF Present
<1>5. \A d \in BotIds : bots'[d] = Absent <=> bots[d] = Absent
  OBVIOUS
<1>6. GoOK'
  <2>1. botCancel # 0 => botCancel \in BotIds
    BY <1>1 DEF GoOK, BotIds
  <2>2. botCancel' # 0 => bots'[botCancel'] # Absent
    BY <1>1, <1>5, <2>1 DEF GoOK
  <2>3. \A d \in BotIds : Present(d)' => bots'[d].off <= sent'[bots'[d].tok] + 1
    BY <1>1, <1>4 DEF GoOK
  <2> QED
    BY <1>1, <2>2, <2>3 DEF GoOK
<1>7. BatchesOK'
  BY <1>1, <1>4 DEF BatchesOK
<1>8. CountOK'
  <2>1. Busy' = Busy
    BY DEF Busy
  <2> QED
    BY <1>1, <1>5, <2>1, CountKept
<1> QED
  BY <1>2, <1>3, <1>6, <1>7, <1>8, TypePartsNext DEF BaseInv

LEMMA BaseLoop ==
    ASSUME BaseInv, NEW b \in BotIds,
           CheckCtx(b) \/ GetUpdates(b) \/ GetFails(b) \/ \E i \in 1..MaxCmds : Handle(b, i)
    PROVE  BaseInv'
<1>1. /\ TypeOK /\ bots \in [BotIds -> BotRec] /\ TelegramOK /\ RunsOK /\ MarksOK
      /\ BatchesOK /\ GoOK
  BY TypeParts DEF BaseInv, TypeOK
<1>2. CASE CheckCtx(b)
  <2>1. /\ bots' \in [BotIds -> BotRec] /\ \A d \in BotIds : d # b => bots'[d] = bots[d]
        /\ Present(b) /\ bots[b] # Absent /\ bots'[b] # Absent
    BY <1>1, <1>2, CheckAt, Presence, RecShapes DEF Becomes
  <2>2. Present(b)' => /\ bots'[b].tok = bots[b].tok /\ bots'[b].off = bots[b].off
                       /\ bots'[b].batch = bots[b].batch
    BY <1>1, <1>2, CheckAt
  <2>3. Present(b)' => /\ bots'[b].off <= sent[bots'[b].tok] + 1
                       /\ \A i \in bots'[b].batch : bots'[b].off <= i /\ i <= sent[bots'[b].tok]
    BY <1>1, <2>1, <2>2 DEF GoOK, BatchesOK
  <2>4. RunsOK' /\ conf' \in [Tokens -> 1..(MaxCmds + 1)] /\ exposed' \subseteq Commands
    BY <1>1, <1>2 DEF CheckCtx, RunsOK, TelegramOK, MarksOK, telegram, history
  <2>5. UNCHANGED <<tg, db, botCancel, hk, sent, changes, leaked, stale, mixed>>
    BY <1>2 DEF CheckCtx, telegram, history
  <2> QED
    BY <2>1, <2>3, <2>4, <2>5, BaseGo
<1>3. ASSUME Stays(b), bots'[b].off <= sent[bots[b].tok] + 1,
             \A i \in bots'[b].batch : bots'[b].off <= i /\ i <= sent[bots[b].tok],
             conf' \in [Tokens -> 1..(MaxCmds + 1)], RunsOK', exposed' \subseteq Commands,
             UNCHANGED <<tg, db, botCancel, hk, sent, changes, leaked, stale, mixed>>
      PROVE  BaseInv'
  <2>1. bots' \in [BotIds -> BotRec] /\ \A d \in BotIds : d # b => bots'[d] = bots[d]
    BY <1>3 DEF Stays, Becomes
  <2>2. bots[b] # Absent /\ bots'[b] # Absent /\ bots'[b].tok = bots[b].tok
    BY <1>3, RecShapes DEF Stays
  <2>3. /\ bots'[b].off <= sent[bots'[b].tok] + 1
        /\ \A i \in bots'[b].batch : bots'[b].off <= i /\ i <= sent[bots'[b].tok]
    BY <1>3, <2>2
  <2> QED
    BY <1>3, <2>1, <2>2, <2>3, BaseGo
<1>4. CASE GetUpdates(b)
  <2>1. /\ Stays(b) /\ bots'[b].off = bots[b].off
        /\ bots'[b].batch = Confirmed(b)..sent[bots[b].tok]
        /\ conf' = [conf EXCEPT ![bots[b].tok] = Confirmed(b)]
    BY <1>1, <1>4, GetAt
  <2>2. Present(b) /\ bots[b].tok \in Tokens
    BY <1>1, <2>1, Presence DEF Stays
  <2> DEFINE c == Confirmed(b)
  <2>3. /\ c \in 1..(MaxCmds + 1) /\ c >= bots[b].off /\ bots[b].off <= sent[bots[b].tok] + 1
        /\ sent[bots[b].tok] \in 0..MaxCmds /\ bots[b].off \in 0..(MaxCmds + 1)
    BY <1>1, <2>2, ConfirmedIs
  <2>4. conf' \in [Tokens -> 1..(MaxCmds + 1)]
    BY <1>1, <2>1, <2>2, <2>3 DEF TelegramOK
  <2>5. exposed' \subseteq Commands
    <3>1. {<<bots[b].tok, i>> : i \in c..sent[bots[b].tok]} \subseteq Commands
      BY <2>2, <2>3, BotBounds, Numbers
    <3>2. exposed' \subseteq exposed \cup {<<bots[b].tok, i>> : i \in c..sent[bots[b].tok]}
      BY <1>4 DEF GetUpdates
    <3> QED
      BY <1>1, <3>1, <3>2 DEF MarksOK
  <2>6. RunsOK' /\ UNCHANGED <<tg, db, botCancel, hk, sent, changes, leaked, stale, mixed>>
    BY <1>1, <1>4 DEF RunsOK, GetUpdates
  <2>7. bots'[b].off <= sent[bots[b].tok] + 1
    BY <2>1, <2>3
  <2>8. \A i \in bots'[b].batch : bots'[b].off <= i /\ i <= sent[bots[b].tok]
    <3>1. \A i \in c..sent[bots[b].tok] : bots[b].off <= i /\ i <= sent[bots[b].tok]
      <4> HIDE DEF c
      <4> QED
        BY <2>3, BotBounds
    <3> QED
      BY <2>1, <3>1
  <2> QED
    BY <1>3, <2>1, <2>4, <2>5, <2>6, <2>7, <2>8
<1>5. CASE GetFails(b)
  <2>1. /\ Stays(b) /\ bots'[b].off = bots[b].off /\ bots'[b].batch = bots[b].batch
        /\ conf' \in {conf, [conf EXCEPT ![bots[b].tok] = Confirmed(b)]}
    BY <1>1, <1>5, FailsAt
  <2>2. Present(b) /\ bots[b].tok \in Tokens
    BY <1>1, <2>1, Presence DEF Stays
  <2>3. Confirmed(b) \in 1..(MaxCmds + 1)
    BY <1>1, <2>2, ConfirmedIs
  <2>4. conf' \in [Tokens -> 1..(MaxCmds + 1)]
    BY <1>1, <2>1, <2>2, <2>3 DEF TelegramOK
  <2>5. /\ RunsOK' /\ exposed' \subseteq Commands
        /\ UNCHANGED <<tg, db, botCancel, hk, sent, changes, leaked, stale, mixed>>
    BY <1>1, <1>5 DEF RunsOK, GetFails, MarksOK, history
  <2>6. /\ bots'[b].off <= sent[bots[b].tok] + 1
        /\ \A i \in bots'[b].batch : bots'[b].off <= i /\ i <= sent[bots[b].tok]
    BY <1>1, <2>1, <2>2 DEF GoOK, BatchesOK
  <2> QED
    BY <1>3, <2>1, <2>4, <2>5, <2>6
<1>6. CASE \E i \in 1..MaxCmds : Handle(b, i)
  <2> PICK i \in 1..MaxCmds : Handle(b, i)
    BY <1>6
  <2>1. /\ Stays(b) /\ bots'[b].off = i + 1 /\ bots'[b].batch = bots[b].batch \ {i}
        /\ i \in bots[b].batch /\ \A j \in bots[b].batch : i <= j
    BY <1>1, HandleAt
  <2>2. Present(b) /\ bots[b].tok \in Tokens /\ bots[b].batch \subseteq 1..MaxCmds
    BY <1>1, <2>1, Presence DEF Stays
  <2>3. i <= sent[bots[b].tok] /\ \A j \in bots[b].batch : j <= sent[bots[b].tok]
    BY <1>1, <2>1, <2>2 DEF BatchesOK
  <2>4. bots'[b].off <= sent[bots[b].tok] + 1
    <3>1. sent[bots[b].tok] \in Nat
      BY <1>1, <2>2 DEF TelegramOK
    <3> QED
      BY <2>1, <2>3, <3>1
  <2>5. \A j \in bots'[b].batch : bots'[b].off <= j /\ j <= sent[bots[b].tok]
    <3> SUFFICES ASSUME NEW j \in bots[b].batch, j # i PROVE i + 1 <= j
      BY <2>1, <2>3
    <3> QED
      BY <2>1, <2>2
  <2>6. /\ conf' \in [Tokens -> 1..(MaxCmds + 1)] /\ exposed' \subseteq Commands
        /\ UNCHANGED <<tg, db, botCancel, hk, sent, changes, leaked, stale, mixed>>
    BY <1>1 DEF Handle, TelegramOK, MarksOK, telegram
  <2>7. RunsOK'
    <3> DEFINE c == <<bots[b].tok, i>>
    <3>1. c \in Commands
      BY <2>2, Numbers
    <3>2. \/ ran' = [ran EXCEPT ![c] = IF @ < RunCap THEN @ + 1 ELSE @] /\ refused' = refused
          \/ refused' = refused \cup {c} /\ ran' = ran
      BY DEF Handle
    <3> HIDE DEF c
    <3> QED
      BY <1>1, <3>1, <3>2 DEF RunsOK, RunCap
  <2> QED
    BY <1>3, <2>1, <2>4, <2>5, <2>6, <2>7
<1> QED
  BY <1>2, <1>4, <1>5, <1>6

\* Telegram hears a command; batches and offsets stay within what was sent.
LEMMA BaseSend ==
    ASSUME BaseInv, NEW t \in Tokens, SendCommand(t)
    PROVE  BaseInv'
<1>1. SettingsOK /\ GoOK /\ TelegramOK /\ RunsOK /\ MarksOK /\ BatchesOK /\ CountOK /\ StartsOK
  BY TypeParts DEF BaseInv
<1>2. SettingsOK' /\ StartsOK' /\ RunsOK'
  BY <1>1 DEF SettingsOK, StartsOK, RunsOK, SendCommand, history
<1>3. MarksOK'
  BY <1>1 DEF MarksOK, SendCommand, history
<1>4. TelegramOK' /\ \A s \in Tokens : sent[s] \in Nat /\ sent'[s] \in Nat /\ sent[s] <= sent'[s]
  BY <1>1, BotBounds DEF TelegramOK, SendCommand
<1>5. bots' = bots /\ botCancel' = botCancel /\ \A b \in BotIds : Present(b)' <=> Present(b)
  BY DEF SendCommand, Present
<1>6. \A b \in BotIds : Present(b) =>
          /\ bots[b].tok \in Tokens /\ bots[b].off \in 0..(MaxCmds + 1)
          /\ bots[b].batch \subseteq 1..MaxCmds
  BY <1>1, Presence DEF GoOK
<1>7. \A b \in BotIds : Present(b) => bots[b].off <= sent'[bots[b].tok] + 1
  BY <1>1, <1>4, <1>6 DEF GoOK
<1>8. GoOK'
  BY <1>1, <1>5, <1>7 DEF GoOK
<1>9. \A b \in BotIds : Present(b) =>
          \A i \in bots[b].batch : bots[b].off <= i /\ i <= sent'[bots[b].tok]
  <2> SUFFICES ASSUME NEW b \in BotIds, Present(b), NEW i \in bots[b].batch
               PROVE  bots[b].off <= i /\ i <= sent'[bots[b].tok]
    OBVIOUS
  <2>1. bots[b].tok \in Tokens /\ i \in Nat /\ bots[b].off <= i /\ i <= sent[bots[b].tok]
    BY <1>1, <1>6 DEF BatchesOK
  <2> QED
    BY <1>4, <2>1
<1>10. BatchesOK'
  BY <1>5, <1>9 DEF BatchesOK
<1>11. CountOK'
  <2>1. Busy' = Busy /\ changes' = changes
    BY DEF Busy, SendCommand
  <2> QED
    BY <1>1, <1>5, <2>1, CountKept
<1> QED
  BY <1>2, <1>3, <1>4, <1>8, <1>10, <1>11, TypePartsNext DEF BaseInv

LEMMA BaseStop ==
    ASSUME BaseInv, NEW w \in Savers, StopBot(w)
    PROVE  BaseInv'
<1>1. /\ TypeOK /\ SettingsOK /\ GoOK /\ TelegramOK /\ RunsOK /\ MarksOK /\ BatchesOK /\ CountOK
      /\ StartsOK /\ hk \in [Savers -> Saver] /\ tg \in Setting /\ changes \in Nat
  BY TypeParts, BotBounds DEF BaseInv, TypeOK
<1>2. /\ bots' \in [BotIds -> BotRec]
      /\ \A b \in BotIds :
           /\ Present(b)' <=> Present(b)
           /\ bots'[b] = Absent <=> bots[b] = Absent
           /\ Present(b) => /\ bots'[b].tok = bots[b].tok /\ bots'[b].off = bots[b].off
                            /\ bots'[b].batch = bots[b].batch
  BY <1>1, StopAt
<1>3. \/ Ends(w)
      \/ Asks(w, "start") /\ hk'[w].tok \in Tokens
  BY <1>1, RestartAt
<1>4. /\ UNCHANGED <<tg, db, sent, conf, changes, ran, refused, leaked, mixed>>
      /\ botCancel' = 0 /\ stale' = FALSE /\ hk[w].pc # "idle"
  BY DEF StopBot, telegram
<1>5. SettingsOK'
  BY <1>1, <1>3, <1>4 DEF SettingsOK, Ends, Asks
<1>6. StartsOK'
  BY <1>1, <1>3 DEF StartsOK, Ends, Asks
<1>7. CountOK'
  <2>1. CASE Ends(w)
    BY <1>1, <1>2, <1>4, <2>1, CountEnds
  <2>2. CASE Asks(w, "start")
    <3>1. hk[w] \in Asking
      BY <2>2 DEF Asks
    <3> QED
      BY <1>1, <1>2, <1>4, <2>2, <3>1, CountAsks
  <2> QED
    BY <1>3, <2>1, <2>2
<1>8. TelegramOK' /\ RunsOK'
  BY <1>1, <1>4 DEF TelegramOK, RunsOK
<1>9. GoOK'
  <2>1. botCancel' \in 0..MaxBots
    BY <1>4, Numbers
  <2>2. \A b \in BotIds : Present(b)' => bots'[b].off <= sent'[bots'[b].tok] + 1
    BY <1>1, <1>2, <1>4 DEF GoOK
  <2> QED
    BY <1>2, <1>4, <2>1, <2>2 DEF GoOK
<1>10. BatchesOK'
  BY <1>1, <1>2, <1>4 DEF BatchesOK
<1>11. exposed' \subseteq Commands
  <2>1. CASE botCancel = 0
    BY <1>1, <2>1 DEF StopBot, MarksOK
  <2>2. CASE botCancel # 0
    <3>1. botCancel \in BotIds
      BY <1>1, <2>2, Numbers DEF GoOK, BotIds
    <3>2. Holds(botCancel) \subseteq Commands
      BY <1>1, <3>1, HoldsIn
    <3> QED
      BY <1>1, <2>2, <3>2 DEF StopBot, MarksOK
  <2> QED
    BY <2>1, <2>2
<1>12. MarksOK'
  BY <1>1, <1>4, <1>11 DEF MarksOK
<1> QED
  BY <1>5, <1>6, <1>7, <1>8, <1>9, <1>10, <1>12, TypePartsNext DEF BaseInv

LEMMA BaseStart ==
    ASSUME BaseInv, NEW w \in Savers, StartBot(w)
    PROVE  BaseInv'
<1>1. /\ TypeOK /\ SettingsOK /\ GoOK /\ TelegramOK /\ RunsOK /\ MarksOK /\ BatchesOK /\ CountOK
      /\ StartsOK
  BY TypeParts DEF BaseInv
<1>2. Ends(w) /\ CountOK' /\ hk[w].tok \in Tokens
  BY <1>1, StartAt
<1>3. PICK b \in BotIds : /\ botCancel' = b /\ bots[b] = Absent /\ Becomes(b, NewBot(hk[w].tok))
                          /\ Present(b)' /\ ~Present(b)
  BY <1>1, StartAt
<1> DEFINE r == NewBot(hk[w].tok)
<1>4. r \in Live /\ r.tok \in Tokens /\ r.off = 0 /\ r.batch = {} /\ r # Absent
  BY <1>2, NewBotShape, RecShapes
<1> HIDE DEF r
<1>5. /\ bots' \in [BotIds -> BotRec] /\ bots'[b] = r
      /\ \A d \in BotIds : d # b => bots'[d] = bots[d] /\ (Present(d)' <=> Present(d))
  BY <1>3 DEF Becomes, Present, r
<1>6. UNCHANGED <<tg, db, sent, conf, changes, ran, refused, mixed>>
  BY DEF StartBot, telegram
<1>7. SettingsOK'
  BY <1>1, <1>2, <1>6 DEF SettingsOK, Ends
<1>8. StartsOK'
  BY <1>1, <1>2 DEF StartsOK, Ends
<1>9. TelegramOK' /\ RunsOK'
  BY <1>1, <1>6 DEF TelegramOK, RunsOK
<1>10. GoOK'
  <2>1. botCancel' \in 0..MaxBots /\ bots'[botCancel'] # Absent
    BY <1>3, <1>4, <1>5, Numbers
  <2>2. \A d \in BotIds : Present(d)' => bots'[d].off <= sent'[bots'[d].tok] + 1
    <3> SUFFICES ASSUME NEW d \in BotIds, Present(d)'
                 PROVE  bots'[d].off <= sent'[bots'[d].tok] + 1
      OBVIOUS
    <3>1. CASE d = b
      <4>1. sent'[r.tok] \in Nat
        BY <1>1, <1>4, <1>6 DEF TelegramOK
      <4> QED
        BY <1>4, <1>5, <3>1, <4>1
    <3>2. CASE d # b
      BY <1>1, <1>5, <1>6, <3>2 DEF GoOK
    <3> QED
      BY <3>1, <3>2
  <2> QED
    BY <1>5, <2>1, <2>2 DEF GoOK
<1>11. BatchesOK'
  <2>1. \A i \in bots'[b].batch : FALSE
    BY <1>4, <1>5
  <2>2. \A d \in BotIds : d # b /\ Present(d)' =>
            \A i \in bots'[d].batch : bots'[d].off <= i /\ i <= sent'[bots'[d].tok]
    BY <1>1, <1>5, <1>6 DEF BatchesOK
  <2> QED
    BY <2>1, <2>2 DEF BatchesOK
<1>12. botCancel # 0 => botCancel \in BotIds /\ Holds(botCancel) \subseteq Commands
  <2> SUFFICES ASSUME botCancel # 0
               PROVE  botCancel \in BotIds /\ Holds(botCancel) \subseteq Commands
    OBVIOUS
  <2>1. botCancel \in BotIds
    BY <1>1, Numbers DEF GoOK, BotIds
  <2> QED
    BY <1>1, <2>1, HoldsIn
<1>13. exposed' \subseteq Commands /\ leaked' \subseteq BotIds
  BY <1>1, <1>12 DEF StartBot, MarksOK
<1>14. stale' \in BOOLEAN
  BY Zenon DEF StartBot
<1>15. MarksOK'
  BY <1>1, <1>6, <1>13, <1>14 DEF MarksOK
<1> QED
  BY <1>2, <1>7, <1>8, <1>9, <1>10, <1>11, <1>15, TypePartsNext DEF BaseInv

LEMMA BaseRestart ==
    ASSUME BaseInv, PanelRestart
    PROVE  BaseInv'
<1>1. /\ TypeOK /\ SettingsOK /\ GoOK /\ TelegramOK /\ RunsOK /\ MarksOK /\ BatchesOK /\ CountOK
  BY TypeParts DEF BaseInv
<1>2. bots' \in [BotIds -> BotRec] /\ CountOK' /\ Booted
  BY <1>1, BootAt
<1>3. /\ changes < MaxChanges /\ changes' = changes + 1 /\ tg' = db
      /\ hk' = [w \in Savers |-> Idle] /\ leaked' = {} /\ stale' = FALSE /\ mixed' = FALSE
      /\ exposed' = exposed \cup UNION {Holds(b) : b \in BotIds}
      /\ UNCHANGED <<db, sent, conf, ran, refused>>
  BY DEF PanelRestart, Boot, telegram
<1>4. SettingsOK' /\ StartsOK'
  BY <1>1, <1>3, SaverShapes DEF SettingsOK, StartsOK
<1>5. TelegramOK' /\ RunsOK'
  BY <1>1, <1>3, BotBounds DEF TelegramOK, RunsOK
<1>6. exposed' \subseteq Commands
  BY <1>1, <1>3, HoldsIn DEF MarksOK
<1>7. MarksOK'
  BY <1>3, <1>6 DEF MarksOK
<1>8. botCancel' \in 0..MaxBots /\ (botCancel' # 0 => bots'[botCancel'] # Absent)
  <2>1. CASE botCancel' = 0
    BY <2>1, Numbers
  <2>2. CASE botCancel' # 0
    <3> PICK b \in BotIds : botCancel' = b /\ bots'[b] = NewBot(db.tok) /\ db.tok \in Tokens
      BY <1>2, <2>2 DEF Booted
    <3>1. NewBot(db.tok) # Absent
      BY NewBotShape, RecShapes
    <3> QED
      BY <3>1, Numbers
  <2> QED
    BY <2>1, <2>2
<1>9. \A d \in BotIds : Present(d)' => bots'[d] = NewBot(db.tok) /\ db.tok \in Tokens
  BY <1>2 DEF Booted
<1>10. \A d \in BotIds : Present(d)' =>
          /\ bots'[d].off <= sent'[bots'[d].tok] + 1
          /\ bots'[d].batch = {}
  <2> SUFFICES ASSUME NEW d \in BotIds, Present(d)'
               PROVE  bots'[d].off <= sent'[bots'[d].tok] + 1 /\ bots'[d].batch = {}
    OBVIOUS
  <2>1. bots'[d].tok \in Tokens /\ bots'[d].off = 0 /\ bots'[d].batch = {}
    BY <1>9, NewBotShape
  <2>2. sent'[bots'[d].tok] \in Nat
    BY <1>5, <2>1 DEF TelegramOK
  <2> QED
    BY <2>1, <2>2
<1>11. GoOK' /\ BatchesOK'
  BY <1>2, <1>8, <1>10 DEF GoOK, BatchesOK
<1> QED
  BY <1>2, <1>4, <1>5, <1>7, <1>11, TypePartsNext DEF BaseInv

LEMMA BaseStep == BaseInv /\ [Next]_vars => BaseInv'
<1> SUFFICES ASSUME BaseInv, [Next]_vars PROVE BaseInv'
  OBVIOUS
<1>1. ASSUME NEW w \in Savers,
             \/ \E t \in AnyToken \cup {Keep}, a \in BOOLEAN : Begin(w, t, a)
             \/ SaveToken(w) \/ SaveIds(w) \/ SaveFails(w) \/ SetTelegram(w)
             \/ StopBot(w) \/ StartBot(w)
      PROVE  BaseInv'
  BY <1>1, BaseSaver, BaseStop, BaseStart
<1>2. ASSUME NEW b \in BotIds,
             CheckCtx(b) \/ GetUpdates(b) \/ GetFails(b) \/ \E i \in 1..MaxCmds : Handle(b, i)
      PROVE  BaseInv'
  BY <1>2, BaseLoop
<1>3. CASE UNCHANGED vars
  <2>1. TypeOK /\ CountOK /\ StartsOK /\ BatchesOK
    BY DEF BaseInv
  <2>2. TypeOK'
    BY <1>3, <2>1 DEF TypeOK, vars, Present
  <2>3. StartsOK' /\ BatchesOK'
    BY <1>3, <2>1 DEF StartsOK, BatchesOK, vars, Present
  <2>4. Busy' = Busy /\ changes' = changes /\ bots' = bots
    BY <1>3 DEF Busy, vars
  <2>5. CountOK'
    BY <2>1, <2>4, CountKept
  <2> QED
    BY <2>2, <2>3, <2>5 DEF BaseInv
<1> QED
  BY <1>1, <1>2, <1>3, BaseSend, BaseRestart DEF Next

LEMMA BaseAlways == Spec => []BaseInv
<1> QED
  BY BaseInit, BaseStep, PTL DEF Spec

\* The state keeps its types, and no goroutine's offset passes what was sent to its bot, so no
\* command that is yet to come is confirmed unseen (bot.go startBot).
THEOREM TypeCorrect == Spec => []TypeOK
<1>1. BaseInv => TypeOK
  BY DEF BaseInv
<1> QED
  BY <1>1, BaseAlways, PTL

-----------------------------------------------------------------------------
(* One goroutine. *)

LEMMA OneInit == Init => OneInStep
<1> SUFFICES ASSUME Init PROVE OneInStep
  OBVIOUS
<1>1. /\ tg = db /\ db \in Setting /\ leaked = {} /\ stale = FALSE
      /\ botCancel = IF db.tok = NoToken THEN 0 ELSE 1
      /\ bots = [b \in BotIds |-> IF b = botCancel THEN NewBot(db.tok) ELSE Absent]
  BY DEF Init
<1>2. db.tok \in AnyToken /\ 1 \in BotIds /\ 0 \notin BotIds
  BY <1>1, Numbers DEF Setting, BotIds
<1> DEFINE r == NewBot(db.tok)
<1>3. botCancel # 0 => botCancel = 1 /\ r \in Live /\ r.ctx /\ r.tok = db.tok
  BY <1>1, <1>2, NewBotShape DEF AnyToken
<1> HIDE DEF r
<1>4. \A b \in BotIds : bots[b] = IF b = botCancel THEN r ELSE Absent
  BY <1>1 DEF r
<1>5. \A b \in BotIds : b \in Running <=> b = botCancel
  BY <1>2, <1>3, <1>4, RecShapes DEF Running, Present
<1>6. botCancel # 0 => bots[botCancel].tok = tg.tok
  BY <1>1, <1>2, <1>3, <1>4
<1> QED
  BY <1>1, <1>5, <1>6 DEF OneInStep

\* A request that has not come to the restart, or has just done so.
LEMMA OneAsks ==
    ASSUME OneInStep, UNCHANGED <<bots, botCancel, leaked, stale>>,
           \/ \E w \in Savers : hk'[w].pc = "stop"
           \/ /\ tg' = tg
              /\ \A w \in Savers : hk[w].pc \in {"stop", "start"} => hk'[w].pc \in {"stop", "start"}
    PROVE  OneInStep'
<1>1. Running' = Running
  BY DEF Running, Present
<1> QED
  BY <1>1 DEF OneInStep

LEMMA OneSaver ==
    ASSUME BaseInv, OneInStep, NEW w \in Savers,
           \/ \E t \in AnyToken \cup {Keep}, a \in BOOLEAN : Begin(w, t, a)
           \/ SaveToken(w) \/ SaveIds(w) \/ SaveFails(w) \/ SetTelegram(w)
    PROVE  OneInStep'
<1>1. hk \in [Savers -> Saver] /\ tg \in Setting
  BY DEF BaseInv, TypeOK
<1>2. CASE \E t \in AnyToken \cup {Keep}, a \in BOOLEAN : Begin(w, t, a)
  <2> PICK t \in AnyToken \cup {Keep}, a \in BOOLEAN : Begin(w, t, a)
    BY <1>2
  <2>1. hk[w].pc = "idle" /\ \A v \in Savers : v # w => hk'[v] = hk[v]
    BY <1>1, BeginAt
  <2> QED
    BY <2>1, OneAsks DEF Begin
<1>3. ASSUME NEW pc \in {"ids", "live"}, hk[w].pc \in {"token", "ids"},
             hk' = [hk EXCEPT ![w].pc = pc],
             tg' = tg, UNCHANGED <<bots, botCancel, leaked, stale>>
      PROVE  OneInStep'
  <2>1. Asks(w, pc)
    BY <1>1, <1>3, AskAt
  <2>2. \A v \in Savers : hk[v].pc \in {"stop", "start"} => hk'[v].pc \in {"stop", "start"}
    BY <1>3, <2>1 DEF Asks
  <2> QED
    BY <1>3, <2>2, OneAsks
<1>4. CASE SaveToken(w)
  BY <1>3, <1>4 DEF SaveToken, history
<1>5. CASE SaveIds(w)
  BY <1>3, <1>5 DEF SaveIds, history
<1>6. CASE SaveFails(w)
  <2>1. Ends(w)
    BY <1>1, <1>6, EndAt DEF SaveFails
  <2>2. \A v \in Savers : hk[v].pc \in {"stop", "start"} => hk'[v].pc \in {"stop", "start"}
    BY <1>6, <2>1 DEF Ends, SaveFails
  <2> QED
    BY <1>6, <2>2, OneAsks DEF SaveFails
<1>7. CASE SetTelegram(w)
  <2>1. Asks(w, "stop")
    BY <1>1, <1>7, AskAt DEF SetTelegram
  <2> QED
    BY <1>7, <2>1, OneAsks DEF SetTelegram, Asks, history
<1> QED
  BY <1>2, <1>4, <1>5, <1>6, <1>7

\* A step of a goroutine ends it only if it was told to stop.
LEMMA OneLoop ==
    ASSUME BaseInv, OneInStep, NEW b \in BotIds,
           CheckCtx(b) \/ GetUpdates(b) \/ GetFails(b) \/ \E i \in 1..MaxCmds : Handle(b, i)
    PROVE  OneInStep'
<1>1. TypeOK /\ bots \in [BotIds -> BotRec] /\ botCancel \in 0..MaxBots
  BY DEF BaseInv, TypeOK
<1>2. /\ \A d \in BotIds : d # b => bots'[d] = bots[d]
      /\ bots'[b] # Absent /\ (b \in Running' <=> b \in Running)
      /\ b \in Running => bots'[b].tok = bots[b].tok
  <2>1. CASE CheckCtx(b)
    BY <1>1, <2>1, CheckAt, RecShapes DEF Becomes, Running, Present
  <2>2. ASSUME Stays(b)
        PROVE  /\ \A d \in BotIds : d # b => bots'[d] = bots[d]
               /\ bots'[b] # Absent /\ (b \in Running' <=> b \in Running)
               /\ b \in Running => bots'[b].tok = bots[b].tok
    BY <2>2, RecShapes DEF Stays, Becomes, Running, Present
  <2> QED
    BY <1>1, <2>1, <2>2, GetAt, FailsAt, HandleAt
<1>3. UNCHANGED <<tg, botCancel, hk, leaked, stale>>
  BY DEF CheckCtx, GetUpdates, GetFails, Handle, history
<1>4. \A d \in BotIds : d \in Running' <=> d \in Running
  BY <1>2 DEF Running, Present
<1>5. botCancel # 0 => /\ botCancel \in BotIds /\ botCancel \in Running
                       /\ bots'[botCancel].tok = bots[botCancel].tok
  <2> SUFFICES ASSUME botCancel # 0
               PROVE  /\ botCancel \in BotIds /\ botCancel \in Running
                      /\ bots'[botCancel].tok = bots[botCancel].tok
    OBVIOUS
  <2>1. botCancel \in BotIds
    BY <1>1, Numbers DEF BotIds
  <2> QED
    BY <1>2, <2>1 DEF OneInStep
<1>6. \A d \in leaked' : bots'[d] # Absent
  <2>1. leaked \subseteq BotIds
    BY <1>1 DEF TypeOK
  <2> QED
    BY <1>2, <1>3, <2>1 DEF OneInStep
<1>7. \A d \in BotIds : d \in Running' /\ d \notin leaked' <=> d = botCancel'
  BY <1>3, <1>4 DEF OneInStep
<1>8. ASSUME ~stale', \A w \in Savers : hk'[w].pc \notin {"stop", "start"}
      PROVE  /\ botCancel' = 0 <=> tg'.tok = NoToken
             /\ botCancel' # 0 => bots'[botCancel'].tok = tg'.tok
  BY <1>3, <1>5, <1>8 DEF OneInStep
<1> QED
  BY <1>6, <1>7, <1>8 DEF OneInStep

LEMMA OneStop ==
    ASSUME BaseInv, OneInStep, NEW w \in Savers, StopBot(w)
    PROVE  OneInStep'
<1>1. /\ TypeOK /\ hk \in [Savers -> Saver] /\ tg \in Setting /\ bots \in [BotIds -> BotRec]
      /\ leaked \subseteq BotIds
  BY DEF BaseInv, TypeOK
<1>2. \A b \in BotIds :
        /\ Present(b)' <=> Present(b)
        /\ bots'[b] = Absent <=> bots[b] = Absent
        /\ Present(b) /\ b = botCancel => ~bots'[b].ctx
        /\ b # botCancel => bots'[b] = bots[b]
  BY <1>1, StopAt
<1>3. botCancel' = 0 /\ leaked' = leaked /\ tg' = tg
  BY DEF StopBot
<1>4. \A b \in leaked' : bots'[b] # Absent
  BY <1>1, <1>2, <1>3 DEF OneInStep
<1>5. \A b \in BotIds : ~(b \in Running' /\ b \notin leaked')
  <2> SUFFICES ASSUME NEW b \in BotIds, b \in Running', b \notin leaked' PROVE FALSE
    OBVIOUS
  <2>1. Present(b)' /\ bots'[b].ctx
    BY DEF Running
  <2>2. b # botCancel
    BY <1>2, <2>1
  <2>3. b \in Running
    BY <1>2, <2>1, <2>2 DEF Running
  <2> QED
    BY <1>3, <2>2, <2>3 DEF OneInStep
<1>6. \A b \in BotIds : b \in Running' /\ b \notin leaked' <=> b = botCancel'
  BY <1>3, <1>5, Numbers
<1>7. (\A v \in Savers : hk'[v].pc \notin {"stop", "start"}) => tg.tok = NoToken
  BY <1>1, RestartAt DEF Asks
<1> QED
  BY <1>3, <1>4, <1>6, <1>7 DEF OneInStep

LEMMA OneStart ==
    ASSUME BaseInv, OneInStep, NEW w \in Savers, StartBot(w)
    PROVE  OneInStep'
<1>1. TypeOK /\ CountOK /\ StartsOK /\ botCancel \in 0..MaxBots /\ leaked \subseteq BotIds
  BY DEF BaseInv, TypeOK
<1>2. hk[w].tok \in Tokens /\ hk[w].tok # NoToken
  BY <1>1, StartAt, TokensAssumption
<1>3. PICK b \in BotIds : /\ botCancel' = b /\ bots[b] = Absent /\ Becomes(b, NewBot(hk[w].tok))
                          /\ Present(b)' /\ ~Present(b)
  BY <1>1, StartAt
<1>4. bots'[b].tok = hk[w].tok /\ bots'[b].ctx /\ bots'[b] # Absent
  <2>1. bots'[b] = NewBot(hk[w].tok)
    BY <1>3 DEF Becomes
  <2> QED
    BY <1>2, <2>1, NewBotShape, RecShapes
<1>5. \A d \in BotIds : d # b => bots'[d] = bots[d] /\ (d \in Running' <=> d \in Running)
  BY <1>3 DEF Becomes, Running, Present
<1>6. leaked' = IF botCancel = 0 THEN leaked ELSE leaked \cup {botCancel}
  BY DEF StartBot
<1>7. botCancel # 0 => botCancel \in Running /\ botCancel \in BotIds /\ bots[botCancel] # Absent
  <2> SUFFICES ASSUME botCancel # 0
               PROVE  botCancel \in Running /\ botCancel \in BotIds /\ bots[botCancel] # Absent
    OBVIOUS
  <2>1. botCancel \in BotIds
    BY <1>1, Numbers DEF BotIds
  <2>2. botCancel \in Running
    BY <2>1 DEF OneInStep
  <2> QED
    BY <2>1, <2>2, RecShapes DEF Running, Present
<1>8. \A d \in leaked' : bots[d] # Absent /\ d \in BotIds
  BY <1>1, <1>6, <1>7 DEF OneInStep
<1>9. b \notin leaked' /\ \A d \in leaked' : bots'[d] # Absent
  BY <1>3, <1>5, <1>8
<1>10. \A d \in BotIds : d \in Running' /\ d \notin leaked' <=> d = botCancel'
  <2> TAKE d \in BotIds
  <2>1. CASE d = b
    BY <1>3, <1>4, <1>9, <2>1 DEF Running
  <2>2. CASE d # b
    <3>1. d \in Running /\ d \notin leaked => d = botCancel /\ d # 0
      BY Numbers DEF OneInStep
    <3>2. ~(d \in Running /\ d \notin leaked')
      BY <1>6, <3>1
    <3> QED
      BY <1>3, <1>5, <2>2, <3>2
  <2> QED
    BY <2>1, <2>2
<1>11. ~stale' => botCancel' # 0 /\ tg'.tok # NoToken /\ bots'[botCancel'].tok = tg'.tok
  <2>1. tg' = tg /\ (~stale' => hk[w].tok = tg.tok)
    BY DEF StartBot
  <2> QED
    BY <1>2, <1>3, <1>4, <2>1, Numbers
<1> QED
  BY <1>9, <1>10, <1>11 DEF OneInStep

LEMMA OneRestart ==
    ASSUME BaseInv, OneInStep, PanelRestart
    PROVE  OneInStep'
<1>1. TypeOK /\ CountOK
  BY DEF BaseInv
<1>2. bots' \in [BotIds -> BotRec] /\ Booted
  BY <1>1, BootAt
<1>3. tg' = db /\ leaked' = {} /\ db' = db
  BY DEF PanelRestart, Boot
<1>4. CASE db.tok = NoToken /\ botCancel' = 0 /\ \A d \in BotIds : ~Present(d)'
  <2>1. \A d \in BotIds : d \notin Running' /\ d # botCancel'
    BY <1>4, Numbers DEF Running
  <2> QED
    BY <1>3, <1>4, <2>1 DEF OneInStep
<1>5. ASSUME NEW b \in BotIds, db.tok \in Tokens, botCancel' = b, bots'[b] = NewBot(db.tok),
             Present(b)', \A d \in BotIds : d # b => ~Present(d)'
      PROVE  OneInStep'
  <2>1. bots'[b].tok = db.tok /\ bots'[b].ctx
    BY <1>5, NewBotShape
  <2>2. \A d \in BotIds : d \in Running' <=> d = b
    BY <1>5, <2>1 DEF Running
  <2>3. b # 0 /\ db.tok # NoToken
    BY <1>5, Numbers, TokensAssumption
  <2> QED
    BY <1>3, <1>5, <2>1, <2>2, <2>3 DEF OneInStep
<1> QED
  BY <1>2, <1>4, <1>5 DEF Booted

LEMMA OneStep == BaseInv /\ OneInStep /\ [Next]_vars => OneInStep'
<1> SUFFICES ASSUME BaseInv, OneInStep, [Next]_vars PROVE OneInStep'
  OBVIOUS
<1>1. ASSUME NEW w \in Savers,
             \/ \E t \in AnyToken \cup {Keep}, a \in BOOLEAN : Begin(w, t, a)
             \/ SaveToken(w) \/ SaveIds(w) \/ SaveFails(w) \/ SetTelegram(w)
             \/ StopBot(w) \/ StartBot(w)
      PROVE  OneInStep'
  BY <1>1, OneSaver, OneStop, OneStart
<1>2. CASE \E t \in Tokens : SendCommand(t)
  BY <1>2, OneAsks DEF SendCommand, history
<1>3. CASE UNCHANGED vars
  BY <1>3, OneAsks DEF vars
<1> QED
  BY <1>1, <1>2, <1>3, OneLoop, OneRestart DEF Next

\* With no request under way exactly one goroutine is meant to run, for the live token, and
\* none if there is none, for any number of concurrent saves and restarts of the panel (app.go
\* restartBot, setTelegram).
THEOREM OneGoroutine == Spec => []OneBot
<1>1. BaseInv /\ OneInStep => OneBot
  <2> SUFFICES ASSUME BaseInv, OneInStep, Quiet, ~stale
               PROVE  /\ Running \ leaked = IF tg.tok = NoToken THEN {} ELSE {botCancel}
                      /\ tg.tok # NoToken => bots[botCancel].tok = tg.tok
    BY DEF OneBot
  <2>1. /\ botCancel = 0 <=> tg.tok = NoToken
        /\ botCancel # 0 => bots[botCancel].tok = tg.tok
    BY DEF OneInStep, Quiet
  <2>2. botCancel # 0 => botCancel \in BotIds
    BY Numbers DEF BaseInv, TypeOK, BotIds
  <2>3. Running \ leaked = {b \in BotIds : b = botCancel}
    BY DEF OneInStep, Running
  <2> QED
    BY <2>1, <2>2, <2>3, Numbers
<1> QED
  BY <1>1, OneInit, OneStep, BaseAlways, PTL DEF Spec

-----------------------------------------------------------------------------
(* Stored and live. *)

LEMMA StoredInit == Init => StoredInStep
BY SaverShapes DEF Init, StoredInStep, Saving

\* Settings and requests that stay, or that no request is saving any more.
LEMMA StoredKept ==
    ASSUME StoredInStep, UNCHANGED <<tg, db>>, mixed' = mixed,
           \A w \in Savers : hk'[w] = hk[w] \/ (~Saving(w) /\ ~Saving(w)')
    PROVE  StoredInStep'
BY DEF StoredInStep, Saving

LEMMA StoredSaver ==
    ASSUME BaseInv, StoredInStep, NEW w \in Savers,
           \/ \E t \in AnyToken \cup {Keep}, a \in BOOLEAN : Begin(w, t, a)
           \/ SaveToken(w) \/ SaveIds(w) \/ SaveFails(w) \/ SetTelegram(w)
    PROVE  StoredInStep'
<1>1. hk \in [Savers -> Saver] /\ tg \in Setting /\ db \in Setting
  BY DEF BaseInv, TypeOK
<1> SUFFICES ASSUME ~mixed'
             PROVE  /\ \A v, u \in Savers : Saving(v)' /\ Saving(u)' => v = u
                    /\ (\A v \in Savers : ~Saving(v)') => tg' = db'
                    /\ \A v \in Savers :
                          /\ hk'[v].pc = "token" => tg' = db'
                          /\ hk'[v].pc = "ids" => db'.tok = hk'[v].new /\ db'.adm = tg'.adm
                          /\ hk'[v].pc = "live" => db'.tok = hk'[v].new /\ db'.adm = hk'[v].adm
  BY DEF StoredInStep
<1>2. CASE \E t \in AnyToken \cup {Keep}, a \in BOOLEAN : Begin(w, t, a)
  <2> PICK t \in AnyToken \cup {Keep}, a \in BOOLEAN : Begin(w, t, a)
    BY <1>2
  <2>1. /\ hk[w].pc = "idle" /\ \A v \in Savers : v # w => hk'[v] = hk[v]
        /\ \/ hk'[w].pc = "ids" /\ hk'[w].new = tg.tok
           \/ hk'[w].pc = "token"
    BY <1>1, BeginAt
  <2>2. ~mixed /\ (\A v \in Savers : ~Saving(v)) /\ tg' = tg /\ db' = db
    BY DEF Begin, Saving
  <2>3. tg = db
    BY <2>2 DEF StoredInStep
  <2>4. \A v \in Savers : Saving(v)' => v = w
    BY <2>1, <2>2 DEF Saving
  <2>5. Saving(w)'
    BY <2>1 DEF Saving
  <2>6. \A v \in Savers : v # w => hk'[v].pc \notin {"token", "ids", "live"}
    BY <2>4 DEF Saving
  <2>7. tg' = db' /\ (hk'[w].pc = "ids" => db'.tok = hk'[w].new) /\ hk'[w].pc # "live"
    BY <2>1, <2>2, <2>3
  <2> QED
    BY <2>4, <2>5, <2>6, <2>7
<1>3. ASSUME ~mixed, Saving(w), \A v \in Savers : v # w => hk'[v] = hk[v]
      PROVE  /\ \A v \in Savers : v # w => ~Saving(v)' /\ hk'[v].pc \notin {"token", "ids", "live"}
             /\ hk[w].pc = "token" => tg = db
             /\ hk[w].pc = "ids" => db.tok = hk[w].new /\ db.adm = tg.adm
             /\ hk[w].pc = "live" => db.tok = hk[w].new /\ db.adm = hk[w].adm
  <2>1. \A v \in Savers : v # w => ~Saving(v)
    BY <1>3 DEF StoredInStep
  <2>2. \A v \in Savers : v # w => hk[v].pc \notin {"token", "ids", "live"}
    BY <2>1 DEF Saving
  <2> QED
    BY <1>3, <2>2 DEF StoredInStep, Saving
<1>4. CASE SaveToken(w)
  <2>1. Asks(w, "ids") /\ ~mixed /\ Saving(w)
    BY <1>1, <1>4, AskAt DEF SaveToken, Saving, history
  <2>2. tg' = tg /\ db' = [db EXCEPT !.tok = hk[w].new]
    BY <1>4 DEF SaveToken
  <2>3. db'.tok = hk[w].new /\ db'.adm = db.adm
    BY <1>1, <2>2 DEF Setting
  <2>4. tg = db /\ \A v \in Savers : v # w => ~Saving(v)' /\ hk'[v].pc \notin {"token", "ids", "live"}
    BY <1>3, <1>4, <2>1 DEF Asks, SaveToken
  <2>5. Saving(w)' /\ hk'[w].pc = "ids" /\ hk'[w].new = hk[w].new
    BY <2>1 DEF Asks, Saving
  <2>6. db'.tok = hk'[w].new /\ db'.adm = tg'.adm
    BY <2>2, <2>3, <2>4, <2>5
  <2> QED
    BY <2>4, <2>5, <2>6
<1>5. CASE SaveIds(w)
  <2>1. Asks(w, "live") /\ ~mixed /\ Saving(w)
    BY <1>1, <1>5, AskAt DEF SaveIds, Saving, history
  <2>2. db' = [db EXCEPT !.adm = hk[w].adm]
    BY <1>5 DEF SaveIds
  <2>3. db'.adm = hk[w].adm /\ db'.tok = db.tok
    BY <1>1, <2>2 DEF Setting
  <2>4. db.tok = hk[w].new /\ \A v \in Savers : v # w => ~Saving(v)' /\ hk'[v].pc \notin {"token", "ids", "live"}
    BY <1>3, <1>5, <2>1 DEF Asks, SaveIds
  <2>5. /\ Saving(w)' /\ hk'[w].pc = "live" /\ hk'[w].new = hk[w].new /\ hk'[w].adm = hk[w].adm
    BY <2>1 DEF Asks, Saving
  <2>6. db'.tok = hk'[w].new /\ db'.adm = hk'[w].adm
    BY <2>3, <2>4, <2>5
  <2> QED
    BY <2>4, <2>5, <2>6
<1>6. CASE SaveFails(w)
  <2>1. Ends(w) /\ ~mixed /\ hk[w].pc = "token" /\ Saving(w) /\ tg' = tg /\ db' = db
    BY <1>1, <1>6, EndAt DEF SaveFails, Saving
  <2>2. tg = db /\ \A v \in Savers : v # w => ~Saving(v)' /\ hk'[v].pc \notin {"token", "ids", "live"}
    BY <1>3, <2>1 DEF Ends
  <2>3. ~Saving(w)' /\ hk'[w].pc = "idle"
    BY <2>1 DEF Ends, Saving
  <2> QED
    BY <2>1, <2>2, <2>3
<1>7. CASE SetTelegram(w)
  <2>1. Asks(w, "stop") /\ ~mixed /\ Saving(w)
    BY <1>1, <1>7, AskAt DEF SetTelegram, Saving, history
  <2>2. tg' = [tok |-> hk[w].new, adm |-> hk[w].adm] /\ db' = db
    BY <1>7 DEF SetTelegram
  <2>3. /\ db.tok = hk[w].new /\ db.adm = hk[w].adm
        /\ \A v \in Savers : v # w => ~Saving(v)' /\ hk'[v].pc \notin {"token", "ids", "live"}
    BY <1>3, <1>7, <2>1 DEF Asks, SetTelegram
  <2>4. tg' = db'
    BY <1>1, <2>2, <2>3 DEF Setting
  <2>5. ~Saving(w)' /\ hk'[w].pc = "stop"
    BY <2>1 DEF Asks, Saving
  <2> QED
    BY <2>3, <2>4, <2>5
<1> QED
  BY <1>2, <1>4, <1>5, <1>6, <1>7

LEMMA StoredStep == BaseInv /\ StoredInStep /\ [Next]_vars => StoredInStep'
<1> SUFFICES ASSUME BaseInv, StoredInStep, [Next]_vars PROVE StoredInStep'
  OBVIOUS
<1>1. hk \in [Savers -> Saver] /\ tg \in Setting
  BY DEF BaseInv, TypeOK
<1>2. ASSUME NEW w \in Savers,
             \/ \E t \in AnyToken \cup {Keep}, a \in BOOLEAN : Begin(w, t, a)
             \/ SaveToken(w) \/ SaveIds(w) \/ SaveFails(w) \/ SetTelegram(w)
      PROVE  StoredInStep'
  BY <1>2, StoredSaver
<1>3. ASSUME NEW w \in Savers, StopBot(w)
      PROVE  StoredInStep'
  <2>1. Ends(w) \/ Asks(w, "start")
    BY <1>1, <1>3, RestartAt
  <2>2. ~Saving(w) /\ ~Saving(w)' /\ \A v \in Savers : v # w => hk'[v] = hk[v]
    BY <1>3, <2>1 DEF Ends, Asks, Saving, StopBot
  <2> QED
    BY <1>3, <2>2, StoredKept DEF StopBot
<1>4. ASSUME NEW w \in Savers, StartBot(w)
      PROVE  StoredInStep'
  <2>1. Ends(w)
    BY <1>1, <1>4, EndAt DEF StartBot
  <2>2. ~Saving(w) /\ ~Saving(w)' /\ \A v \in Savers : v # w => hk'[v] = hk[v]
    BY <1>4, <2>1 DEF Ends, Saving, StartBot
  <2> QED
    BY <1>4, <2>2, StoredKept DEF StartBot
<1>5. ASSUME NEW b \in BotIds,
             CheckCtx(b) \/ GetUpdates(b) \/ GetFails(b) \/ \E i \in 1..MaxCmds : Handle(b, i)
      PROVE  StoredInStep'
  BY <1>5, StoredKept DEF CheckCtx, GetUpdates, GetFails, Handle, history
<1>6. CASE \E t \in Tokens : SendCommand(t)
  BY <1>6, StoredKept DEF SendCommand, history
<1>7. CASE PanelRestart
  <2>1. tg' = db /\ db' = db /\ \A w \in Savers : hk'[w].pc = "idle"
    BY <1>7, SaverShapes DEF PanelRestart, Boot
  <2> QED
    BY <2>1 DEF StoredInStep, Saving
<1>8. CASE UNCHANGED vars
  BY <1>8, StoredKept DEF vars
<1> QED
  BY <1>2, <1>3, <1>4, <1>5, <1>6, <1>7, <1>8 DEF Next

\* With no request under way a restart of the panel changes no setting, unless two requests
\* overlapped or one failed half way (notify.go handleNotifySettings).
THEOREM StoredStaysLive == Spec => []StoredIsLive
<1>1. StoredInStep => StoredIsLive
  BY DEF StoredInStep, StoredIsLive, Quiet, Saving
<1> QED
  BY <1>1, StoredInit, StoredStep, BaseAlways, PTL DEF Spec

-----------------------------------------------------------------------------
(* Commands. *)

Keeps(b, t, i) == Present(b) /\ bots[b].tok = t /\ bots[b].ctx /\ bots[b].off > i

\* A command that is not exposed, as OnceInStep has it.
Once(t, i) ==
    /\ ran[<<t, i>>] <= 1
    /\ \A b \in BotIds : Has(b, t, i) => /\ ran[<<t, i>>] = 0
                                         /\ conf[t] <= i => bots[b].ctx
    /\ \A b, d \in BotIds : Has(b, t, i) /\ Has(d, t, i) => b = d
    /\ ran[<<t, i>>] > 0 /\ conf[t] <= i => \E b \in BotIds : Keeps(b, t, i)

LEMMA OnceParts ==
    OnceInStep <=> \A t \in Tokens, i \in 1..MaxCmds : <<t, i>> \notin exposed => Once(t, i)
BY DEF OnceInStep, Once, Keeps

LEMMA OncePartsNext ==
    (\A t \in Tokens, i \in 1..MaxCmds : <<t, i>> \notin exposed' => Once(t, i)') => OnceInStep'
BY DEF OnceInStep, Once, Keeps, Has, Present

LEMMA OnceInit == Init => OnceInStep
<1> SUFFICES ASSUME Init, NEW t \in Tokens, NEW i \in 1..MaxCmds PROVE Once(t, i)
  BY OnceParts
<1>1. ran[<<t, i>>] = 0
  BY Numbers DEF Init
<1>2. BaseInv
  BY BaseInit
<1>3. \A b \in BotIds : ~Has(b, t, i)
  <2> SUFFICES ASSUME NEW b \in BotIds, Has(b, t, i) PROVE FALSE
    OBVIOUS
  <2>1. Present(b)
    BY DEF Has
  <2>2. bots[b] = IF b = botCancel THEN NewBot(db.tok) ELSE Absent
    BY DEF Init
  <2>3. bots[b] = NewBot(db.tok)
    BY <2>1, <2>2, RecShapes DEF Present
  <2>4. bots[b].batch = {}
    BY <2>3 DEF NewBot
  <2> QED
    BY <2>4 DEF Has
<1> QED
  BY <1>1, <1>3 DEF Once

\* Nothing is carried out; what is in a batch, or will be confirmed, was so before, or is
\* exposed now.
LEMMA OnceKept ==
    ASSUME OnceInStep, ran' = ran, exposed \subseteq exposed',
           \A t \in Tokens : conf[t] \in Nat /\ conf'[t] \in Nat /\ conf[t] <= conf'[t],
           \A b \in BotIds, t \in Tokens, i \in 1..MaxCmds : <<t, i>> \notin exposed' =>
               /\ Has(b, t, i)' => /\ Has(b, t, i)
                                   /\ conf'[t] <= i /\ bots[b].ctx => bots'[b].ctx
               /\ Keeps(b, t, i) /\ conf'[t] <= i => Keeps(b, t, i)'
    PROVE  OnceInStep'
<1> SUFFICES ASSUME NEW t \in Tokens, NEW i \in 1..MaxCmds, <<t, i>> \notin exposed'
             PROVE  Once(t, i)'
  BY OncePartsNext
<1>1. Once(t, i)
  BY OnceParts
<1>2. conf'[t] <= i => conf[t] <= i
  BY BotBounds
<1>3. \A b \in BotIds : Has(b, t, i)' => /\ ran'[<<t, i>>] = 0
                                         /\ conf'[t] <= i => bots'[b].ctx
  BY <1>1, <1>2 DEF Once
<1>4. \A b, d \in BotIds : Has(b, t, i)' /\ Has(d, t, i)' => b = d
  BY <1>1 DEF Once
<1>5. ran'[<<t, i>>] > 0 /\ conf'[t] <= i => \E b \in BotIds : Keeps(b, t, i)'
  BY <1>1, <1>2 DEF Once
<1>6. ran'[<<t, i>>] <= 1
  BY <1>1 DEF Once
<1> QED
  BY <1>3, <1>4, <1>5, <1>6 DEF Once

\* The same for a step that leaves Telegram and the goroutines alone.
LEMMA OnceStill ==
    ASSUME BaseInv, OnceInStep, UNCHANGED <<bots, conf, ran, exposed>>
    PROVE  OnceInStep'
<1>1. \A t \in Tokens : conf[t] \in Nat /\ conf'[t] \in Nat /\ conf[t] <= conf'[t]
  BY BotBounds DEF BaseInv, TypeOK
<1>2. \A b \in BotIds, t \in Tokens, i \in 1..MaxCmds :
          (Has(b, t, i)' <=> Has(b, t, i)) /\ (Keeps(b, t, i)' <=> Keeps(b, t, i))
  BY DEF Has, Keeps, Present
<1>3. exposed \subseteq exposed'
  OBVIOUS
<1>4. \A b \in BotIds, t \in Tokens, i \in 1..MaxCmds : <<t, i>> \notin exposed' =>
               /\ Has(b, t, i)' => /\ Has(b, t, i)
                                   /\ conf'[t] <= i /\ bots[b].ctx => bots'[b].ctx
               /\ Keeps(b, t, i) /\ conf'[t] <= i => Keeps(b, t, i)'
  BY <1>2
<1> QED
  BY <1>1, <1>3, <1>4, OnceKept

LEMMA OnceCheck ==
    ASSUME BaseInv, OnceInStep, NEW b \in BotIds, CheckCtx(b)
    PROVE  OnceInStep'
<1>1. TypeOK /\ bots \in [BotIds -> BotRec]
  BY DEF BaseInv, TypeOK
<1>2. conf' = conf /\ ran' = ran /\ exposed' = exposed
  BY DEF CheckCtx, telegram, history
<1>3. \A t \in Tokens : conf[t] \in Nat /\ conf'[t] \in Nat /\ conf[t] <= conf'[t]
  BY <1>1, <1>2, BotBounds DEF TypeOK
<1>4. \A d \in BotIds : d # b => bots'[d] = bots[d] /\ (Present(d)' <=> Present(d))
  BY <1>1, CheckAt DEF Becomes, Present
<1>5. \/ ~bots[b].ctx /\ ~Present(b)'
      \/ /\ Present(b) /\ Present(b)' /\ bots[b].ctx /\ (bots'[b].ctx <=> bots[b].ctx)
         /\ bots'[b].tok = bots[b].tok /\ bots'[b].off = bots[b].off
         /\ bots'[b].batch = bots[b].batch
  BY <1>1, CheckAt
<1>6. \A d \in BotIds, t \in Tokens, i \in 1..MaxCmds : <<t, i>> \notin exposed' =>
               /\ Has(d, t, i)' => /\ Has(d, t, i)
                                   /\ conf'[t] <= i /\ bots[d].ctx => bots'[d].ctx
               /\ Keeps(d, t, i) /\ conf'[t] <= i => Keeps(d, t, i)'
  BY <1>4, <1>5 DEF Has, Keeps
<1>7. exposed \subseteq exposed'
  BY <1>2
<1> QED
  BY <1>2, <1>3, <1>6, <1>7, OnceKept

\* A poll moves what Telegram keeps upwards only.
LEMMA ConfRises ==
    ASSUME TypeOK, NEW b \in BotIds, Present(b),
           conf' \in {conf, [conf EXCEPT ![bots[b].tok] = Confirmed(b)]}
    PROVE  \A t \in Tokens : conf[t] \in Nat /\ conf'[t] \in Nat /\ conf[t] <= conf'[t]
<1>1. \A t \in Tokens : conf[t] \in Nat
  BY BotBounds DEF TypeOK
<1>2. bots[b].tok \in Tokens /\ Confirmed(b) \in Nat /\ Confirmed(b) >= conf[bots[b].tok]
  BY ConfirmedIs
<1>3. conf \in [Tokens -> 1..(MaxCmds + 1)]
  BY DEF TypeOK
<1> QED
  BY <1>1, <1>2, <1>3

LEMMA OnceFails ==
    ASSUME BaseInv, OnceInStep, NEW b \in BotIds, GetFails(b)
    PROVE  OnceInStep'
<1>1. TypeOK /\ bots \in [BotIds -> BotRec]
  BY DEF BaseInv, TypeOK
<1>2. /\ Stays(b) /\ bots'[b].off = bots[b].off /\ bots'[b].batch = bots[b].batch
      /\ conf' \in {conf, [conf EXCEPT ![bots[b].tok] = Confirmed(b)]}
  BY <1>1, FailsAt
<1>3. \A t \in Tokens : conf[t] \in Nat /\ conf'[t] \in Nat /\ conf[t] <= conf'[t]
  BY <1>1, <1>2, ConfRises DEF Stays
<1>4. \A d \in BotIds : d # b => bots'[d] = bots[d] /\ (Present(d)' <=> Present(d))
  BY <1>2 DEF Stays, Becomes, Present
<1>5. /\ Present(b) /\ Present(b)' /\ (bots'[b].ctx <=> bots[b].ctx)
      /\ bots'[b].tok = bots[b].tok
  BY <1>2 DEF Stays
<1>6. \A d \in BotIds, t \in Tokens, i \in 1..MaxCmds :
               /\ Has(d, t, i)' => Has(d, t, i)
               /\ bots[d].ctx /\ Has(d, t, i)' => bots'[d].ctx
               /\ Keeps(d, t, i) => Keeps(d, t, i)'
  BY <1>2, <1>4, <1>5 DEF Has, Keeps
<1>7. ran' = ran /\ exposed' = exposed /\ exposed \subseteq exposed'
  BY DEF GetFails, history
<1> QED
  BY <1>3, <1>6, <1>7, OnceKept

\* What is fetched by a goroutine that is meant to run and alone on its token has not been
\* carried out: who did would still be there to confirm it.
LEMMA OnceGet ==
    ASSUME BaseInv, OnceInStep, NEW b \in BotIds, GetUpdates(b)
    PROVE  OnceInStep'
<1>1. TypeOK /\ bots \in [BotIds -> BotRec]
  BY DEF BaseInv, TypeOK
<1> DEFINE s == bots[b].tok
           n == Confirmed(b)
<1>2. /\ Stays(b) /\ bots'[b].off = bots[b].off /\ bots'[b].batch = n..sent[s]
      /\ conf' = [conf EXCEPT ![s] = n]
  BY <1>1, GetAt
<1>3. Present(b) /\ s \in Tokens /\ n \in Nat /\ bots[b].off <= n /\ conf[s] <= n /\ sent[s] \in Nat
  BY <1>1, <1>2, ConfirmedIs, BotBounds DEF Stays
<1>4. \A t \in Tokens : conf[t] \in Nat /\ conf'[t] \in Nat /\ conf[t] <= conf'[t]
  BY <1>1, <1>2, <1>3, ConfRises
<1>5. conf'[s] = n
  BY <1>1, <1>2, <1>3 DEF TypeOK
<1>6. ran' = ran /\ exposed \subseteq exposed'
  BY DEF GetUpdates
<1>7. ~(bots[b].ctx /\ ~Beside(b)) => \A i \in n..sent[s] : <<s, i>> \in exposed'
  BY DEF GetUpdates
<1> HIDE DEF n
<1>8. \A d \in BotIds : d # b => bots'[d] = bots[d] /\ (Present(d)' <=> Present(d))
  BY <1>2 DEF Stays, Becomes, Present
<1>9. Present(b)' /\ (bots'[b].ctx <=> bots[b].ctx) /\ bots'[b].tok = s
  BY <1>2 DEF Stays
<1> SUFFICES ASSUME NEW t \in Tokens, NEW i \in 1..MaxCmds, <<t, i>> \notin exposed'
             PROVE  Once(t, i)'
  BY OncePartsNext
<1>10. Once(t, i) /\ (conf'[t] <= i => conf[t] <= i)
  BY <1>4, <1>6, OnceParts, BotBounds
<1>11. \A d \in BotIds : Keeps(d, t, i) => Keeps(d, t, i)'
  BY <1>2, <1>8, <1>9 DEF Keeps
<1>12. ran'[<<t, i>>] <= 1
  BY <1>6, <1>10 DEF Once
<1>13. ran'[<<t, i>>] > 0 /\ conf'[t] <= i => \E d \in BotIds : Keeps(d, t, i)'
  BY <1>6, <1>10, <1>11 DEF Once
<1>14. CASE ~Has(b, t, i)'
  <2>1. \A d \in BotIds : Has(d, t, i)' => Has(d, t, i) /\ (bots'[d].ctx <=> bots[d].ctx)
    BY <1>8, <1>14 DEF Has
  <2>2. \A d \in BotIds : Has(d, t, i)' => /\ ran'[<<t, i>>] = 0
                                           /\ conf'[t] <= i => bots'[d].ctx
    BY <1>6, <1>10, <2>1 DEF Once
  <2>3. \A d, e \in BotIds : Has(d, t, i)' /\ Has(e, t, i)' => d = e
    BY <1>10, <2>1 DEF Once
  <2> QED
    BY <1>12, <1>13, <2>2, <2>3 DEF Once
<1>15. CASE Has(b, t, i)'
  <2>1. t = s /\ i \in n..sent[s]
    BY <1>2, <1>9, <1>15 DEF Has
  <2>2. bots[b].ctx /\ ~Beside(b)
    BY <1>7, <2>1
  <2>3. \A d \in BotIds : Present(d) /\ bots[d].tok = t => d = b
    BY <2>1, <2>2 DEF Beside
  <2>4. \A d \in BotIds : Has(d, t, i)' => d = b
    BY <1>8, <2>3 DEF Has
  <2>5. ran'[<<t, i>>] = 0
    <3>1. conf[t] <= i
      BY <1>3, <1>5, <1>10, <2>1
    <3>2. ~Keeps(b, t, i)
      <4>1. bots[b].off \in 0..(MaxCmds + 1)
        BY <1>1, <1>3, Presence
      <4> QED
        BY <1>3, <2>1, <4>1 DEF Keeps
    <3>3. ~(ran[<<t, i>>] > 0)
      BY <1>10, <2>3, <3>1, <3>2 DEF Once, Keeps
    <3>4. ran[<<t, i>>] \in Nat
      <4>1. <<t, i>> \in Commands
        BY Numbers
      <4> QED
        BY <1>1, <4>1 DEF TypeOK, RunCap
    <3> QED
      BY <1>6, <3>3, <3>4
  <2>6. \A d \in BotIds : Has(d, t, i)' => /\ ran'[<<t, i>>] = 0
                                           /\ conf'[t] <= i => bots'[d].ctx
    BY <1>9, <2>2, <2>4, <2>5
  <2>7. \A d, e \in BotIds : Has(d, t, i)' /\ Has(e, t, i)' => d = e
    BY <2>4
  <2> QED
    BY <1>12, <1>13, <2>6, <2>7 DEF Once
<1> QED
  BY <1>14, <1>15

\* A command is carried out by the one goroutine that has it, which goes on to confirm it.
LEMMA OnceHandle ==
    ASSUME BaseInv, OnceInStep, NEW b \in BotIds, NEW k \in 1..MaxCmds, Handle(b, k)
    PROVE  OnceInStep'
<1>1. TypeOK /\ bots \in [BotIds -> BotRec] /\ BatchesOK
  BY DEF BaseInv, TypeOK
<1> DEFINE s == bots[b].tok
<1>2. /\ Stays(b) /\ bots'[b].off = k + 1 /\ bots'[b].batch = bots[b].batch \ {k}
      /\ k \in bots[b].batch
  BY <1>1, HandleAt
<1>3. Present(b) /\ s \in Tokens /\ bots[b].off <= k /\ bots[b].off \in 0..(MaxCmds + 1)
  BY <1>1, <1>2, Presence DEF Stays, BatchesOK
<1>4. conf' = conf /\ exposed' = exposed
  BY DEF Handle, telegram
<1>5. \A d \in BotIds : d # b => bots'[d] = bots[d] /\ (Present(d)' <=> Present(d))
  BY <1>2 DEF Stays, Becomes, Present
<1>6. Present(b)' /\ (bots'[b].ctx <=> bots[b].ctx) /\ bots'[b].tok = s
  BY <1>2 DEF Stays
<1>7. \A c \in Commands : c # <<s, k>> => ran'[c] = ran[c]
  BY <1>1 DEF Handle, TypeOK
<1>8. ran[<<s, k>>] = 0 => ran'[<<s, k>>] \in {0, 1}
  <2>1. <<s, k>> \in Commands
    BY <1>3, Numbers
  <2> QED
    BY <1>1, <2>1 DEF Handle, TypeOK, RunCap
<1> SUFFICES ASSUME NEW t \in Tokens, NEW i \in 1..MaxCmds, <<t, i>> \notin exposed
             PROVE  Once(t, i)'
  BY <1>4, OncePartsNext
<1>9. Once(t, i)
  BY OnceParts
<1>10. \A d \in BotIds : Has(d, t, i)' => Has(d, t, i) /\ (bots'[d].ctx <=> bots[d].ctx)
  BY <1>2, <1>3, <1>5, <1>6 DEF Has
<1>11. \A d, e \in BotIds : Has(d, t, i)' /\ Has(e, t, i)' => d = e
  BY <1>9, <1>10 DEF Once
<1>12. CASE <<t, i>> = <<s, k>>
  <2>1. t = s /\ i = k /\ Has(b, t, i)
    BY <1>2, <1>3, <1>12 DEF Has
  <2>2. ran[<<t, i>>] = 0 /\ (conf[t] <= i => bots[b].ctx)
    BY <1>9, <2>1 DEF Once
  <2>3. \A d \in BotIds : ~Has(d, t, i)'
    <3>1. ~Has(b, t, i)'
      BY <1>2, <2>1 DEF Has
    <3> QED
      BY <1>9, <1>10, <2>1, <3>1 DEF Once
  <2>4. ran'[<<t, i>>] <= 1
    BY <1>8, <1>12, <2>2
  <2>5. conf'[t] <= i => Keeps(b, t, i)'
    BY <1>2, <1>4, <1>6, <2>1, <2>2 DEF Keeps
  <2> QED
    BY <1>11, <2>3, <2>4, <2>5 DEF Once
<1>13. CASE <<t, i>> # <<s, k>>
  <2>1. ran'[<<t, i>>] = ran[<<t, i>>]
    <3>1. <<t, i>> \in Commands
      BY Numbers
    <3> QED
      BY <1>7, <1>13, <3>1
  <2>2. \A d \in BotIds : Keeps(d, t, i) => Keeps(d, t, i)'
    <3> SUFFICES ASSUME NEW d \in BotIds, Keeps(d, t, i) PROVE Keeps(d, t, i)'
      OBVIOUS
    <3>1. CASE d # b
      BY <1>5, <3>1 DEF Keeps
    <3>2. CASE d = b
      <4>1. bots'[b].off > i
        <5>1. bots[b].off > i
          BY <3>2 DEF Keeps
        <5> QED
          BY <1>2, <1>3, <5>1
      <4> QED
        BY <1>6, <3>2, <4>1 DEF Keeps
    <3> QED
      BY <3>1, <3>2
  <2>3. ran'[<<t, i>>] <= 1
    BY <1>9, <2>1 DEF Once
  <2>4. ran'[<<t, i>>] > 0 /\ conf'[t] <= i => \E d \in BotIds : Keeps(d, t, i)'
    BY <1>4, <1>9, <2>1, <2>2 DEF Once
  <2>5. \A d \in BotIds : Has(d, t, i)' => /\ ran'[<<t, i>>] = 0
                                           /\ conf'[t] <= i => bots'[d].ctx
    BY <1>4, <1>9, <1>10, <2>1 DEF Once
  <2> QED
    BY <1>11, <2>3, <2>4, <2>5 DEF Once
<1> QED
  BY <1>12, <1>13

\* What a goroutine has in its batch or would confirm, and Telegram keeps, is what it holds.
LEMMA HeldIs ==
    ASSUME NEW b \in BotIds, NEW t, NEW i \in 1..MaxCmds, conf[t] <= i,
           Has(b, t, i) \/ Keeps(b, t, i)
    PROVE  <<t, i>> \in Holds(b)
<1>1. Present(b) /\ bots[b].tok = t /\ (i \in bots[b].batch \/ i < bots[b].off \/ bots[b].off > i)
  BY DEF Has, Keeps
<1>2. i \in bots[b].batch \/ i < bots[b].off
  BY DEF Has, Keeps
<1> QED
  BY <1>1, <1>2 DEF Holds

LEMMA OnceStop ==
    ASSUME BaseInv, OnceInStep, NEW w \in Savers, StopBot(w)
    PROVE  OnceInStep'
<1>1. TypeOK /\ bots \in [BotIds -> BotRec] /\ botCancel \in 0..MaxBots
  BY DEF BaseInv, TypeOK
<1>2. \A b \in BotIds :
        /\ Present(b)' <=> Present(b)
        /\ Present(b) => /\ bots'[b].tok = bots[b].tok /\ bots'[b].off = bots[b].off
                         /\ bots'[b].batch = bots[b].batch
        /\ b # botCancel => bots'[b] = bots[b]
  BY <1>1, StopAt
<1>3. conf' = conf /\ ran' = ran /\ exposed \subseteq exposed'
  BY DEF StopBot, telegram
<1>4. \A t \in Tokens : conf[t] \in Nat /\ conf'[t] \in Nat /\ conf[t] <= conf'[t]
  BY <1>1, <1>3, BotBounds DEF TypeOK
<1>5. botCancel # 0 => Holds(botCancel) \subseteq exposed'
  BY DEF StopBot
<1> SUFFICES ASSUME NEW b \in BotIds, NEW t \in Tokens, NEW i \in 1..MaxCmds,
                    <<t, i>> \notin exposed'
             PROVE  /\ Has(b, t, i)' => /\ Has(b, t, i)
                                        /\ conf'[t] <= i /\ bots[b].ctx => bots'[b].ctx
                    /\ Keeps(b, t, i) /\ conf'[t] <= i => Keeps(b, t, i)'
  BY <1>3, <1>4, OnceKept
<1>6. Has(b, t, i)' => Has(b, t, i)
  BY <1>2 DEF Has
<1>7. CASE b # botCancel
  BY <1>2, <1>6, <1>7 DEF Keeps
<1>8. CASE b = botCancel
  <2>1. conf[t] <= i => ~Has(b, t, i) /\ ~Keeps(b, t, i)
    BY <1>5, <1>8, Numbers, HeldIs
  <2> QED
    BY <1>3, <1>6, <2>1
<1> QED
  BY <1>7, <1>8

LEMMA OnceStart ==
    ASSUME BaseInv, OnceInStep, NEW w \in Savers, StartBot(w)
    PROVE  OnceInStep'
<1>1. TypeOK /\ CountOK /\ StartsOK
  BY DEF BaseInv, TypeOK
<1>2. hk[w].tok \in Tokens
  BY <1>1, StartAt
<1>3. PICK b \in BotIds : /\ Becomes(b, NewBot(hk[w].tok)) /\ Present(b)' /\ ~Present(b)
  BY <1>1, StartAt
<1>4. bots'[b].batch = {} /\ \A d \in BotIds : d # b => bots'[d] = bots[d] /\ (Present(d)' <=> Present(d))
  BY <1>2, <1>3, NewBotShape DEF Becomes, Present
<1>5. conf' = conf /\ ran' = ran /\ exposed \subseteq exposed'
  BY DEF StartBot, telegram
<1>6. \A t \in Tokens : conf[t] \in Nat /\ conf'[t] \in Nat /\ conf[t] <= conf'[t]
  BY <1>1, <1>5, BotBounds DEF TypeOK
<1>7. \A d \in BotIds, t \in Tokens, i \in 1..MaxCmds :
               /\ Has(d, t, i)' => Has(d, t, i) /\ bots'[d] = bots[d]
               /\ Keeps(d, t, i) => Keeps(d, t, i)'
  BY <1>3, <1>4 DEF Has, Keeps
<1> QED
  BY <1>5, <1>6, <1>7, OnceKept

LEMMA OnceRestart ==
    ASSUME BaseInv, OnceInStep, PanelRestart
    PROVE  OnceInStep'
<1>1. TypeOK /\ CountOK
  BY DEF BaseInv, TypeOK
<1>2. Booted
  BY <1>1, BootAt
<1>3. conf' = conf /\ ran' = ran /\ exposed' = exposed \cup UNION {Holds(b) : b \in BotIds}
  BY DEF PanelRestart, telegram
<1>4. \A t \in Tokens : conf[t] \in Nat /\ conf'[t] \in Nat /\ conf[t] <= conf'[t]
  BY <1>1, <1>3, BotBounds DEF TypeOK
<1>5. \A b \in BotIds : Present(b)' => bots'[b].batch = {}
  BY <1>2, NewBotShape DEF Booted
<1>6. \A b \in BotIds, t \in Tokens, i \in 1..MaxCmds : ~Has(b, t, i)'
  BY <1>5 DEF Has
<1>7. ASSUME NEW b \in BotIds, NEW t \in Tokens, NEW i \in 1..MaxCmds, <<t, i>> \notin exposed',
             Keeps(b, t, i), conf'[t] <= i
      PROVE  FALSE
  <2>1. <<t, i>> \in Holds(b)
    BY <1>3, <1>7, HeldIs
  <2> QED
    BY <1>3, <1>7, <2>1
<1> QED
  BY <1>3, <1>4, <1>6, <1>7, OnceKept

LEMMA OnceStep == BaseInv /\ OnceInStep /\ [Next]_vars => OnceInStep'
<1> SUFFICES ASSUME BaseInv, OnceInStep, [Next]_vars PROVE OnceInStep'
  OBVIOUS
<1>1. ASSUME NEW w \in Savers,
             \/ \E t \in AnyToken \cup {Keep}, a \in BOOLEAN : Begin(w, t, a)
             \/ SaveToken(w) \/ SaveIds(w) \/ SaveFails(w) \/ SetTelegram(w)
      PROVE  OnceInStep'
  BY <1>1, OnceStill DEF Begin, SaveToken, SaveIds, SaveFails, SetTelegram, telegram, history
<1>2. CASE \E t \in Tokens : SendCommand(t)
  BY <1>2, OnceStill DEF SendCommand, history
<1>3. CASE UNCHANGED vars
  BY <1>3, OnceStill DEF vars
<1> QED
  BY <1>1, <1>2, <1>3, OnceStop, OnceStart, OnceCheck, OnceGet, OnceFails, OnceHandle,
     OnceRestart DEF Next

\* A command is carried out twice only if a goroutine that had fetched it was given up before
\* it confirmed it, or fetched it when given up or beside another (bot.go startBot), however
\* many are started, fail to poll and are replaced.
THEOREM CommandsOnce == Spec => []CommandOnce
<1>1. BaseInv /\ OnceInStep => CommandOnce
  <2> SUFFICES ASSUME BaseInv, OnceInStep, NEW t \in Tokens, NEW i \in 1..MaxCmds,
                      <<t, i>> \notin exposed
               PROVE  ~(ran[<<t, i>>] > 1)
    BY Numbers DEF CommandOnce
  <2>1. ran[<<t, i>>] <= 1
    BY DEF OnceInStep
  <2>2. ran[<<t, i>>] \in Nat
    <3>1. <<t, i>> \in Commands
      BY Numbers
    <3> QED
      BY <3>1 DEF BaseInv, TypeOK, RunCap
  <2> QED
    BY <2>1, <2>2
<1> QED
  BY <1>1, OnceInit, OnceStep, BaseAlways, PTL DEF Spec

-----------------------------------------------------------------------------
(* What Telegram was told to forget. *)

LEMMA LostInit == Init => LostInStep
<1> SUFFICES ASSUME Init PROVE LostInStep
  OBVIOUS
<1>1. \A t \in Tokens : conf[t] = 1
  BY DEF Init
<1>2. \A b \in BotIds : Present(b) => bots[b].off = 0 /\ bots[b].batch = {}
  <2> SUFFICES ASSUME NEW b \in BotIds, Present(b) PROVE bots[b].off = 0 /\ bots[b].batch = {}
    OBVIOUS
  <2>1. bots[b] = IF b = botCancel THEN NewBot(db.tok) ELSE Absent
    BY DEF Init
  <2>2. bots[b] = NewBot(db.tok)
    BY <2>1, RecShapes DEF Present
  <2> QED
    BY <2>2 DEF NewBot
<1>3. \A i \in 1..MaxCmds : ~(i < 1) /\ ~(i < 0)
  BY BotBounds
<1> QED
  BY <1>1, <1>2, <1>3 DEF LostInStep

\* Answered, after the step.
StillAnswered(t, i) == ran'[<<t, i>>] > 0 \/ <<t, i>> \in refused'

LEMMA LostPartsNext ==
    ASSUME \A t \in Tokens, i \in 1..MaxCmds : i < conf'[t] => StillAnswered(t, i),
           \A b \in BotIds : Present(b)' => \A i \in 1..MaxCmds :
              /\ i < bots'[b].off => StillAnswered(bots'[b].tok, i)
              /\ i \notin bots'[b].batch /\ (\E j \in bots'[b].batch : i < j) =>
                    StillAnswered(bots'[b].tok, i)
    PROVE  LostInStep'
BY DEF LostInStep, Answered, StillAnswered, Present

\* Answers stay answers; a goroutine is as before, or new.
LEMMA LostKept ==
    ASSUME LostInStep, conf' = conf, ran' = ran, refused' = refused,
           \A b \in BotIds : Present(b)' =>
               \/ /\ Present(b) /\ bots'[b].tok = bots[b].tok /\ bots'[b].off = bots[b].off
                  /\ bots'[b].batch = bots[b].batch
               \/ bots'[b].off = 0 /\ bots'[b].batch = {}
    PROVE  LostInStep'
<1>1. \A t \in Tokens, i \in 1..MaxCmds : i < conf'[t] => StillAnswered(t, i)
  BY DEF LostInStep, Answered, StillAnswered
<1>2. \A b \in BotIds : Present(b)' => \A i \in 1..MaxCmds :
          /\ i < bots'[b].off => StillAnswered(bots'[b].tok, i)
          /\ i \notin bots'[b].batch /\ (\E j \in bots'[b].batch : i < j) =>
                StillAnswered(bots'[b].tok, i)
  <2> SUFFICES ASSUME NEW b \in BotIds, Present(b)', NEW i \in 1..MaxCmds
               PROVE  /\ i < bots'[b].off => StillAnswered(bots'[b].tok, i)
                      /\ i \notin bots'[b].batch /\ (\E j \in bots'[b].batch : i < j) =>
                            StillAnswered(bots'[b].tok, i)
    OBVIOUS
  <2>1. CASE /\ Present(b) /\ bots'[b].tok = bots[b].tok /\ bots'[b].off = bots[b].off
             /\ bots'[b].batch = bots[b].batch
    BY <2>1 DEF LostInStep, Answered, StillAnswered
  <2>2. CASE bots'[b].off = 0 /\ bots'[b].batch = {}
    BY <2>2, BotBounds
  <2> QED
    BY <2>1, <2>2
<1> QED
  BY <1>1, <1>2, LostPartsNext

\* What is confirmed is below what was confirmed, or below the offset.
LEMMA LostConf ==
    ASSUME TypeOK, LostInStep, NEW b \in BotIds, Present(b)
    PROVE  \A i \in 1..MaxCmds : i < Confirmed(b) => Answered(bots[b].tok, i)
<1>1. bots[b].tok \in Tokens /\ (Confirmed(b) = conf[bots[b].tok] \/ Confirmed(b) = bots[b].off)
  BY ConfirmedIs
<1> QED
  BY <1>1 DEF LostInStep

LEMMA LostPoll ==
    ASSUME BaseInv, LostInStep, NEW b \in BotIds, GetUpdates(b) \/ GetFails(b)
    PROVE  LostInStep'
<1>1. TypeOK /\ bots \in [BotIds -> BotRec] /\ conf \in [Tokens -> 1..(MaxCmds + 1)]
  BY DEF BaseInv, TypeOK
<1> DEFINE s == bots[b].tok
           n == Confirmed(b)
<1>2. /\ Stays(b) /\ bots'[b].off = bots[b].off
      /\ bots'[b].batch = n..sent[s] \/ bots'[b].batch = bots[b].batch
      /\ conf' \in {conf, [conf EXCEPT ![s] = n]}
  BY <1>1, GetAt, FailsAt
<1>3. Present(b) /\ s \in Tokens /\ n \in Nat /\ sent[s] \in Nat
  BY <1>1, <1>2, ConfirmedIs, BotBounds DEF Stays
<1>4. \A i \in 1..MaxCmds : i < n => Answered(s, i)
  BY <1>1, <1>3, LostConf
<1>5. \A t, i : StillAnswered(t, i) <=> Answered(t, i)
  <2>1. ran' = ran /\ refused' = refused
    BY DEF GetUpdates, GetFails, history
  <2> QED
    BY <2>1 DEF Answered, StillAnswered
<1>6. \A d \in BotIds : d # b => bots'[d] = bots[d] /\ (Present(d)' <=> Present(d))
  BY <1>2 DEF Stays, Becomes, Present
<1>7. Present(b)' /\ bots'[b].tok = s
  BY <1>2 DEF Stays
<1> HIDE DEF n
<1>8. \A t \in Tokens, i \in 1..MaxCmds : i < conf'[t] => StillAnswered(t, i)
  <2> SUFFICES ASSUME NEW t \in Tokens, NEW i \in 1..MaxCmds, i < conf'[t] PROVE Answered(t, i)
    BY <1>5
  <2>1. conf'[t] = conf[t] \/ (t = s /\ conf'[t] = n)
    BY <1>1, <1>2
  <2> QED
    BY <1>4, <2>1 DEF LostInStep
<1>9. ASSUME NEW i \in 1..MaxCmds, i \notin bots'[b].batch, NEW j \in bots'[b].batch, i < j
      PROVE  Answered(s, i)
  <2>1. CASE bots'[b].batch = bots[b].batch
    BY <1>3, <1>9, <2>1 DEF LostInStep
  <2>2. CASE bots'[b].batch = n..sent[s]
    <3>1. i < n
      BY <1>3, <1>9, <2>2
    <3> QED
      BY <1>4, <3>1
  <2> QED
    BY <1>2, <2>1, <2>2
<1>10. \A i \in 1..MaxCmds : i < bots'[b].off => Answered(s, i)
  BY <1>2, <1>3 DEF LostInStep
<1>11. \A d \in BotIds : Present(d)' => \A i \in 1..MaxCmds :
          /\ i < bots'[d].off => StillAnswered(bots'[d].tok, i)
          /\ i \notin bots'[d].batch /\ (\E j \in bots'[d].batch : i < j) =>
                StillAnswered(bots'[d].tok, i)
  <2> TAKE d \in BotIds
  <2>1. CASE d = b
    BY <1>5, <1>7, <1>9, <1>10, <2>1
  <2>2. CASE d # b
    BY <1>5, <1>6, <2>2 DEF LostInStep
  <2> QED
    BY <2>1, <2>2
<1> QED
  BY <1>8, <1>11, LostPartsNext

LEMMA LostHandle ==
    ASSUME BaseInv, LostInStep, NEW b \in BotIds, NEW k \in 1..MaxCmds, Handle(b, k)
    PROVE  LostInStep'
<1>1. TypeOK /\ bots \in [BotIds -> BotRec] /\ ran \in [Commands -> 0..RunCap]
  BY DEF BaseInv, TypeOK
<1> DEFINE s == bots[b].tok
<1>2. /\ Stays(b) /\ bots'[b].off = k + 1 /\ bots'[b].batch = bots[b].batch \ {k}
      /\ k \in bots[b].batch /\ \A j \in bots[b].batch : k <= j
  BY <1>1, HandleAt
<1>3. Present(b) /\ s \in Tokens /\ bots[b].batch \subseteq 1..MaxCmds
  BY <1>1, <1>2, Presence DEF Stays
<1>4. conf' = conf
  BY DEF Handle, telegram
<1>5. \A t \in Tokens, i \in 1..MaxCmds : Answered(t, i) => StillAnswered(t, i)
  <2> SUFFICES ASSUME NEW t \in Tokens, NEW i \in 1..MaxCmds PROVE Answered(t, i) => StillAnswered(t, i)
    OBVIOUS
  <2>1. <<t, i>> \in Commands
    BY Numbers
  <2>2. \/ ran' = [ran EXCEPT ![<<s, k>>] = IF @ < RunCap THEN @ + 1 ELSE @] /\ refused' = refused
        \/ refused' = refused \cup {<<s, k>>} /\ ran' = ran
    BY DEF Handle
  <2> DEFINE c == <<t, i>>
             e == <<s, k>>
  <2> HIDE DEF c, e
  <2>3. ran[c] > 0 => ran'[c] > 0
    BY <1>1, <2>1, <2>2 DEF RunCap, c, e
  <2>4. c \in refused => c \in refused'
    BY <2>2
  <2> QED
    BY <2>3, <2>4 DEF Answered, StillAnswered, c
<1>6. StillAnswered(s, k)
  <2>1. <<s, k>> \in Commands
    BY <1>3, Numbers
  <2> DEFINE e == <<s, k>>
  <2>2. \/ ran' = [ran EXCEPT ![e] = IF @ < RunCap THEN @ + 1 ELSE @]
        \/ e \in refused'
    BY DEF Handle
  <2> HIDE DEF e
  <2>3. ran'[e] > 0 \/ e \in refused'
    BY <1>1, <2>1, <2>2 DEF RunCap, e
  <2> QED
    BY <2>3 DEF Answered, StillAnswered, e
<1>7. \A d \in BotIds : d # b => bots'[d] = bots[d] /\ (Present(d)' <=> Present(d))
  BY <1>2 DEF Stays, Becomes, Present
<1>8. bots'[b].tok = s
  BY <1>2 DEF Stays
<1>9. \A t \in Tokens, i \in 1..MaxCmds : i < conf'[t] => StillAnswered(t, i)
  BY <1>4, <1>5 DEF LostInStep
<1>10. \A i \in 1..MaxCmds : i < k => Answered(s, i)
  <2> SUFFICES ASSUME NEW i \in 1..MaxCmds, i < k PROVE Answered(s, i)
    OBVIOUS
  <2>1. i \notin bots[b].batch
    BY <1>2
  <2> QED
    BY <1>2, <1>3, <2>1 DEF LostInStep
<1>11. ASSUME NEW i \in 1..MaxCmds, i < bots'[b].off PROVE StillAnswered(s, i)
  <2>1. i < k \/ i = k
    BY <1>2, <1>11
  <2> QED
    BY <1>3, <1>5, <1>6, <1>10, <2>1
<1>12. ASSUME NEW i \in 1..MaxCmds, i \notin bots'[b].batch, NEW j \in bots'[b].batch, i < j
       PROVE  StillAnswered(s, i)
  <2>1. CASE i = k
    BY <1>6, <2>1
  <2>2. CASE i # k
    BY <1>2, <1>3, <1>5, <1>12, <2>2 DEF LostInStep
  <2> QED
    BY <2>1, <2>2
<1>13. \A d \in BotIds : Present(d) => bots[d].tok \in Tokens
  BY <1>1, Presence
<1>14. \A d \in BotIds : Present(d)' => \A i \in 1..MaxCmds :
          /\ i < bots'[d].off => StillAnswered(bots'[d].tok, i)
          /\ i \notin bots'[d].batch /\ (\E j \in bots'[d].batch : i < j) =>
                StillAnswered(bots'[d].tok, i)
  <2> TAKE d \in BotIds
  <2>1. CASE d = b
    BY <1>8, <1>11, <1>12, <2>1
  <2>2. CASE d # b
    BY <1>5, <1>7, <1>13, <2>2 DEF LostInStep
  <2> QED
    BY <2>1, <2>2
<1> QED
  BY <1>9, <1>14, LostPartsNext

LEMMA LostStep == BaseInv /\ LostInStep /\ [Next]_vars => LostInStep'
<1> SUFFICES ASSUME BaseInv, LostInStep, [Next]_vars PROVE LostInStep'
  OBVIOUS
<1>1. TypeOK /\ CountOK /\ StartsOK /\ bots \in [BotIds -> BotRec]
  BY DEF BaseInv, TypeOK
<1>2. ASSUME UNCHANGED <<bots, conf, ran, refused>> PROVE LostInStep'
  BY <1>2, LostKept DEF Present
<1>3. ASSUME NEW w \in Savers,
             \/ \E t \in AnyToken \cup {Keep}, a \in BOOLEAN : Begin(w, t, a)
             \/ SaveToken(w) \/ SaveIds(w) \/ SaveFails(w) \/ SetTelegram(w)
      PROVE  LostInStep'
  BY <1>2, <1>3 DEF Begin, SaveToken, SaveIds, SaveFails, SetTelegram, telegram, history
<1>4. ASSUME NEW w \in Savers, StopBot(w) PROVE LostInStep'
  BY <1>1, <1>4, StopAt, LostKept DEF StopBot, telegram
<1>5. ASSUME NEW w \in Savers, StartBot(w) PROVE LostInStep'
  <2>1. PICK b \in BotIds : Becomes(b, NewBot(hk[w].tok)) /\ hk[w].tok \in Tokens
    BY <1>1, <1>5, StartAt
  <2>2. bots'[b].off = 0 /\ bots'[b].batch = {}
    BY <2>1, NewBotShape DEF Becomes
  <2>3. \A d \in BotIds : d # b => bots'[d] = bots[d] /\ (Present(d)' <=> Present(d))
    BY <2>1 DEF Becomes, Present
  <2> QED
    BY <1>5, <2>2, <2>3, LostKept DEF StartBot, telegram
<1>6. ASSUME NEW b \in BotIds, CheckCtx(b) PROVE LostInStep'
  <2>1. \A d \in BotIds : d # b => bots'[d] = bots[d] /\ (Present(d)' <=> Present(d))
    BY <1>1, <1>6, CheckAt DEF Becomes, Present
  <2>2. Present(b)' => /\ Present(b) /\ bots'[b].tok = bots[b].tok /\ bots'[b].off = bots[b].off
                       /\ bots'[b].batch = bots[b].batch
    BY <1>1, <1>6, CheckAt
  <2>3. conf' = conf /\ ran' = ran /\ refused' = refused
    BY <1>6 DEF CheckCtx, telegram, history
  <2> QED
    BY <2>1, <2>2, <2>3, LostKept
<1>7. CASE \E t \in Tokens : SendCommand(t)
  BY <1>2, <1>7 DEF SendCommand, history
<1>8. CASE PanelRestart
  <2>1. Booted
    BY <1>1, <1>8, BootAt
  <2>2. \A b \in BotIds : Present(b)' => bots'[b].off = 0 /\ bots'[b].batch = {}
    BY <2>1, NewBotShape DEF Booted
  <2> QED
    BY <1>8, <2>2, LostKept DEF PanelRestart, telegram
<1>9. CASE UNCHANGED vars
  BY <1>2, <1>9 DEF vars
<1> QED
  BY <1>3, <1>4, <1>5, <1>6, <1>7, <1>8, <1>9, LostPoll, LostHandle DEF Next

\* What Telegram was told to forget has been carried out or refused, however many goroutines
\* were replaced, leaked or stopped in a batch (bot.go startBot).
THEOREM NothingForgotten == Spec => []NoCommandLost
<1>1. LostInStep => NoCommandLost
  BY Numbers DEF LostInStep, NoCommandLost, Answered
<1> QED
  BY <1>1, LostInit, LostStep, BaseAlways, PTL DEF Spec
=============================================================================

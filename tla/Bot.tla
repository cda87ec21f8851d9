-------------------------------- MODULE Bot --------------------------------
(***************************************************************************)
(* The panel's Telegram bot: its settings, live and stored                 *)
(* (internal/panel/notify.go, app.go), the goroutine that polls for        *)
(* commands (bot.go startBot), and its replacement when the settings are   *)
(* saved (app.go restartBot).  What a command does to users is Accounts'   *)
(* subject; here it counts how often a command was carried out.            *)
(*                                                                         *)
(* Telegram's side is external: getUpdates(offset) forgets the updates     *)
(* below offset and returns the rest.  A replaced goroutine is not waited  *)
(* for: it may be in a 30-second poll, or in the middle of a batch.        *)
(***************************************************************************)
EXTENDS Integers, FiniteSets

CONSTANTS
    Tokens,     \* bot tokens, each a bot of its own at Telegram
    NoToken,    \* the empty token: Telegram disabled
    Keep,       \* the request leaves the token alone (a nil token)
    Savers,     \* goroutines inside handleNotifySettings
    MaxChanges, \* bound: settings requests and stops of the panel, together
    MaxCmds,    \* bound: commands sent to the bots
    Faults      \* which FaultKinds the run injects

FaultKinds == {"dbError", "getError"}
MaxBots    == 1 + MaxChanges                \* bound: startBot goroutines
RunCap     == 2                             \* bound: "twice or more"

ASSUME TokensAssumption ==
    NoToken \notin Tokens /\ Keep \notin Tokens /\ Keep # NoToken
ASSUME BotBounds == MaxChanges \in Nat /\ MaxCmds \in Nat
ASSUME BotFaults == Faults \subseteq FaultKinds

VARIABLES
    tg,         \* App.tgToken, App.tgAdmins: is the operator's chat among them?
    db,         \* settings table: telegram_token, telegram_admin_ids
    botCancel,  \* App.botCancel: the goroutine it cancels, 0: nil
    bots,       \* startBot goroutines
    hk,         \* hk[w]: where a request is in handleNotifySettings
    sent,       \* sent[t]: commands the operator sent to token t's bot
    conf,       \* conf[t]: the first update Telegram still keeps for t
    changes,    \* requests and stops so far
    (* history, read by no action of the system *)
    ran,        \* ran[c]: how often command c was carried out
    refused,    \* commands answered "Unauthorized"
    leaked,     \* goroutines whose cancel function was overwritten
    stale,      \* a goroutine was started with a token no longer the live one
    mixed,      \* two requests overlapped, or one failed half way
    exposed     \* commands fetched and unconfirmed by a goroutine given up or not alone

telegram == <<sent, conf>>
history  == <<ran, refused, leaked, stale, mixed, exposed>>
vars == <<tg, db, botCancel, bots, hk, sent, conf, changes,
          ran, refused, leaked, stale, mixed, exposed>>

AnyToken == Tokens \cup {NoToken}
Setting  == [tok: AnyToken, adm: BOOLEAN]
BotIds   == 1..MaxBots
Commands == Tokens \X (1..MaxCmds)

Idle    == [pc |-> "idle"]
Saver   == {Idle} \cup [pc: {"token", "ids", "live", "stop", "start"},
                        new: AnyToken, adm: BOOLEAN, tok: AnyToken]
Absent  == [pc |-> "none"]
Gone    == [pc |-> "gone"]
BotRec  == {Absent, Gone} \cup [pc: {"top", "poll", "handle"}, tok: Tokens,
                     off: 0..(MaxCmds + 1), batch: SUBSET (1..MaxCmds), ctx: BOOLEAN]

Present(b) == bots[b].pc \notin {"none", "gone"}
\* The goroutines nobody has told to stop.
Running    == {b \in BotIds : Present(b) /\ bots[b].ctx}
Quiet      == \A w \in Savers : hk[w].pc = "idle"

\* Bug: a new goroutine skips what was sent before it.
BugNewBot(t) == [pc |-> "top", tok |-> t, off |-> sent[t] + 1, batch |-> {}, ctx |-> TRUE]

\* startBot's beginning, with a context of its own and offset 0.
NewBot(t) == [pc |-> "top", tok |-> t, off |-> 0, batch |-> {}, ctx |-> TRUE]
NextBot   == CHOOSE b \in BotIds : bots[b] = Absent /\ \A d \in 1..(b - 1) : bots[d] # Absent

\* What goroutine b has fetched and Telegram still keeps.
Holds(b) == IF Present(b) THEN {<<bots[b].tok, i>> : i \in {j \in 1..MaxCmds :
                conf[bots[b].tok] <= j /\ (j \in bots[b].batch \/ j < bots[b].off)}}
            ELSE {}

\* Run: the stored settings become the live ones, and the bot is started.
Boot(s) ==
    /\ tg' = s
    /\ botCancel' = IF s.tok = NoToken THEN 0 ELSE NextBot
    /\ bots' = [b \in BotIds |->
                    IF s.tok # NoToken /\ b = NextBot THEN NewBot(s.tok)
                    ELSE IF Present(b) THEN Gone ELSE bots[b]]

Init ==
    /\ sent = [t \in Tokens |-> 0]
    /\ db \in Setting
    /\ tg = db
    /\ botCancel = IF db.tok = NoToken THEN 0 ELSE 1
    /\ bots = [b \in BotIds |-> IF b = botCancel THEN NewBot(db.tok) ELSE Absent]
    /\ hk = [w \in Savers |-> Idle]
    /\ conf = [t \in Tokens |-> 1]
    /\ changes = 0
    /\ ran = [c \in Commands |-> 0]
    /\ refused = {} /\ leaked = {} /\ exposed = {}
    /\ stale = FALSE /\ mixed = FALSE

-----------------------------------------------------------------------------
(* handleNotifySettings. *)

\* The request arrives and the current token is read.
Begin(w, tok, adm) ==
    /\ hk[w].pc = "idle"
    /\ changes < MaxChanges
    /\ changes' = changes + 1
    /\ hk' = [hk EXCEPT ![w] = [pc |-> IF tok = Keep THEN "ids" ELSE "token",
                                new |-> IF tok = Keep THEN tg.tok ELSE tok,
                                adm |-> adm, tok |-> NoToken]]
    /\ mixed' = (mixed \/ \E v \in Savers : hk[v].pc \in {"token", "ids", "live"})
    /\ UNCHANGED <<tg, db, botCancel, bots, telegram, ran, refused, leaked,
                   stale, exposed>>

\* SetSecretSetting("telegram_token").
SaveToken(w) ==
    /\ hk[w].pc = "token"
    /\ db' = [db EXCEPT !.tok = hk[w].new]
    /\ hk' = [hk EXCEPT ![w].pc = "ids"]
    /\ UNCHANGED <<tg, botCancel, bots, telegram, changes, history>>

\* SetSetting("telegram_admin_ids").
SaveIds(w) ==
    /\ hk[w].pc = "ids"
    /\ db' = [db EXCEPT !.adm = hk[w].adm]
    /\ hk' = [hk EXCEPT ![w].pc = "live"]
    /\ UNCHANGED <<tg, botCancel, bots, telegram, changes, history>>

\* Either fails: the request ends there; a token already stored stays stored.
SaveFails(w) ==
    /\ "dbError" \in Faults
    /\ hk[w].pc \in {"token", "ids"}
    /\ hk' = [hk EXCEPT ![w] = Idle]
    /\ mixed' = (mixed \/ hk[w].pc = "ids")
    /\ UNCHANGED <<tg, db, botCancel, bots, telegram, changes, ran, refused,
                   leaked, stale, exposed>>

\* Bug: only the token goes live, the chat ids wait for a restart.
BugSetTelegram(w) ==
    /\ hk[w].pc = "live"
    /\ tg' = [tg EXCEPT !.tok = hk[w].new]
    /\ hk' = [hk EXCEPT ![w].pc = "stop"]
    /\ UNCHANGED <<db, botCancel, bots, telegram, changes, history>>

\* setTelegram.
SetTelegram(w) ==
    /\ hk[w].pc = "live"
    /\ tg' = [tok |-> hk[w].new, adm |-> hk[w].adm]
    /\ hk' = [hk EXCEPT ![w].pc = "stop"]
    /\ UNCHANGED <<db, botCancel, bots, telegram, changes, history>>

-----------------------------------------------------------------------------
(* restartBot: two critical sections of tgMu. *)

\* The first: cancel what runs, read the live token.
StopBot(w) ==
    /\ hk[w].pc = "stop"
    /\ bots' = [b \in BotIds |-> IF b = botCancel /\ Present(b)
                                 THEN [bots[b] EXCEPT !.ctx = FALSE] ELSE bots[b]]
    /\ exposed' = IF botCancel = 0 THEN exposed ELSE exposed \cup Holds(botCancel)
    /\ botCancel' = 0
    /\ stale' = FALSE
    /\ hk' = [hk EXCEPT ![w] = IF tg.tok = NoToken THEN Idle
                               ELSE [@ EXCEPT !.pc = "start", !.tok = tg.tok]]
    /\ UNCHANGED <<tg, db, telegram, changes, ran, refused, leaked, mixed>>

\* The second: remember the new cancel function, whatever it replaces, and go.
StartBot(w) ==
    /\ hk[w].pc = "start"
    /\ bots' = [bots EXCEPT ![NextBot] = NewBot(hk[w].tok)]
    /\ botCancel' = NextBot
    /\ leaked' = IF botCancel = 0 THEN leaked ELSE leaked \cup {botCancel}
    /\ stale' = (hk[w].tok # tg.tok)
    /\ exposed' = IF botCancel = 0 THEN exposed ELSE exposed \cup Holds(botCancel)
    /\ hk' = [hk EXCEPT ![w] = Idle]
    /\ UNCHANGED <<tg, db, telegram, changes, ran, refused, mixed>>

-----------------------------------------------------------------------------
(* startBot. *)

\* The top of the loop: a cancelled goroutine returns.
CheckCtx(b) ==
    /\ bots[b].pc = "top"
    /\ bots' = [bots EXCEPT ![b] = IF @.ctx THEN [@ EXCEPT !.pc = "poll"] ELSE Gone]
    /\ UNCHANGED <<tg, db, botCancel, hk, telegram, changes, history>>

\* Telegram's getUpdates with the goroutine's offset.
Confirmed(b) == IF conf[bots[b].tok] < bots[b].off THEN bots[b].off ELSE conf[bots[b].tok]

\* Another goroutine polls the same bot.
Beside(b) == \E d \in BotIds \ {b} : Present(d) /\ bots[d].tok = bots[b].tok

\* Where the loop goes with these commands left.
After(batch) == IF batch = {} THEN "top" ELSE "handle"

\* botGetUpdates returns; the poll may have begun before the goroutine was cancelled.
GetUpdates(b) ==
    /\ bots[b].pc = "poll"
    /\ LET t == bots[b].tok
           new == Confirmed(b)..sent[t]
       IN  /\ conf' = [conf EXCEPT ![t] = Confirmed(b)]
           /\ bots' = [bots EXCEPT ![b].batch = new, ![b].pc = After(new)]
           /\ exposed' = IF bots[b].ctx /\ ~Beside(b) THEN exposed
                         ELSE exposed \cup {<<t, i>> : i \in new}
    /\ UNCHANGED <<tg, db, botCancel, hk, sent, changes, ran, refused, leaked,
                   stale, mixed>>

\* Bug: a failed poll ends the goroutine.
BugGetFails(b) ==
    /\ "getError" \in Faults
    /\ bots[b].pc = "poll"
    /\ conf' \in {conf, [conf EXCEPT ![bots[b].tok] = Confirmed(b)]}
    /\ bots' = [bots EXCEPT ![b] = Gone]
    /\ UNCHANGED <<tg, db, botCancel, hk, sent, changes, history>>

\* botGetUpdates fails, before or after Telegram has heard the offset; sleep.
GetFails(b) ==
    /\ "getError" \in Faults
    /\ bots[b].pc = "poll"
    /\ conf' \in {conf, [conf EXCEPT ![bots[b].tok] = Confirmed(b)]}
    /\ bots' = [bots EXCEPT ![b].pc = "top"]
    /\ UNCHANGED <<tg, db, botCancel, hk, sent, changes, history>>

\* Bug: the offset is that of the update itself.
BugOffset(i) == i

\* Bug: one is added twice.
BugOffsetTwice(i) == i + 2

\* The offset that confirms update i.
Offset(i) == i + 1

\* botAuthorized: the live settings, not those the goroutine was started under.
Authorized == tg.adm

\* botHandle of the batch's next command.
Handle(b, i) ==
    /\ bots[b].pc = "handle"
    /\ i \in bots[b].batch
    /\ \A j \in bots[b].batch : i <= j
    /\ bots' = [bots EXCEPT ![b].off = Offset(i), ![b].batch = @ \ {i},
                            ![b].pc = After(bots[b].batch \ {i})]
    /\ LET c == <<bots[b].tok, i>>
       IN  IF Authorized THEN /\ ran' = [ran EXCEPT ![c] = IF @ < RunCap THEN @ + 1 ELSE @]
                          /\ UNCHANGED refused
           ELSE refused' = refused \cup {c} /\ UNCHANGED ran
    /\ UNCHANGED <<tg, db, botCancel, hk, telegram, changes, leaked, stale,
                   mixed, exposed>>

-----------------------------------------------------------------------------
(* Around it. *)

\* The operator sends a command to a bot.  (Bound: to one of the bots only.)
SendCommand(t) ==
    /\ sent[t] < MaxCmds
    /\ \A s \in Tokens \ {t} : sent[s] = 0
    /\ sent' = [sent EXCEPT ![t] = @ + 1]
    /\ UNCHANGED <<tg, db, botCancel, bots, hk, conf, changes, history>>

\* The panel process ends and starts again.
PanelRestart ==
    /\ changes < MaxChanges
    /\ changes' = changes + 1
    /\ Boot(db)
    /\ hk' = [w \in Savers |-> Idle]
    /\ exposed' = exposed \cup UNION {Holds(b) : b \in BotIds}
    /\ leaked' = {}
    /\ stale' = FALSE
    /\ mixed' = FALSE
    /\ UNCHANGED <<db, telegram, ran, refused>>

Next ==
    \/ \E w \in Savers :
        \/ \E tok \in AnyToken \cup {Keep}, adm \in BOOLEAN : Begin(w, tok, adm)
        \/ SaveToken(w) \/ SaveIds(w) \/ SaveFails(w) \/ SetTelegram(w)
        \/ StopBot(w) \/ StartBot(w)
    \/ \E b \in BotIds :
        \/ CheckCtx(b) \/ GetUpdates(b) \/ GetFails(b)
        \/ \E i \in 1..MaxCmds : Handle(b, i)
    \/ \E t \in Tokens : SendCommand(t)
    \/ PanelRestart

Spec == Init /\ [][Next]_vars

-----------------------------------------------------------------------------
(* Properties. *)

\* Types; a goroutine's offset is never beyond what was sent to its bot
\* (bot.go startBot), and botCancel is a goroutine that was started.
TypeOK ==
    /\ tg \in Setting /\ db \in Setting
    /\ botCancel \in 0..MaxBots
    /\ botCancel # 0 => bots[botCancel] # Absent
    /\ bots \in [BotIds -> BotRec]
    /\ hk \in [Savers -> Saver]
    /\ sent \in [Tokens -> 0..MaxCmds]
    /\ conf \in [Tokens -> 1..(MaxCmds + 1)]
    /\ changes \in 0..MaxChanges
    /\ ran \in [Commands -> 0..RunCap]
    /\ refused \subseteq Commands /\ exposed \subseteq Commands
    /\ leaked \subseteq BotIds
    /\ stale \in BOOLEAN /\ mixed \in BOOLEAN
    /\ \A b \in BotIds : Present(b) => bots[b].off <= sent[bots[b].tok] + 1

\* With no request under way exactly one goroutine is meant to run, for the live
\* token, and botCancel can stop it; none if Telegram is disabled (app.go
\* restartBot: "stops any running bot loop and starts a fresh one").  Excepted:
\* goroutines whose cancel function a concurrent restart overwrote, and, until
\* the next save, a restart that overtook a change of the token.
OneBot ==
    (Quiet /\ ~stale) =>
        /\ Running \ leaked = IF tg.tok = NoToken THEN {} ELSE {botCancel}
        /\ tg.tok # NoToken => bots[botCancel].tok = tg.tok

\* With no request under way a restart of the panel changes no setting (notify.go
\* handleNotifySettings stores, then sets), unless two requests overlapped or one
\* failed half way since the panel started.
StoredIsLive == (Quiet /\ ~mixed) => tg = db

\* A command is carried out twice only if a goroutine that had fetched it was
\* cancelled, stopped or leaked before its next poll confirmed it, or fetched it
\* when already cancelled or beside another one (bot.go startBot).
CommandOnce == \A c \in Commands : ran[c] > 1 => c \in exposed

\* What Telegram was told to forget has been carried out or refused, however
\* goroutines were replaced, leaked, or stopped in a batch (bot.go startBot).
NoCommandLost ==
    \A c \in Commands : c[2] < conf[c[1]] => ran[c] > 0 \/ c \in refused

=============================================================================

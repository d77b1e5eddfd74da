----------------------------- MODULE RealtimeClient -----------------------------
(***************************************************************************)
(* The realtime client of the SDK (sdk/src/realtime): the attempts to set  *)
(* up a connection, the loop that recovers a lost one, and the             *)
(* subscriptions that must survive it.  The application calls connect,     *)
(* disconnect, subscribe and unsubscribe whenever it likes, from its       *)
(* handlers of socket events too.                                          *)
(*                                                                         *)
(* A socket or timer event begins a turn; the continuations it makes due   *)
(* come before the next event.  Socket 0 is one that could not be          *)
(* constructed.  Messages are kept as far as they change anything but the  *)
(* queue of frames a reader finds.                                         *)
(* A definition X_Variant is a faulty X, used to see a property fail.      *)
(***************************************************************************)
EXTENDS Naturals

CONSTANTS Subs,          \* subscriptions the application makes
          Uids,          \* the uids it gives them
          Retries,       \* config.reconnect.retries
          MaxAttempts,   \* bound: sockets constructed
          MaxTokens      \* bound: tokens the authentication client has

ASSUME ClientAssumption ==
  Retries \in Nat /\ MaxAttempts \in Nat /\ MaxTokens \in Nat \ {0} /\ Uids # {}

VARIABLES
  config,      \* authMode, and whether to reconnect
  attempts,    \* sockets constructed so far
  current,     \* currentAttempt
  socks,       \* each socket: `net`, and how far its setup is
  conn,        \* state, with the socket it is about
  pending,     \* pendingConnect, or 0
  manual,      \* wasManuallyDisconnected
  overflowed,  \* receiveBufferFailed
  loop,        \* the recovery loop; off when reconnectState is not active
  handler,     \* the socket whose close handlers run, or 0
  subs, registry,  \* subscriptions and channels in the client's maps
  channel,     \* each subscription's channel
  calls,       \* each subscribe call
  server, sent,    \* of the open connection: the subscriptions the server will
                   \* hold, and those it was ever sent
  token, retried, refreshing, reauth,  \* re-authentication: the token to be had,
               \* lastRetriedToken, refreshingSocket, sockets awaiting getToken
  resent,      \* history: how often the open connection was re-authenticated with each
               \* token, up to twice
  left,        \* history: sockets disconnect closed, their close event still to come
  stranded,    \* history: subscriptions whose socket was lost without a successor
  untied,      \* history: subscriptions that lost their channel but not the server's
  clobbered    \* history: a close handler began an attempt, which the close overwrites

socketVars == <<attempts, current, socks, conn, pending, manual>>
subVars == <<subs, registry, channel, calls>>
sideVars == <<server, sent, resent>>
authVars == <<token, retried, refreshing, reauth>>
historyVars == <<left, stranded, untied, clobbered>>
vars == <<config, socketVars, overflowed, loop, handler, subVars, sideVars, authVars, historyVars>>

Sockets == 1..MaxAttempts
Opened == 0..MaxAttempts
Closed == [code |-> "closed", socket |-> 0, first |-> FALSE]
NoLoop == [at |-> "off", tries |-> 0, on |-> 0, targets |-> {}]
Never == [t \in 1..MaxTokens |-> 0]
NoCall(u) == [at |-> "none", uid |-> u, on |-> 0]

Init ==
  /\ config \in [mode : {"public", "handshake"}, reconnect : BOOLEAN]
  /\ attempts = 0 /\ current = 0
  /\ socks = [k \in Opened |-> [net |-> "closed", setup |-> IF k = 0 THEN "failed" ELSE "none"]]
  /\ conn = Closed /\ pending = 0 /\ manual = FALSE
  /\ overflowed = FALSE /\ loop = NoLoop /\ handler = 0
  /\ subs = {} /\ registry = {}
  /\ channel = [s \in Subs |-> "none"]
  /\ \E u \in Uids : calls = [s \in Subs |-> NoCall(u)]
  /\ server = {} /\ sent = {} /\ resent = Never
  /\ token = 1 /\ retried = 0 /\ refreshing = 0 /\ reauth = {}
  /\ left = {} /\ stranded = {} /\ untied = {} /\ clobbered = FALSE

-----------------------------------------------------------------------------
Established(k) == socks[k].setup = "established"
Settled(k) == socks[k].setup \in {"established", "failed"}
SettingUp(k) == socks[k].setup \in {"opening", "token", "ack"}
IsOpen == conn.code = "open"
SameUid(s) == {t \in Subs : calls[t].uid = calls[s].uid}
Waiting == {s \in Subs : calls[s].at = "waiting"}

\* A continuation is due.
Due == \/ loop.at = "woken"
       \/ loop.at = "waiting" /\ Settled(loop.on)
       \/ \E s \in Waiting : Settled(calls[s].on)
       \/ \E k \in Sockets : socks[k].setup \in {"accepted", "refused"}
Microtask == handler = 0
Turn == Microtask /\ ~Due

\* connect(): joins the attempt in progress or the open connection, or begins an
\* attempt; k is the socket whose promise the caller awaits.
Superseded_Late == current
Superseded == 0
Connecting(k) ==
  /\ manual' = FALSE
  /\ \/ k = pending /\ pending # 0 /\ UNCHANGED <<attempts, current, socks, conn, pending>>
     \/ k = conn.socket /\ pending = 0 /\ IsOpen
          /\ UNCHANGED <<attempts, current, socks, conn, pending>>
     \/ k = 0 /\ pending = 0 /\ ~IsOpen
          /\ current' = Superseded /\ UNCHANGED <<attempts, socks, conn, pending>>
     \/ /\ k = attempts + 1 /\ k <= MaxAttempts /\ pending = 0 /\ ~IsOpen
        /\ attempts' = k /\ current' = k /\ pending' = k
        /\ socks' = [socks EXCEPT ![k] = [net |-> "opening", setup |-> "opening"]]
        /\ conn' = [code |-> "connecting", socket |-> k, first |-> FALSE]
  /\ clobbered' = (clobbered \/ (handler # 0 /\ current' # current))

\* registry.failAll or closeAll, with every subscription forgotten.
EndAll(end) ==
  /\ channel' = [s \in Subs |-> IF s \in registry /\ channel[s] = "open" THEN end ELSE channel[s]]
  /\ registry' = {} /\ subs' = {}
  /\ UNCHANGED calls
\* finalizeSubscriptions.
Finalize(end) == EndAll(end) /\ retried' = 0 /\ UNCHANGED <<token, refreshing, reauth>>

\* What goes with the connection, and the loop does not replay.
Hanging == (subs \cap sent) \ (IF loop.at = "off" THEN {} ELSE loop.targets)
Gone == server' = {} /\ sent' = {} /\ resent' = Never

\* teardown: an attempt fails, and its socket is closed and no longer listened to.
TornDown_Open(k) == [socks EXCEPT ![k].setup = "failed"]
TornDown(k) == [socks EXCEPT ![k] = [net |-> "closed", setup |-> "failed"]]
Teardown(k) ==
  /\ socks' = TornDown(k)
  /\ conn' = Closed /\ pending' = 0
  /\ UNCHANGED <<attempts, current, manual>>
Closing(k) == IF socks[k].net = "open" THEN [socks EXCEPT ![k].net = "closing"] ELSE socks

-----------------------------------------------------------------------------
\* The application.
Connect ==
  /\ \E k \in Opened : Connecting(k)
  /\ UNCHANGED <<config, overflowed, loop, handler, subVars, sideVars, authVars, left, stranded, untied>>

Woken(l) == IF l.at = "delay" THEN [l EXCEPT !.at = "woken"] ELSE l
Disconnect ==
  /\ manual' = TRUE
  /\ loop' = Woken(loop)
  /\ \/ pending # 0 /\ socks' = TornDown(pending) /\ pending' = 0 /\ conn' = Closed /\ UNCHANGED left
     \/ pending = 0 /\ IsOpen /\ socks' = Closing(conn.socket) /\ conn' = Closed
          /\ left' = left \cup {conn.socket} /\ UNCHANGED pending
     \/ pending = 0 /\ ~IsOpen /\ UNCHANGED <<socks, pending, conn, left>>
  /\ Finalize("closed") /\ Gone
  /\ UNCHANGED <<config, attempts, current, overflowed, handler, stranded, untied, clobbered>>

\* sendMessage(subscription): the server knows one subscription by its uid.
Sent(ss) == /\ server' = (server \ UNION {SameUid(s) : s \in ss}) \cup ss
            /\ sent' = sent \cup ss

Taken(u) == \E t \in subs \cup registry : calls[t].uid = u
Subscribe(s, u) ==
  /\ calls[s].at = "none" /\ ~Taken(u)
  /\ channel' = [channel EXCEPT ![s] = "open"]
  /\ registry' = registry \cup {s} /\ subs' = subs \cup {s}
  /\ \/ /\ IsOpen
        /\ calls' = [calls EXCEPT ![s] = [at |-> "live", uid |-> u, on |-> 0]]
        /\ server' = {t \in server : calls[t].uid # u} \cup {s}
        /\ sent' = sent \cup {s}
        /\ UNCHANGED <<socketVars, clobbered>>
     \/ /\ ~IsOpen
        /\ \E k \in Opened : Connecting(k) /\ calls' = [calls EXCEPT ![s] = [at |-> "waiting", uid |-> u, on |-> k]]
        /\ UNCHANGED <<server, sent>>
  /\ UNCHANGED <<config, overflowed, loop, handler, resent, authVars, left, stranded, untied>>

\* The subscribe call goes on: it sends, or throws, as sending may too.
Dropped(s) == [channel EXCEPT ![s] = IF @ = "open" THEN "closed" ELSE @]
Resume(s) ==
  /\ Microtask /\ calls[s].at = "waiting" /\ Settled(calls[s].on)
  /\ \/ /\ Established(calls[s].on) /\ IsOpen
        /\ calls' = [calls EXCEPT ![s].at = "live", ![s].on = 0]
        /\ Sent({s})
        /\ UNCHANGED <<subs, registry, channel>>
     \/ /\ calls' = [calls EXCEPT ![s].at = "gone", ![s].on = 0]
        /\ registry' = registry \ {s} /\ subs' = subs \ {s}
        /\ channel' = IF s \in registry THEN Dropped(s) ELSE channel
        /\ UNCHANGED <<server, sent>>
  /\ UNCHANGED <<config, socketVars, overflowed, loop, handler, resent, authVars, historyVars>>

\* unsubscribe, or the end of the iterator.
Forgotten_ByUid(s) == subs \ SameUid(s)
Forgotten(s) == subs \ {s}
Unsubscribe(s) ==
  /\ calls[s].at = "live"
  /\ calls' = [calls EXCEPT ![s].at = "gone"]
  /\ channel' = Dropped(s)
  /\ registry' = registry \ {s} /\ subs' = Forgotten(s)
  /\ server' = IF s \in subs /\ IsOpen THEN server \ SameUid(s) ELSE server
  /\ UNCHANGED <<config, socketVars, overflowed, loop, handler, sent, resent, authVars, historyVars>>

-----------------------------------------------------------------------------
\* Setup of a connection.
Open(k) ==
  /\ Turn /\ socks[k] = [net |-> "opening", setup |-> "opening"]
  /\ overflowed' = FALSE
  /\ conn' = [code |-> "open", socket |-> k, first |-> TRUE]
  /\ socks' = [socks EXCEPT ![k] = [net |-> "open",
                 setup |-> IF config.mode = "public" THEN "established" ELSE "token"]]
  /\ pending' = IF config.mode = "public" THEN 0 ELSE pending
  /\ Gone
  /\ UNCHANGED <<config, attempts, current, manual, loop, handler, subVars, authVars, historyVars>>

\* getToken answers; without a token the attempt fails.
TokenReady(k) ==
  /\ Microtask /\ socks[k].setup = "token"
  /\ socks' = [socks EXCEPT ![k].setup = "ack"]
  /\ UNCHANGED <<config, attempts, current, conn, pending, manual, overflowed, loop, handler,
                 subVars, sideVars, authVars, historyVars>>
Fails(k) == /\ Teardown(k)
            /\ stranded' = stranded \cup Hanging /\ Gone
            /\ UNCHANGED <<config, overflowed, loop, handler, subVars, authVars, left, untied, clobbered>>
TokenFails(k) == Microtask /\ socks[k].setup = "token" /\ Fails(k)
Refused(k) == Microtask /\ socks[k].setup = "refused" /\ Fails(k)
Deadline(k) == Turn /\ pending = k /\ SettingUp(k) /\ Fails(k)

Accepted(k) ==
  /\ Microtask /\ socks[k].setup = "accepted"
  /\ socks' = [socks EXCEPT ![k].setup = "established"]
  /\ pending' = 0
  /\ UNCHANGED <<config, attempts, current, conn, manual, overflowed, loop, handler,
                 subVars, sideVars, authVars, historyVars>>

-----------------------------------------------------------------------------
\* The close event: it counts for the current attempt only, runs the
\* application's handlers, and then goes on.
Outdated_Never(k) == FALSE
Outdated(k) == current # k
CloseBegins(k) ==
  /\ Turn /\ socks[k].net # "closed"
  /\ socks' = [socks EXCEPT ![k].net = "closed"]
  /\ handler' = IF Outdated(k) THEN 0 ELSE k
  /\ left' = IF Outdated(k) THEN left \ {k} ELSE left
  /\ UNCHANGED <<config, attempts, current, conn, pending, manual, overflowed, loop,
                 subVars, sideVars, authVars, stranded, untied, clobbered>>

Recovers(k) == Established(k) /\ ~manual /\ ~overflowed /\ config.reconnect
Targets_None == {}
Targets == subs
LoopFrom(tries) == [at |-> "delay", tries |-> tries, on |-> 0, targets |-> Targets]
Rejected_Not(k) == socks
Rejected(k) == [socks EXCEPT ![k].setup = "failed"]
CloseEnds ==
  LET k == handler IN
  /\ k # 0
  /\ handler' = 0
  /\ pending' = 0 /\ conn' = Closed
  /\ socks' = IF Settled(k) THEN socks ELSE Rejected(k)
  /\ \/ /\ Recovers(k) /\ loop.at = "off"
        /\ IF Retries > 0 THEN loop' = LoopFrom(1) /\ UNCHANGED <<subVars, authVars>>
                          ELSE Finalize("failed") /\ UNCHANGED loop
        /\ UNCHANGED stranded
     \/ /\ ~Recovers(k) /\ (manual \/ loop.at = "off")
        /\ Finalize(IF manual THEN "closed" ELSE "failed")
        /\ UNCHANGED <<loop, stranded>>
     \/ /\ loop.at # "off" /\ ~(manual /\ ~Recovers(k))
        /\ stranded' = stranded \cup Hanging
        /\ UNCHANGED <<loop, subVars, authVars>>
  /\ left' = left \ {k} /\ Gone
  /\ UNCHANGED <<config, attempts, current, manual, overflowed, untied, clobbered>>

-----------------------------------------------------------------------------
\* The recovery loop.
DelayEnds ==
  /\ Turn /\ loop.at = "delay"
  /\ loop' = Woken(loop)
  /\ UNCHANGED <<config, socketVars, overflowed, handler, subVars, sideVars, authVars, historyVars>>

Attempt ==
  /\ Microtask /\ loop.at = "woken"
  /\ \/ manual /\ loop' = NoLoop /\ UNCHANGED <<socketVars, clobbered>>
     \/ ~manual /\ \E k \in Opened : Connecting(k) /\ loop' = [loop EXCEPT !.at = "waiting", !.on = k]
  /\ UNCHANGED <<config, overflowed, handler, subVars, sideVars, authVars, left, stranded, untied>>

\* Connected: the subscriptions it began with are sent again, those still there.
Replayed_All == loop.targets
Replayed == loop.targets \cap subs
Connected == Microtask /\ loop.at = "waiting" /\ Established(loop.on)
Replay ==
  /\ Connected /\ (IsOpen \/ Replayed = {})
  /\ loop' = NoLoop
  /\ IF IsOpen THEN Sent(Replayed) ELSE UNCHANGED <<server, sent>>
  /\ stranded' = stranded \ Replayed
  /\ UNCHANGED <<config, socketVars, overflowed, handler, subs, registry, channel, calls, resent, authVars,
                 left, untied, clobbered>>
ReplayFails ==
  /\ Connected /\ Replayed # {}
  /\ loop' = NoLoop
  /\ Finalize("failed")
  /\ untied' = untied \cup Waiting
  /\ socks' = IF IsOpen THEN Closing(conn.socket) ELSE socks
  /\ UNCHANGED <<config, attempts, current, conn, pending, manual, overflowed, handler,
                 sideVars, left, stranded, clobbered>>

\* Not connected: another try, or the end.
Exhausted_Never == FALSE
Exhausted == loop.tries >= Retries
Retry ==
  /\ Microtask /\ loop.at = "waiting" /\ ~Established(loop.on) /\ Settled(loop.on)
  /\ \/ /\ Exhausted
        /\ loop' = NoLoop
        /\ Finalize("failed")
        /\ untied' = untied \cup Waiting
     \/ /\ ~Exhausted
        /\ loop' = IF manual THEN NoLoop
                             ELSE [loop EXCEPT !.at = "delay", !.tries = @ + 1, !.on = 0]
        /\ UNCHANGED <<subVars, authVars, untied>>
  /\ UNCHANGED <<config, socketVars, overflowed, handler, sideVars, left, stranded, clobbered>>

-----------------------------------------------------------------------------
\* Messages of the open connection.
Message(k) == Turn /\ IsOpen /\ conn.socket = k /\ socks[k].net # "closed"
Heard == conn' = [conn EXCEPT !.first = FALSE]

AuthAnswer(k) ==
  /\ Message(k) /\ socks[k].setup = "ack"
  /\ \E answer \in {"accepted", "refused"} : socks' = [socks EXCEPT ![k].setup = answer]
  /\ Heard
  /\ UNCHANGED <<config, attempts, current, pending, manual, overflowed, loop, handler,
                 subVars, sideVars, authVars, historyVars>>

TokenExpired(k) ==
  /\ Message(k) /\ socks[k].setup # "ack" /\ refreshing # k
  /\ refreshing' = k /\ reauth' = reauth \cup {k}
  /\ Heard
  /\ UNCHANGED <<config, attempts, current, socks, pending, manual, overflowed, loop, handler,
                 subVars, sideVars, token, retried, historyVars>>

\* The first message refuses a client that did not mean to authenticate.
AuthFailed(k) ==
  /\ Message(k) /\ config.mode = "public" /\ conn.first
  /\ config' = [config EXCEPT !.reconnect = FALSE]
  /\ socks' = Closing(k)
  /\ Heard
  /\ UNCHANGED <<attempts, current, pending, manual, overflowed, loop, handler,
                 subVars, sideVars, authVars, historyVars>>

OtherMessage(k) ==
  /\ Message(k) /\ Heard
  /\ UNCHANGED <<config, attempts, current, socks, pending, manual, overflowed, loop, handler,
                 subVars, sideVars, authVars, historyVars>>

\* The server refuses a subscription; the answer finds whoever has the uid now.
SubscribeError(k, s) ==
  /\ Message(k) /\ s \in sent
  /\ channel' = [t \in Subs |-> IF t \in registry \cap SameUid(s) THEN "failed" ELSE channel[t]]
  /\ registry' = registry \ SameUid(s) /\ subs' = subs \ SameUid(s)
  /\ server' = server \ {s}
  /\ untied' = untied \cup ((subs \cap SameUid(s)) \ {s})
  /\ Heard
  /\ UNCHANGED <<config, attempts, current, socks, pending, manual, overflowed, loop, handler,
                 calls, sent, resent, authVars, left, stranded, clobbered>>

\* A frame for a subscription does not fit into the buffer.
Overflow(k) ==
  /\ Message(k) /\ \E s \in sent : registry \cap SameUid(s) # {}
  /\ overflowed' = TRUE
  /\ Finalize("failed")
  /\ untied' = untied \cup Waiting
  /\ socks' = Closing(k)
  /\ Heard
  /\ UNCHANGED <<config, attempts, current, pending, manual, loop, handler, sideVars, left, stranded, clobbered>>

\* getToken answers a re-authentication.
NewToken ==
  /\ token < MaxTokens /\ token' = token + 1
  /\ UNCHANGED <<config, socketVars, overflowed, loop, handler, subVars,
                 sideVars, retried, refreshing, reauth, historyVars>>
Fresh_Always == TRUE
Fresh == token # retried
Refreshed(k) ==
  /\ Microtask /\ k \in reauth
  /\ reauth' = reauth \ {k}
  /\ refreshing' = IF refreshing = k THEN 0 ELSE refreshing
  /\ \/ UNCHANGED <<retried, resent>>
     \/ /\ Fresh /\ IsOpen /\ conn.socket = k
        /\ resent' = [resent EXCEPT ![token] = IF @ = 0 THEN 1 ELSE 2]
        /\ retried' = token
  /\ UNCHANGED <<config, socketVars, overflowed, loop, handler, subVars, server, sent, token, historyVars>>

-----------------------------------------------------------------------------
Application == \/ Connect \/ Disconnect \/ NewToken
               \/ \E s \in Subs : Unsubscribe(s) \/ \E u \in Uids : Subscribe(s, u)
Continuation(k) == TokenReady(k) \/ TokenFails(k) \/ Refused(k) \/ Accepted(k) \/ Refreshed(k)
Network(k) == \/ Open(k) \/ CloseBegins(k) \/ AuthAnswer(k) \/ TokenExpired(k) \/ AuthFailed(k)
              \/ OtherMessage(k) \/ Overflow(k) \/ \E s \in Subs : SubscribeError(k, s)
Recovery == DelayEnds \/ Attempt \/ Replay \/ ReplayFails \/ Retry
Next == \/ Application \/ CloseEnds \/ Recovery
        \/ \E s \in Subs : Resume(s)
        \/ \E k \in Sockets : Continuation(k) \/ Network(k) \/ Deadline(k)

Spec == Init /\ [][Next]_vars

\* Handlers return, continuations run, the connect deadline and the backoff timer fire.
Fairness == /\ WF_vars(CloseEnds) /\ WF_vars(Recovery)
            /\ \A s \in Subs : WF_vars(Resume(s))
            /\ \A k \in Sockets : WF_vars(Deadline(k)) /\ WF_vars(Refused(k) \/ Accepted(k))
FairSpec == Spec /\ Fairness

-----------------------------------------------------------------------------
\* Properties.

\* Type invariant.
TypeOK ==
  /\ config \in [mode : {"public", "handshake"}, reconnect : BOOLEAN]
  /\ attempts \in Opened /\ current \in Opened /\ pending \in Opened /\ handler \in Opened
  /\ socks \in [Opened -> [net : {"opening", "open", "closing", "closed"},
                setup : {"none", "opening", "token", "ack", "accepted", "refused", "established", "failed"}]]
  /\ conn \in [code : {"closed", "connecting", "open"}, socket : Opened, first : BOOLEAN]
  /\ manual \in BOOLEAN /\ overflowed \in BOOLEAN /\ clobbered \in BOOLEAN
  /\ loop \in [at : {"off", "delay", "woken", "waiting"}, tries : 0..Retries, on : Opened, targets : SUBSET Subs]
  /\ subs \subseteq Subs /\ registry \subseteq Subs
  /\ channel \in [Subs -> {"none", "open", "closed", "failed"}]
  /\ calls \in [Subs -> [at : {"none", "waiting", "live", "gone"}, uid : Uids, on : Opened]]
  /\ server \subseteq Subs /\ sent \subseteq Subs
  /\ token \in 1..MaxTokens /\ retried \in 0..MaxTokens
  /\ refreshing \in Opened /\ reauth \subseteq Sockets
  /\ resent \in [1..MaxTokens -> 0..2]
  /\ left \subseteq Sockets /\ stranded \subseteq Subs /\ untied \subseteq Subs

\* One attempt is being set up, the current one, and connect() joins it; a socket
\* that is opening or open is the one the client knows.
AttemptRules ==
  clobbered \/
  /\ pending # 0 => pending = current /\ (~Settled(pending) \/ handler = pending)
  /\ \A k \in 1..attempts : ~Settled(k) => k = pending
  /\ \A k \in 1..attempts : socks[k].net \in {"opening", "open"} => conn.socket = k

\* With nothing under way, a subscription the client holds is held by the server.
Idle == loop.at = "off" /\ pending = 0 /\ handler = 0 /\ Waiting = {}
Kept == Idle => \A s \in subs :
  \/ IsOpen /\ server \cap SameUid(s) \cap ({s} \cup untied) # {}
  \/ s \in stranded
\* The server holds nothing the client has forgotten.
NoneForgotten == IsOpen /\ socks[conn.socket].net = "open" => server \subseteq subs \cup untied
\* An iterator that has not ended is one that something will end.
ChannelsHeld == registry = subs /\ registry = {s \in Subs : channel[s] = "open"}
SubscriptionRules == clobbered \/ (Kept /\ NoneForgotten /\ ChannelsHeld)

\* A token re-authenticates a socket once, however often the server calls it expired.
TokensOnce == IsOpen /\ socks[conn.socket].net = "open" => \A t \in 1..MaxTokens : resent[t] < 2

\* The client knows its sockets, and its subscriptions are those its channels and the
\* server have, with the exceptions of the code: a subscription made while the loop
\* recovers or a handshake is under way, an exhausted loop, a handler of a close.
ClientRules == AttemptRules /\ SubscriptionRules /\ TokensOnce

\* disconnect() stays: the close that follows it begins no recovery.
DisconnectStays == [][clobbered' \/ (loop.at = "off" /\ loop'.at # "off" => handler \notin left)]_vars

\* Every attempt, recovery and subscribe call comes to an end.
ClientProgress ==
  /\ pending # 0 ~> pending = 0
  /\ loop.at # "off" ~> loop.at = "off"
  /\ \A s \in Subs : calls[s].at = "waiting" ~> calls[s].at # "waiting"
=============================================================================

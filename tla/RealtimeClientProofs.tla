-------------------------- MODULE RealtimeClientProofs --------------------------
(***************************************************************************)
(* RealtimeClient: its types and rules hold in every reachable state, and  *)
(* disconnect stays, for any subscriptions, uids, tries, sockets and       *)
(* tokens.                                                                 *)
(***************************************************************************)
EXTENDS RealtimeClient, TLAPS

InSetup == {"opening", "token", "ack", "accepted", "refused"}
OpenNow == IsOpen /\ socks[conn.socket].net = "open"

\* What holds whatever the application's close handlers do.
ConnInv ==
  /\ pending # 0 => socks[pending].setup \in InSetup
  /\ IsOpen => conn.socket # 0 /\ socks[conn.socket].setup \notin {"failed", "none", "opening"}
  /\ loop.at = "waiting" /\ socks[loop.on].setup = "failed" => ~IsOpen
  /\ ~IsOpen => server = {} /\ sent = {} /\ resent = Never
TokenInv ==
  /\ retried <= token
  /\ OpenNow => \A t \in 1..MaxTokens : resent[t] <= 1 /\ (resent[t] >= 1 => t <= retried)
ChannelInv ==
  /\ ChannelsHeld
  /\ \A s \in subs : calls[s].at \in {"waiting", "live"}
  /\ \A s, t \in subs : calls[s].uid = calls[t].uid => s = t
AlwaysInv == ConnInv /\ TokenInv /\ ChannelInv

\* What holds until a close handler begins an attempt: one attempt is under way, the
\* current one, and the client knows the sockets that are opening or open.
SocketInv ==
  /\ current <= attempts
  /\ \A k \in Sockets : IF k <= attempts THEN socks[k].setup # "none"
                                         ELSE socks[k].net = "closed" /\ socks[k].setup = "none"
  /\ socks[0].net = "closed" /\ socks[0].setup = "failed"
  /\ conn.code = "closed" => conn.socket = 0
  /\ conn.socket \in {0, current}
  /\ pending # 0 => pending = current /\ pending = conn.socket /\ conn.code # "closed"
  /\ conn.code = "connecting" => pending # 0 /\ socks[pending].setup = "opening"
  /\ \A k \in Sockets : socks[k].setup \in InSetup => k = pending
  /\ \A k \in Sockets : socks[k].net \in {"opening", "open"} => conn.socket = k
  /\ IsOpen => socks[conn.socket].net # "opening"
\* The close whose handlers run is the current attempt's.
HandlerInv ==
  handler # 0 => /\ handler = current /\ socks[handler].net = "closed"
                 /\ Established(handler) => Waiting = {}
\* disconnect leaves nothing, and is still in force when its close event comes.
LeftInv ==
  /\ manual => subs = {} /\ pending = 0 /\ conn.code = "closed"
  /\ \A k \in left : k <= attempts /\ (k = current => manual)
AttemptInv == SocketInv /\ HandlerInv /\ LeftInv

\* A subscribe call that waits for a socket can go on when it is set up: its subscription
\* is still there, or the server may have what the client has not.
CallsInv ==
  \A s \in Waiting :
    /\ calls[s].on <= attempts
    /\ s \in subs \cup untied \/ socks[calls[s].on].setup = "failed" \/ conn.socket # calls[s].on
    /\ Established(calls[s].on) /\ IsOpen => conn.socket = calls[s].on
\* What was sent, and what the loop will send, are subscriptions whose call has returned.
Returned == {s \in Subs : calls[s].at \in {"live", "gone"}}
SentInv ==
  /\ loop.at # "off" => loop.targets \subseteq Returned
  /\ server \subseteq sent
  /\ sent \subseteq Returned
\* Each subscription is held by the server, or it is on its way there, or lost on record.
Held(s) ==
  \/ s \in Waiting
  \/ loop.at # "off" /\ s \in loop.targets
  \/ s \in stranded
  \/ IsOpen /\ s \in sent /\ server \cap SameUid(s) \cap ({s} \cup untied) # {}
HeldInv == NoneForgotten /\ \A s \in subs : Held(s)
UnclobberedInv == AttemptInv /\ CallsInv /\ SentInv /\ HeldInv
ClientInv == TypeOK /\ AlwaysInv /\ (clobbered \/ UnclobberedInv)

-----------------------------------------------------------------------------
\* The types of the records and functions, each under a name of its own.
SocksOK(f) == f \in [Opened -> [net : {"opening", "open", "closing", "closed"},
                setup : {"none", "opening", "token", "ack", "accepted", "refused", "established", "failed"}]]
ConnOK(c) == c \in [code : {"closed", "connecting", "open"}, socket : Opened, first : BOOLEAN]
LoopOK(l) == l \in [at : {"off", "delay", "woken", "waiting"}, tries : 0..Retries, on : Opened, targets : SUBSET Subs]
ChannelOK(f) == f \in [Subs -> {"none", "open", "closed", "failed"}]
CallsOK(f) == f \in [Subs -> [at : {"none", "waiting", "live", "gone"}, uid : Uids, on : Opened]]
ResentOK(f) == f \in [1..MaxTokens -> 0..2]
ConfigOK(c) == c \in [mode : {"public", "handshake"}, reconnect : BOOLEAN]
SocketTypes ==
  /\ attempts \in Opened /\ current \in Opened /\ pending \in Opened
  /\ SocksOK(socks) /\ ConnOK(conn) /\ manual \in BOOLEAN
LoopTypes == ConfigOK(config) /\ overflowed \in BOOLEAN /\ LoopOK(loop) /\ handler \in Opened
SubTypes ==
  /\ subs \subseteq Subs /\ registry \subseteq Subs
  /\ ChannelOK(channel) /\ CallsOK(calls)
SideTypes == server \subseteq Subs /\ sent \subseteq Subs /\ ResentOK(resent)
AuthTypes ==
  /\ token \in 1..MaxTokens /\ retried \in 0..MaxTokens
  /\ refreshing \in Opened /\ reauth \subseteq Sockets
HistoryTypes ==
  /\ left \subseteq Sockets /\ stranded \subseteq Subs /\ untied \subseteq Subs
  /\ clobbered \in BOOLEAN

\* The type invariant is the conjunction of the types by their names.
LEMMA TypesByName ==
  TypeOK <=> SocketTypes /\ LoopTypes /\ SubTypes /\ SideTypes /\ AuthTypes /\ HistoryTypes
BY DEF TypeOK, SocketTypes, LoopTypes, SubTypes, SideTypes, AuthTypes, HistoryTypes, SocksOK,
    ConnOK, LoopOK,
   ChannelOK, CallsOK, ResentOK, ConfigOK

\* The same in the next state.
LEMMA TypesByNameNext ==
  TypeOK' <=> SocketTypes' /\ LoopTypes' /\ SubTypes' /\ SideTypes' /\ AuthTypes' /\ HistoryTypes'
BY DEF TypeOK, SocketTypes, LoopTypes, SubTypes, SideTypes, AuthTypes, HistoryTypes, SocksOK,
    ConnOK, LoopOK,
   ChannelOK, CallsOK, ResentOK, ConfigOK

\* What is left alone keeps its types.
LEMMA SocketsStay == SocketTypes /\ UNCHANGED socketVars => SocketTypes'
BY DEF SocketTypes, socketVars
\* The subscriptions and their channels and calls.
LEMMA SubsStay == SubTypes /\ UNCHANGED subVars => SubTypes'
BY DEF SubTypes, subVars
\* The server's side.
LEMMA SideStays == SideTypes /\ UNCHANGED sideVars => SideTypes'
BY DEF SideTypes, sideVars
\* The re-authentication.
LEMMA AuthStays == AuthTypes /\ UNCHANGED authVars => AuthTypes'
BY DEF AuthTypes, authVars
\* The history.
LEMMA HistoryStays == HistoryTypes /\ UNCHANGED historyVars => HistoryTypes'
BY DEF HistoryTypes, historyVars

\* A socket's setup is changed.
LEMMA SetupChanges ==
  ASSUME NEW f, SocksOK(f), NEW k \in Opened,
         NEW v \in {"none", "opening", "token", "ack", "accepted", "refused", "established", "failed"}
  PROVE  SocksOK([f EXCEPT ![k].setup = v])
BY DEF SocksOK

\* A socket's net is changed.
LEMMA NetChanges ==
  ASSUME NEW f, SocksOK(f), NEW k \in Opened, NEW v \in {"opening", "open", "closing", "closed"}
  PROVE  SocksOK([f EXCEPT ![k].net = v])
BY DEF SocksOK

\* A socket is replaced.
LEMMA SocketChanges ==
  ASSUME NEW f, SocksOK(f), NEW k \in Opened, NEW v \in {"opening", "open", "closing", "closed"},
         NEW w \in {"none", "opening", "token", "ack", "accepted", "refused", "established", "failed"}
  PROVE  SocksOK([f EXCEPT ![k] = [net |-> v, setup |-> w]])
BY DEF SocksOK

\* Closing a socket.
LEMMA ClosingType ==
  ASSUME SocksOK(socks), NEW k \in Opened
  PROVE  SocksOK(Closing(k))
BY NetChanges DEF Closing

\* What the client knows of its connection.
LEMMA ConnTypes ==
  /\ ConnOK(Closed)
  /\ \A k \in Opened : ConnOK([code |-> "open", socket |-> k, first |-> TRUE])
  /\ \A k \in Opened : ConnOK([code |-> "connecting", socket |-> k, first |-> FALSE])
  /\ ConnOK(conn) => ConnOK([conn EXCEPT !.first = FALSE])
  /\ ConnOK(conn) => conn.socket \in Opened
<1>1. 0 \in Opened
  BY ClientAssumption DEF Opened
<1>2. ConnOK(Closed)
  BY <1>1 DEF ConnOK, Closed
<1>3. \A k \in Opened : ConnOK([code |-> "open", socket |-> k, first |-> TRUE])
  BY DEF ConnOK
<1>4. \A k \in Opened : ConnOK([code |-> "connecting", socket |-> k, first |-> FALSE])
  BY DEF ConnOK
<1>5. ConnOK(conn) => ConnOK([conn EXCEPT !.first = FALSE])
  BY DEF ConnOK
<1>6. ConnOK(conn) => conn.socket \in Opened
  BY DEF ConnOK
<1> QED BY <1>2, <1>3, <1>4, <1>5, <1>6

\* The loop's states.
LEMMA LoopTypesHold ==
  ASSUME LoopOK(loop), subs \subseteq Subs
  PROVE  /\ LoopOK(NoLoop) /\ LoopOK(Woken(loop))
         /\ Retries > 0 => LoopOK(LoopFrom(1))
         /\ \A k \in Opened : LoopOK([loop EXCEPT !.at = "waiting", !.on = k])
         /\ ~Exhausted => LoopOK([loop EXCEPT !.at = "delay", !.tries = @ + 1, !.on = 0])
<1>0. 0 \in Opened /\ 0 \in 0..Retries /\ loop.tries \in 0..Retries
  BY ClientAssumption DEF Opened, LoopOK
<1>1. LoopOK(NoLoop)
  BY <1>0 DEF LoopOK, NoLoop
<1>2. LoopOK(Woken(loop))
  BY DEF LoopOK, Woken
<1>3. Retries > 0 => LoopOK(LoopFrom(1))
  <2>1. Retries > 0 => 1 \in 0..Retries
    BY ClientAssumption
  <2> QED BY <1>0, <2>1 DEF LoopOK, LoopFrom, Targets
<1>4. \A k \in Opened : LoopOK([loop EXCEPT !.at = "waiting", !.on = k])
  BY DEF LoopOK
<1>5. ~Exhausted => LoopOK([loop EXCEPT !.at = "delay", !.tries = @ + 1, !.on = 0])
  <2>1. ~Exhausted => loop.tries + 1 \in 0..Retries
    BY <1>0, ClientAssumption DEF Exhausted
  <2> QED BY <1>0, <2>1 DEF LoopOK
<1> QED BY <1>1, <1>2, <1>3, <1>4, <1>5

\* A call's states.
LEMMA CallChanges ==
  ASSUME NEW f, CallsOK(f), NEW s \in Subs
  PROVE  /\ \A u \in Uids, k \in Opened, a \in {"waiting", "live"} :
              CallsOK([f EXCEPT ![s] = [at |-> a, uid |-> u, on |-> k]])
         /\ \A a \in {"live", "gone"} : CallsOK([f EXCEPT ![s].at = a, ![s].on = 0])
         /\ CallsOK([f EXCEPT ![s].at = "gone"])
<1>0. 0 \in Opened
  BY ClientAssumption DEF Opened
<1>1. ASSUME NEW u \in Uids, NEW k \in Opened, NEW a \in {"waiting", "live"}
      PROVE  CallsOK([f EXCEPT ![s] = [at |-> a, uid |-> u, on |-> k]])
  BY <1>1 DEF CallsOK
<1>2. ASSUME NEW a \in {"live", "gone"}
      PROVE  CallsOK([f EXCEPT ![s].at = a, ![s].on = 0])
  BY <1>0, <1>2 DEF CallsOK
<1>3. CallsOK([f EXCEPT ![s].at = "gone"])
  BY DEF CallsOK
<1> QED BY <1>1, <1>2, <1>3

\* Ending every subscription.
LEMMA EndTypes ==
  ASSUME SubTypes, NEW e \in {"closed", "failed"}, EndAll(e)
  PROVE  SubTypes'
BY DEF SubTypes, EndAll, ChannelOK

\* Ending them, and the budget of re-authentication.
LEMMA FinalizeTypes ==
  ASSUME SubTypes, AuthTypes, NEW e \in {"closed", "failed"}, Finalize(e)
  PROVE  SubTypes' /\ AuthTypes'
<1>1. SubTypes'
  BY EndTypes DEF Finalize
<1>2. AuthTypes'
  BY ClientAssumption DEF Finalize, AuthTypes
<1> QED BY <1>1, <1>2

\* The connection goes.
LEMMA GoneTypes == Gone => SideTypes'
BY DEF Gone, SideTypes, Never, ResentOK

\* connect().
LEMMA ConnectingTypes ==
  ASSUME SocketTypes, HistoryTypes, handler \in Opened, NEW k \in Opened, Connecting(k)
  PROVE  SocketTypes' /\ clobbered' \in BOOLEAN
<1>1. clobbered' \in BOOLEAN
  BY DEF Connecting, HistoryTypes
<1>2. CASE UNCHANGED <<attempts, current, socks, conn, pending>>
  BY <1>2 DEF Connecting, SocketTypes
<1>3. CASE current' = Superseded /\ UNCHANGED <<attempts, socks, conn, pending>>
  BY <1>3, ClientAssumption DEF Connecting, SocketTypes, Superseded, Opened
<1>4. CASE /\ attempts' = k /\ current' = k /\ pending' = k
           /\ socks' = [socks EXCEPT ![k] = [net |-> "opening", setup |-> "opening"]]
           /\ conn' = [code |-> "connecting", socket |-> k, first |-> FALSE]
  <2>1. SocksOK(socks') /\ ConnOK(conn')
    BY <1>4, SocketChanges, ConnTypes DEF SocketTypes
  <2>2. manual' \in BOOLEAN
    BY DEF Connecting
  <2>3. attempts' \in Opened /\ current' \in Opened /\ pending' \in Opened
    BY <1>4
  <2> QED BY <1>1, <2>1, <2>2, <2>3 DEF SocketTypes
<1> QED BY <1>1, <1>2, <1>3, <1>4 DEF Connecting

\* A torn down attempt.
LEMMA TeardownTypes ==
  ASSUME SocketTypes, NEW k \in Opened, Teardown(k)
  PROVE  SocketTypes'
<1>0. SocksOK(TornDown(k))
  BY SocketChanges DEF SocketTypes, TornDown
<1>1. SocksOK(socks') /\ ConnOK(conn') /\ pending' \in Opened
  BY <1>0, ConnTypes, ClientAssumption DEF Teardown, Opened
<1> QED BY <1>1 DEF SocketTypes, Teardown

\* A failed attempt.
LEMMA FailsTypes ==
  ASSUME TypeOK, NEW k \in Opened, Fails(k)
  PROVE  TypeOK'
<1>1. /\ SocketTypes /\ LoopTypes /\ SubTypes /\ SideTypes /\ AuthTypes /\ HistoryTypes
  BY TypesByName
<1>2. SocketTypes' /\ SideTypes' /\ SubTypes' /\ AuthTypes'
  BY <1>1, TeardownTypes, GoneTypes, SubsStay, AuthStays DEF Fails
<1>3. LoopTypes'
  BY <1>1 DEF Fails, LoopTypes
<1>4. HistoryTypes'
  BY <1>1 DEF Fails, HistoryTypes, Hanging, SubTypes
<1> QED BY <1>2, <1>3, <1>4, TypesByNameNext

\* Every step keeps the types.
LEMMA TypesStep == TypeOK /\ ConnInv /\ [Next]_vars => TypeOK'
<1> SUFFICES ASSUME TypeOK, ConnInv, [Next]_vars PROVE TypeOK'
  OBVIOUS
<1>0. /\ SocketTypes /\ LoopTypes /\ SubTypes /\ SideTypes /\ AuthTypes /\ HistoryTypes
      /\ SocksOK(socks) /\ ConnOK(conn) /\ LoopOK(loop) /\ ChannelOK(channel) /\ CallsOK(calls) /\ ResentOK(resent)
      /\ handler \in Opened /\ subs \subseteq Subs /\ 0 \in Opened /\ conn.socket \in Opened
  BY TypesByName, ConnTypes, ClientAssumption DEF SocketTypes, LoopTypes, SubTypes, SideTypes,
      Opened
<1> USE TypesByNameNext
<1>a. CASE Connect
  <2>1. PICK k \in Opened : Connecting(k)
    BY <1>a DEF Connect
  <2>2. SocketTypes' /\ clobbered' \in BOOLEAN
    BY <1>0, <2>1, ConnectingTypes
  <2>3. SubTypes' /\ SideTypes' /\ AuthTypes' /\ LoopTypes' /\ HistoryTypes'
    BY <1>0, <1>a, <2>2, SubsStay, SideStays, AuthStays DEF Connect, LoopTypes, HistoryTypes
  <2> QED BY <2>2, <2>3
<1>b. CASE Disconnect
  <2>1. SubTypes' /\ AuthTypes' /\ SideTypes'
    BY <1>0, <1>b, FinalizeTypes, GoneTypes DEF Disconnect
  <2>2. LoopTypes'
    BY <1>0, <1>b, LoopTypesHold DEF Disconnect, LoopTypes
  <2>3. SocksOK(socks') /\ ConnOK(conn') /\ pending' \in Opened
    <3>1. SocksOK(TornDown(pending))
      BY <1>0, SocketChanges DEF TornDown, SocketTypes
    <3>2. SocksOK(Closing(conn.socket))
      BY <1>0, ClosingType
    <3> QED BY <1>0, <1>b, <3>1, <3>2, ConnTypes DEF Disconnect, SocketTypes
  <2>4. SocketTypes'
    BY <1>0, <1>b, <2>3 DEF Disconnect, SocketTypes
  <2>5. IsOpen => conn.socket \in Sockets
    BY <1>0 DEF ConnInv, Sockets, Opened
  <2>6. HistoryTypes'
    BY <1>0, <1>b, <2>5 DEF Disconnect, HistoryTypes
  <2> QED BY <2>1, <2>2, <2>4, <2>6
<1>c. CASE NewToken
  <2>1. AuthTypes'
    BY <1>0, <1>c, ClientAssumption DEF NewToken, AuthTypes
  <2>2. LoopTypes'
    BY <1>0, <1>c DEF NewToken, LoopTypes
  <2> QED BY <1>0, <1>c, <2>1, <2>2, SocketsStay, SubsStay, SideStays, HistoryStays DEF NewToken
<1>d. ASSUME NEW s \in Subs, NEW u \in Uids, Subscribe(s, u) PROVE TypeOK'
  <2>1. AuthTypes' /\ LoopTypes'
    BY <1>0, <1>d, AuthStays DEF Subscribe, LoopTypes
  <2>2. SocketTypes' /\ clobbered' \in BOOLEAN
    BY <1>0, <1>d, ConnectingTypes, SocketsStay DEF Subscribe, HistoryTypes
  <2>3. HistoryTypes'
    BY <1>0, <1>d, <2>2 DEF Subscribe, HistoryTypes
  <2>4. CallsOK(calls')
    <3>1. \A k \in Opened, a \in {"waiting", "live"} : CallsOK([calls EXCEPT ![s] = [at |-> a, uid |-> u, on |-> k]])
      BY <1>0, CallChanges
    <3>2. CallsOK([calls EXCEPT ![s] = [at |-> "live", uid |-> u, on |-> 0]])
      BY <1>0, <3>1
    <3>3. \A k \in Opened : CallsOK([calls EXCEPT ![s] = [at |-> "waiting", uid |-> u, on |-> k]])
      BY <3>1
    <3> QED BY <1>d, <3>2, <3>3 DEF Subscribe
  <2>5. ChannelOK(channel')
    BY <1>0, <1>d DEF Subscribe, ChannelOK
  <2>6. SubTypes'
    BY <1>0, <1>d, <2>4, <2>5 DEF Subscribe, SubTypes
  <2>7. SideTypes'
    BY <1>0, <1>d DEF Subscribe, SideTypes
  <2> QED BY <2>1, <2>2, <2>3, <2>6, <2>7
<1>e. ASSUME NEW s \in Subs, Unsubscribe(s) PROVE TypeOK'
  <2>1. SocketTypes' /\ AuthTypes' /\ LoopTypes' /\ HistoryTypes'
    BY <1>0, <1>e, SocketsStay, AuthStays, HistoryStays DEF Unsubscribe, LoopTypes
  <2>2. CallsOK(calls')
    BY <1>0, <1>e, CallChanges DEF Unsubscribe
  <2>3. ChannelOK(channel')
    BY <1>0, <1>e DEF Unsubscribe, ChannelOK, Dropped
  <2>4. SubTypes'
    BY <1>0, <1>e, <2>2, <2>3 DEF Unsubscribe, SubTypes, Forgotten
  <2>5. SideTypes'
    BY <1>0, <1>e DEF Unsubscribe, SideTypes
  <2> QED BY <2>1, <2>4, <2>5
<1>f. ASSUME NEW s \in Subs, Resume(s) PROVE TypeOK'
  <2>1. SocketTypes' /\ AuthTypes' /\ LoopTypes' /\ HistoryTypes'
    BY <1>0, <1>f, SocketsStay, AuthStays, HistoryStays DEF Resume, LoopTypes
  <2>2. CallsOK(calls')
    <3>1. CallsOK([calls EXCEPT ![s].at = "live", ![s].on = 0])
      BY <1>0, CallChanges
    <3>2. CallsOK([calls EXCEPT ![s].at = "gone", ![s].on = 0])
      BY <1>0, CallChanges
    <3> QED BY <1>f, <3>1, <3>2 DEF Resume
  <2>3. ChannelOK(channel')
    BY <1>0, <1>f DEF Resume, ChannelOK, Dropped
  <2>4. SubTypes'
    BY <1>0, <1>f, <2>2, <2>3 DEF Resume, SubTypes
  <2>5. SideTypes'
    BY <1>0, <1>f DEF Resume, SideTypes, Sent
  <2> QED BY <2>1, <2>4, <2>5
<1>g. CASE CloseEnds
  <2>1. SideTypes'
    BY <1>g, GoneTypes DEF CloseEnds
  <2>2. SocksOK(socks')
    BY <1>0, <1>g, SetupChanges DEF CloseEnds, Rejected
  <2>3. SocketTypes'
    BY <1>0, <1>g, <2>2, ConnTypes DEF CloseEnds, SocketTypes
  <2>4. LoopOK(loop')
    BY <1>0, <1>g, LoopTypesHold DEF CloseEnds
  <2>5. LoopTypes'
    BY <1>0, <1>g, <2>4 DEF CloseEnds, LoopTypes
  <2>6. SubTypes' /\ AuthTypes'
    BY <1>0, <1>g, FinalizeTypes, SubsStay, AuthStays DEF CloseEnds
  <2>7. HistoryTypes'
    BY <1>0, <1>g DEF CloseEnds, HistoryTypes, Hanging
  <2> QED BY <2>1, <2>3, <2>5, <2>6, <2>7
<1>h. CASE DelayEnds
  <2>1. LoopTypes'
    BY <1>0, <1>h, LoopTypesHold DEF DelayEnds, LoopTypes
  <2> QED BY <1>0, <1>h, <2>1, SocketsStay, SubsStay, SideStays, AuthStays, HistoryStays
      DEF DelayEnds
<1>i. CASE Attempt
  <2>1. SocketTypes' /\ clobbered' \in BOOLEAN
    BY <1>0, <1>i, ConnectingTypes, SocketsStay DEF Attempt, HistoryTypes
  <2>2. LoopOK(loop')
    BY <1>0, <1>i, LoopTypesHold DEF Attempt
  <2>3. LoopTypes' /\ HistoryTypes'
    BY <1>0, <1>i, <2>1, <2>2 DEF Attempt, LoopTypes, HistoryTypes
  <2> QED BY <1>0, <1>i, <2>1, <2>3, SubsStay, SideStays, AuthStays DEF Attempt
<1>j. CASE Replay
  <2>1. SocketTypes' /\ AuthTypes'
    BY <1>0, <1>j, SocketsStay, AuthStays DEF Replay
  <2>2. LoopTypes'
    BY <1>0, <1>j, LoopTypesHold DEF Replay, LoopTypes
  <2>3. SideTypes' /\ SubTypes'
    BY <1>0, <1>j DEF Replay, SideTypes, SubTypes, Sent, Replayed
  <2>4. HistoryTypes'
    BY <1>0, <1>j DEF Replay, HistoryTypes
  <2> QED BY <2>1, <2>2, <2>3, <2>4
<1>k. CASE ReplayFails
  <2>1. SubTypes' /\ AuthTypes' /\ SideTypes'
    BY <1>0, <1>k, FinalizeTypes, SideStays DEF ReplayFails
  <2>2. LoopTypes'
    BY <1>0, <1>k, LoopTypesHold DEF ReplayFails, LoopTypes
  <2>3. SocksOK(socks')
    BY <1>0, <1>k, ClosingType DEF ReplayFails
  <2>4. SocketTypes' /\ HistoryTypes'
    BY <1>0, <1>k, <2>3 DEF ReplayFails, SocketTypes, HistoryTypes, Waiting
  <2> QED BY <2>1, <2>2, <2>4
<1>l. CASE Retry
  <2>1. SubTypes' /\ AuthTypes' /\ SideTypes' /\ SocketTypes'
    BY <1>0, <1>l, FinalizeTypes, SideStays, SubsStay, AuthStays, SocketsStay DEF Retry
  <2>2. LoopOK(loop')
    BY <1>0, <1>l, LoopTypesHold DEF Retry
  <2>3. LoopTypes' /\ HistoryTypes'
    BY <1>0, <1>l, <2>2 DEF Retry, LoopTypes, HistoryTypes, Waiting
  <2> QED BY <2>1, <2>3
<1>m. ASSUME NEW k \in Sockets, Continuation(k) \/ Network(k) \/ Deadline(k) PROVE TypeOK'
  <2>0. k \in Opened
    BY DEF Sockets, Opened
  <2>1. CASE Fails(k)
    BY <2>0, <2>1, FailsTypes
  <2>2. CASE TokenReady(k) \/ Accepted(k)
    <3>1. SocksOK(socks') /\ pending' \in Opened
      <4>1. SocksOK([socks EXCEPT ![k].setup = "ack"])
              /\ SocksOK([socks EXCEPT ![k].setup = "established"])
        BY <1>0, <2>0, SetupChanges
      <4> QED BY <1>0, <2>2, <4>1 DEF TokenReady, Accepted, SocketTypes
    <3>2. SocketTypes' /\ LoopTypes'
      BY <1>0, <2>2, <3>1 DEF TokenReady, Accepted, SocketTypes, LoopTypes
    <3> QED BY <1>0, <2>2, <3>2, SubsStay, SideStays, AuthStays, HistoryStays
        DEF TokenReady, Accepted
  <2>3. CASE Refreshed(k)
    <3>1. SocketTypes' /\ SubTypes' /\ HistoryTypes' /\ LoopTypes'
      BY <1>0, <2>3, SocketsStay, SubsStay, HistoryStays DEF Refreshed, LoopTypes
    <3>2. AuthTypes'
      BY <1>0, <2>3, ClientAssumption DEF Refreshed, AuthTypes
    <3>3. ResentOK(resent')
      BY <1>0, <2>3 DEF Refreshed, ResentOK
    <3>4. SideTypes'
      BY <1>0, <2>3, <3>3 DEF Refreshed, SideTypes
    <3> QED BY <3>1, <3>2, <3>4
  <2>4. CASE Open(k)
    <3>1. SocksOK(socks') /\ ConnOK(conn')
      <4>1. SocksOK([socks EXCEPT ![k] = [net |-> "open", setup |-> "established"]])
        BY <1>0, <2>0, SocketChanges
      <4>2. SocksOK([socks EXCEPT ![k] = [net |-> "open", setup |-> "token"]])
        BY <1>0, <2>0, SocketChanges
      <4>3. ConnOK(conn')
        BY <2>0, <2>4, ConnTypes DEF Open
      <4>4. CASE config.mode = "public"
        BY <4>1, <4>3, <4>4, <2>4 DEF Open
      <4>5. CASE config.mode # "public"
        BY <4>2, <4>3, <4>5, <2>4 DEF Open
      <4> QED BY <4>4, <4>5
    <3>2. SocketTypes' /\ LoopTypes'
      BY <1>0, <2>4, <3>1 DEF Open, SocketTypes, LoopTypes
    <3> QED BY <1>0, <2>4, <3>2, SubsStay, GoneTypes, AuthStays, HistoryStays DEF Open
  <2>5. CASE CloseBegins(k)
    <3>1. SocksOK(socks')
      BY <1>0, <2>0, <2>5, NetChanges DEF CloseBegins
    <3>2. SocketTypes' /\ LoopTypes' /\ HistoryTypes'
      BY <1>0, <2>0, <2>5, <3>1 DEF CloseBegins, SocketTypes, LoopTypes, HistoryTypes
    <3> QED BY <1>0, <2>5, <3>2, SubsStay, SideStays, AuthStays DEF CloseBegins
  <2>6. CASE AuthAnswer(k) \/ OtherMessage(k) \/ TokenExpired(k) \/ AuthFailed(k) \/ Overflow(k)
    <3>1. ConnOK(conn')
      BY <1>0, <2>6, ConnTypes DEF AuthAnswer, OtherMessage, TokenExpired, AuthFailed, Overflow,
          Heard
    <3>2. SocksOK(socks')
      <4>1. \A answer \in {"accepted", "refused"} : SocksOK([socks EXCEPT ![k].setup = answer])
        BY <1>0, <2>0, SetupChanges
      <4>2. SocksOK(Closing(k))
        BY <1>0, <2>0, ClosingType
      <4> QED BY <1>0, <2>6, <4>1, <4>2 DEF AuthAnswer, OtherMessage, TokenExpired, AuthFailed,
          Overflow
    <3>3. SocketTypes'
      BY <1>0, <2>6, <3>1, <3>2 DEF AuthAnswer, OtherMessage, TokenExpired, AuthFailed, Overflow,
          SocketTypes
    <3>4. ConfigOK(config')
      BY <1>0, <2>6 DEF AuthAnswer, OtherMessage, TokenExpired, AuthFailed, Overflow, ConfigOK,
          LoopTypes
    <3>5. LoopTypes'
      BY <1>0, <2>6, <3>4 DEF AuthAnswer, OtherMessage, TokenExpired, AuthFailed, Overflow,
          LoopTypes
    <3>6. SideTypes'
      BY <1>0, <2>6, SideStays DEF AuthAnswer, OtherMessage, TokenExpired, AuthFailed, Overflow
    <3>7. HistoryTypes'
      BY <1>0, <2>6, HistoryStays DEF AuthAnswer, OtherMessage, TokenExpired, AuthFailed,
          Overflow, HistoryTypes, Waiting
    <3>8. SubTypes' /\ AuthTypes'
      <4>1. CASE Overflow(k)
        BY <1>0, <4>1, FinalizeTypes DEF Overflow
      <4>2. CASE TokenExpired(k)
        BY <1>0, <2>0, <4>2, SubsStay DEF TokenExpired, AuthTypes
      <4> QED BY <1>0, <2>6, <4>1, <4>2, SubsStay, AuthStays
          DEF AuthAnswer, OtherMessage, AuthFailed
    <3> QED BY <3>3, <3>5, <3>6, <3>7, <3>8
  <2>7. ASSUME NEW s \in Subs, SubscribeError(k, s) PROVE TypeOK'
    <3>1. ConnOK(conn') /\ ChannelOK(channel')
      BY <1>0, <2>7, ConnTypes DEF SubscribeError, Heard, ChannelOK
    <3>2. SocketTypes' /\ LoopTypes' /\ SubTypes'
      BY <1>0, <2>7, <3>1 DEF SubscribeError, SocketTypes, LoopTypes, SubTypes
    <3>3. SideTypes' /\ HistoryTypes' /\ AuthTypes'
      BY <1>0, <2>7, AuthStays DEF SubscribeError, SideTypes, HistoryTypes
    <3> QED BY <3>2, <3>3
  <2> QED BY <1>m, <2>1, <2>2, <2>3, <2>4, <2>5, <2>6, <2>7
      DEF Continuation, Network, TokenFails, Refused, Deadline
<1>n. CASE UNCHANGED vars
  <2>1. LoopTypes'
    BY <1>0, <1>n DEF vars, LoopTypes
  <2> QED BY <1>0, <1>n, <2>1, SocketsStay, SubsStay, SideStays, AuthStays, HistoryStays DEF vars
<1> QED BY <1>a, <1>b, <1>c, <1>d, <1>e, <1>f, <1>g, <1>h, <1>i, <1>j, <1>k, <1>l, <1>m, <1>n
    DEF Next, Application, Recovery

-----------------------------------------------------------------------------
\* connect() leaves an open connection alone.
LEMMA ConnectingConn ==
  ASSUME TypeOK, ConnInv, NEW k \in Opened, Connecting(k)
  PROVE  /\ pending' # 0 => socks'[pending'].setup \in InSetup
         /\ IsOpen' => conn'.socket # 0 /\ socks'[conn'.socket].setup \notin {"failed", "none", "opening"}
         /\ IsOpen' <=> IsOpen
         /\ \A j \in Opened : socks'[j].setup = "failed" => socks[j].setup = "failed"
         /\ socks'[k].setup = "failed" => ~IsOpen
         /\ OpenNow' => OpenNow
<1>0. SocksOK(socks)
        /\ conn \in [code : {"closed", "connecting", "open"}, socket : Opened, first : BOOLEAN] /\ pending \in Opened
  BY DEF TypeOK, SocksOK
<1>1. CASE UNCHANGED <<socks, conn, pending>>
  <2>1. \/ k = pending /\ pending # 0
        \/ k = conn.socket /\ IsOpen
        \/ ~IsOpen
    BY <1>1 DEF Connecting
  <2>2. pending # 0 => socks[pending].setup # "failed"
    BY DEF ConnInv, InSetup
  <2>3. k = pending /\ pending # 0 => socks[k].setup # "failed"
    BY <2>2
  <2> QED BY <1>1, <2>1, <2>2 DEF ConnInv, IsOpen, OpenNow
<1>2. CASE /\ k = attempts + 1 /\ k <= MaxAttempts /\ pending = 0 /\ ~IsOpen
           /\ attempts' = k /\ current' = k /\ pending' = k
           /\ socks' = [socks EXCEPT ![k] = [net |-> "opening", setup |-> "opening"]]
           /\ conn' = [code |-> "connecting", socket |-> k, first |-> FALSE]
  <2>1. socks'[k].setup = "opening" /\ ~IsOpen'
    BY <1>0, <1>2 DEF SocksOK, IsOpen
  <2>2. \A j \in Opened : j # k => socks'[j] = socks[j]
    BY <1>0, <1>2 DEF SocksOK
  <2>3. pending' = k /\ ~OpenNow' /\ ~IsOpen
    BY <1>2, <2>1 DEF OpenNow
  <2> QED BY <2>1, <2>2, <2>3 DEF InSetup
<1> QED BY <1>1, <1>2 DEF Connecting

\* The connection's part of the invariant is kept by every step.
LEMMA ConnStep == TypeOK /\ ConnInv /\ [Next]_vars => ConnInv'
<1> SUFFICES ASSUME TypeOK, ConnInv, [Next]_vars PROVE ConnInv'
  OBVIOUS
<1>0. /\ SocksOK(socks) /\ LoopOK(loop) /\ ConnOK(conn) /\ pending \in Opened /\ 0 \in Opened
      /\ conn \in [code : {"closed", "connecting", "open"}, socket : Opened, first : BOOLEAN]
      /\ loop.on \in Opened /\ conn.socket \in Opened
  <2>1. conn \in [code : {"closed", "connecting", "open"}, socket : Opened, first : BOOLEAN]
    BY DEF TypeOK
  <2>2. loop \in [at : {"off", "delay", "woken", "waiting"}, tries : 0..Retries, on : Opened, targets : SUBSET Subs]
    BY DEF TypeOK
  <2>3. loop.on \in Opened /\ conn.socket \in Opened
    BY <2>1, <2>2
  <2> QED BY <2>1, <2>2, <2>3, TypesByName, ClientAssumption DEF SocketTypes, LoopTypes, Opened
<1>1. ASSUME UNCHANGED socketVars, ~IsOpen => UNCHANGED sideVars,
             \/ loop' = loop
             \/ loop'.at # "waiting"
      PROVE  ConnInv'
  BY <1>0, <1>1 DEF ConnInv, socketVars, sideVars, IsOpen
<1>2. ASSUME UNCHANGED sideVars, UNCHANGED loop, NEW k \in Opened, Connecting(k)
      PROVE  ConnInv'
  <2>1. loop'.at = "waiting" /\ socks'[loop'.on].setup = "failed" => ~IsOpen'
    BY <1>0, <1>2, ConnectingConn DEF ConnInv
  <2>2. ~IsOpen' => server' = {} /\ sent' = {} /\ resent' = Never
    BY <1>2, ConnectingConn DEF ConnInv, sideVars
  <2> QED BY <1>2, <2>1, <2>2, ConnectingConn DEF ConnInv
<1>3. ASSUME ~IsOpen', pending' = 0, Gone PROVE ConnInv'
  BY <1>3 DEF ConnInv, Gone
<1>4. ASSUME UNCHANGED loop, UNCHANGED sideVars, UNCHANGED pending, Heard, IsOpen,
             \A j \in Opened : \/ socks'[j].setup = socks[j].setup
                               \/ socks'[j].setup \in InSetup \ {"opening"}
      PROVE ConnInv'
  <2>1. conn'.code = conn.code /\ conn'.socket = conn.socket
    BY <1>0, <1>4 DEF Heard
  <2>2. IsOpen' /\ pending' = pending /\ loop' = loop
    BY <2>1, <1>4 DEF IsOpen
  <2>3. pending' # 0 => socks'[pending'].setup \in InSetup
    BY <1>0, <1>4, <2>2 DEF ConnInv
  <2>4. conn'.socket # 0 /\ socks'[conn'.socket].setup \notin {"failed", "none", "opening"}
    BY <1>0, <1>4, <2>1 DEF ConnInv, InSetup
  <2>5. ~(loop'.at = "waiting" /\ socks'[loop'.on].setup = "failed")
    BY <1>0, <1>4, <2>2 DEF ConnInv, InSetup
  <2> QED BY <2>2, <2>3, <2>4, <2>5 DEF ConnInv
<1>a. CASE Connect
  BY <1>a, <1>2 DEF Connect
<1>b. CASE Disconnect
  <2>1. ~IsOpen' /\ pending' = 0
    BY <1>b DEF Disconnect, IsOpen, Closed
  <2> QED BY <1>b, <2>1, <1>3 DEF Disconnect
<1>c. CASE NewToken
  BY <1>c, <1>1 DEF NewToken, sideVars
<1>d. ASSUME NEW s \in Subs, NEW u \in Uids, Subscribe(s, u) PROVE ConnInv'
  <2>1. CASE IsOpen
    BY <1>d, <2>1, <1>1 DEF Subscribe
  <2>2. CASE ~IsOpen
    <3>1. PICK k \in Opened : Connecting(k)
      BY <1>d, <2>2 DEF Subscribe
    <3>2. UNCHANGED sideVars /\ UNCHANGED loop
      BY <1>d, <2>2 DEF Subscribe, sideVars
    <3> QED BY <3>1, <3>2, <1>2
  <2> QED BY <2>1, <2>2
<1>e. ASSUME NEW s \in Subs, Unsubscribe(s) PROVE ConnInv'
  <2>1. ~IsOpen => UNCHANGED sideVars
    BY <1>e DEF Unsubscribe, sideVars
  <2> QED BY <1>e, <2>1, <1>1 DEF Unsubscribe
<1>f. ASSUME NEW s \in Subs, Resume(s) PROVE ConnInv'
  <2>1. ~IsOpen => UNCHANGED sideVars
    BY <1>f DEF Resume, sideVars
  <2> QED BY <1>f, <2>1, <1>1 DEF Resume
<1>g. CASE CloseEnds
  <2>1. ~IsOpen' /\ pending' = 0
    BY <1>g DEF CloseEnds, IsOpen, Closed
  <2> QED BY <1>g, <2>1, <1>3 DEF CloseEnds
<1>h. CASE DelayEnds
  <2>1. loop'.at # "waiting"
    BY <1>0, <1>h DEF DelayEnds, Woken, LoopOK
  <2> QED BY <1>h, <2>1, <1>1 DEF DelayEnds, sideVars
<1>i. CASE Attempt
  <2>1. CASE manual
    BY <1>i, <2>1, <1>1 DEF Attempt, NoLoop
  <2>2. CASE ~manual
    <3>1. PICK k \in Opened : Connecting(k) /\ loop' = [loop EXCEPT !.at = "waiting", !.on = k]
      BY <1>i, <2>2 DEF Attempt
    <3>2. loop'.on = k
      BY <1>0, <3>1 DEF LoopOK
    <3>3. loop'.at = "waiting" /\ socks'[loop'.on].setup = "failed" => ~IsOpen'
      BY <3>1, <3>2, ConnectingConn
    <3>4. ~IsOpen' => server' = {} /\ sent' = {} /\ resent' = Never
      BY <1>i, <3>1, ConnectingConn DEF ConnInv, sideVars, Attempt
    <3> QED BY <3>1, <3>3, <3>4, ConnectingConn DEF ConnInv
  <2> QED BY <2>1, <2>2
<1>j. CASE Replay
  <2>1. ~IsOpen => UNCHANGED sideVars
    BY <1>j DEF Replay, sideVars
  <2> QED BY <1>j, <2>1, <1>1 DEF Replay, NoLoop
<1>k. CASE ReplayFails
  <2>1. UNCHANGED <<conn, pending, sideVars>> /\ loop'.at = "off"
    BY <1>k DEF ReplayFails, NoLoop
  <2>2. \A j \in Opened : socks'[j].setup = socks[j].setup
    BY <1>0, <1>k DEF ReplayFails, Closing, SocksOK
  <2> QED BY <1>0, <2>1, <2>2 DEF ConnInv, IsOpen, sideVars
<1>l. CASE Retry
  <2>1. UNCHANGED socketVars /\ UNCHANGED sideVars /\ loop'.at # "waiting"
    <3>1. [loop EXCEPT !.at = "delay", !.tries = @ + 1, !.on = 0].at = "delay"
      BY <1>0 DEF LoopOK
    <3>2. NoLoop.at = "off"
      BY DEF NoLoop
    <3>3. loop' = NoLoop \/ loop' = [loop EXCEPT !.at = "delay", !.tries = @ + 1, !.on = 0]
      BY <1>l DEF Retry
    <3>4. loop'.at # "waiting"
      BY <3>1, <3>2, <3>3
    <3> QED BY <1>l, <3>4 DEF Retry
  <2> QED BY <2>1, <1>1
<1>m. ASSUME NEW k \in Sockets, Continuation(k) \/ Network(k) \/ Deadline(k) PROVE ConnInv'
  <2>0. k \in Opened
    BY DEF Sockets, Opened
  <2>1. CASE Fails(k)
    <3>1. ~IsOpen' /\ pending' = 0
      BY <2>1 DEF Fails, Teardown, IsOpen, Closed
    <3> QED BY <2>1, <3>1, <1>3 DEF Fails
  <2>2. CASE TokenReady(k)
    <3>1. \A j \in Opened : socks'[j].setup = IF j = k THEN "ack" ELSE socks[j].setup
      BY <1>0, <2>0, <2>2 DEF TokenReady, SocksOK
    <3>2. UNCHANGED <<conn, pending, loop, sideVars>>
      BY <2>2 DEF TokenReady
    <3> QED BY <1>0, <3>1, <3>2 DEF ConnInv, InSetup, IsOpen, sideVars
  <2>3. CASE Accepted(k)
    <3>1. \A j \in Opened : socks'[j].setup = IF j = k THEN "established" ELSE socks[j].setup
      BY <1>0, <2>0, <2>3 DEF Accepted, SocksOK
    <3>2. UNCHANGED <<conn, loop, sideVars>> /\ pending' = 0
      BY <2>3 DEF Accepted
    <3> QED BY <1>0, <3>1, <3>2 DEF ConnInv, InSetup, IsOpen, sideVars
  <2>4. CASE Refreshed(k)
    <3>1. UNCHANGED socketVars /\ loop' = loop /\ (~IsOpen => UNCHANGED sideVars)
      BY <2>4 DEF Refreshed, sideVars
    <3> QED BY <3>1, <1>1
  <2>5. CASE Open(k)
    <3>1. \A j \in Opened : socks'[j].setup = IF j = k THEN (IF config.mode = "public" THEN "established" ELSE "token")
                                                       ELSE socks[j].setup
      BY <1>0, <2>0, <2>5 DEF Open, SocksOK
    <3>2. conn'.code = "open" /\ conn'.socket = k /\ k # 0 /\ loop' = loop
      BY <2>5 DEF Open, Sockets
    <3>3. pending' = IF config.mode = "public" THEN 0 ELSE pending
      BY <2>5 DEF Open
    <3>4. ~(loop.at = "waiting" /\ Settled(loop.on))
      BY <2>5 DEF Open, Turn, Due
    <3>5. ~(loop'.at = "waiting" /\ socks'[loop'.on].setup = "failed")
      BY <1>0, <3>1, <3>2, <3>4 DEF Settled
    <3>6. pending' # 0 => socks'[pending'].setup \in InSetup
      BY <1>0, <3>1, <3>3 DEF ConnInv, InSetup
    <3>7. socks'[conn'.socket].setup \notin {"failed", "none", "opening"}
      BY <2>0, <3>1, <3>2
    <3> QED BY <3>2, <3>5, <3>6, <3>7 DEF ConnInv, IsOpen
  <2>6. CASE CloseBegins(k)
    <3>1. \A j \in Opened : socks'[j].setup = socks[j].setup
      BY <1>0, <2>0, <2>6 DEF CloseBegins, SocksOK
    <3>2. UNCHANGED <<conn, pending, loop, sideVars>>
      BY <2>6 DEF CloseBegins
    <3> QED BY <1>0, <3>1, <3>2 DEF ConnInv, InSetup, IsOpen, sideVars
  <2>7. CASE AuthAnswer(k) \/ OtherMessage(k) \/ TokenExpired(k) \/ AuthFailed(k) \/ Overflow(k)
    <3>1. \A j \in Opened : socks'[j].setup = socks[j].setup \/ socks'[j].setup \in InSetup \ {"opening"}
      <4>1. CASE AuthAnswer(k)
        BY <1>0, <2>0, <4>1 DEF AuthAnswer, SocksOK, InSetup
      <4>2. CASE OtherMessage(k) \/ TokenExpired(k)
        BY <4>2 DEF OtherMessage, TokenExpired
      <4>3. CASE AuthFailed(k) \/ Overflow(k)
        BY <1>0, <2>0, <4>3 DEF AuthFailed, Overflow, Closing, SocksOK
      <4> QED BY <2>7, <4>1, <4>2, <4>3
    <3>2. UNCHANGED loop /\ UNCHANGED sideVars /\ UNCHANGED pending /\ Heard /\ IsOpen
      BY <2>7 DEF AuthAnswer, OtherMessage, TokenExpired, AuthFailed, Overflow, Message
    <3> QED BY <3>1, <3>2, <1>4
  <2>8. ASSUME NEW s \in Subs, SubscribeError(k, s) PROVE ConnInv'
    <3>1. conn'.code = conn.code /\ conn'.socket = conn.socket /\ IsOpen
            /\ UNCHANGED <<pending, loop, socks>>
      BY <1>0, <2>8 DEF SubscribeError, Heard, Message
    <3> QED BY <3>1 DEF ConnInv, IsOpen
  <2> QED BY <1>m, <2>1, <2>2, <2>3, <2>4, <2>5, <2>6, <2>7, <2>8
      DEF Continuation, Network, TokenFails, Refused, Deadline
<1>n. CASE UNCHANGED vars
  BY <1>n, <1>1 DEF vars, sideVars
<1> QED BY <1>a, <1>b, <1>c, <1>d, <1>e, <1>f, <1>g, <1>h, <1>i, <1>j, <1>k, <1>l, <1>m, <1>n
    DEF Next, Application, Recovery

\* Closing a socket that is open leaves it not open.
LEMMA ClosingNet ==
  ASSUME SocksOK(socks), NEW k \in Opened
  PROVE  /\ Closing(k)[k].net # "open"
         /\ \A j \in Opened : Closing(k)[j].net = "open" => socks[j].net = "open"
         /\ \A j \in Opened : Closing(k)[j].setup = socks[j].setup
BY DEF Closing, SocksOK

\* A connection opens by Open alone.
LEMMA OpenNowStays ==
  ASSUME TypeOK, ConnInv, [Next]_vars, \A k \in Sockets : ~Open(k)
  PROVE  OpenNow' => OpenNow
<1>0. /\ SocksOK(socks) /\ conn.socket \in Opened
      /\ conn \in [code : {"closed", "connecting", "open"}, socket : Opened, first : BOOLEAN]
  <2>1. conn \in [code : {"closed", "connecting", "open"}, socket : Opened, first : BOOLEAN]
    BY DEF TypeOK
  <2> QED BY <2>1, TypesByName, ConnTypes DEF SocketTypes
<1>1. ASSUME conn'.code = conn.code, conn'.socket = conn.socket,
             \A j \in Opened : socks'[j].net = "open" => socks[j].net = "open"
      PROVE  OpenNow' => OpenNow
  BY <1>0, <1>1 DEF OpenNow, IsOpen
<1>2. ASSUME conn' = Closed PROVE ~OpenNow'
  BY <1>2 DEF OpenNow, IsOpen, Closed
<1>3. ASSUME UNCHANGED <<socks, conn>> PROVE OpenNow' => OpenNow
  BY <1>3 DEF OpenNow, IsOpen
<1>4. ASSUME NEW k \in Opened, Connecting(k) PROVE OpenNow' => OpenNow
  BY <1>4, ConnectingConn
<1>5. ASSUME NEW k \in Opened, socks' = Closing(k)
      PROVE \A j \in Opened : socks'[j].net = "open" => socks[j].net = "open"
  BY <1>0, <1>5, ClosingNet
<1>6. ASSUME Heard PROVE conn'.code = conn.code /\ conn'.socket = conn.socket
  BY <1>0, <1>6 DEF Heard
<1>a. CASE Connect \/ Attempt \/ \E s \in Subs, u \in Uids : Subscribe(s, u)
  BY <1>a, <1>3, <1>4 DEF Connect, Attempt, Subscribe, socketVars
<1>b. CASE Disconnect \/ CloseEnds
  BY <1>b, <1>2, <1>3 DEF Disconnect, CloseEnds
<1>c. CASE NewToken \/ DelayEnds \/ Replay \/ Retry \/ \E s \in Subs : Unsubscribe(s) \/ Resume(s)
  BY <1>c, <1>3 DEF NewToken, DelayEnds, Replay, Retry, Unsubscribe, Resume, socketVars
<1>d. CASE ReplayFails
  BY <1>0, <1>d, <1>1, <1>5, <1>3 DEF ReplayFails
<1>m. ASSUME NEW k \in Sockets, Continuation(k) \/ Network(k) \/ Deadline(k)
      PROVE OpenNow' => OpenNow
  <2>0. k \in Opened
    BY DEF Sockets, Opened
  <2>1. CASE TokenFails(k) \/ Refused(k) \/ Deadline(k)
    BY <2>1, <1>2 DEF TokenFails, Refused, Deadline, Fails, Teardown
  <2>2. CASE TokenReady(k) \/ Accepted(k) \/ CloseBegins(k)
    <3>1. \A j \in Opened : socks'[j].net = "open" => socks[j].net = "open"
      BY <1>0, <2>0, <2>2 DEF TokenReady, Accepted, CloseBegins, SocksOK
    <3>2. conn' = conn
      BY <2>2 DEF TokenReady, Accepted, CloseBegins
    <3> QED BY <3>1, <3>2, <1>1
  <2>3. CASE Refreshed(k)
    BY <2>3, <1>3 DEF Refreshed, socketVars
  <2>4. CASE AuthAnswer(k) \/ OtherMessage(k) \/ TokenExpired(k) \/ AuthFailed(k) \/ Overflow(k)
             \/ \E s \in Subs : SubscribeError(k, s)
    <3>1. \A j \in Opened : socks'[j].net = "open" => socks[j].net = "open"
      <4>1. CASE AuthAnswer(k)
        BY <1>0, <2>0, <4>1 DEF AuthAnswer, SocksOK
      <4> QED BY <1>5, <2>0, <2>4, <4>1 DEF OtherMessage, TokenExpired, AuthFailed, Overflow,
          SubscribeError
    <3>2. Heard
      BY <2>4 DEF AuthAnswer, OtherMessage, TokenExpired, AuthFailed, Overflow, SubscribeError
    <3> QED BY <3>1, <3>2, <1>1, <1>6
  <2> QED BY <1>m, <2>1, <2>2, <2>3, <2>4 DEF Continuation, Network
<1>n. CASE UNCHANGED vars
  BY <1>n, <1>3 DEF vars, socketVars
<1> QED BY <1>a, <1>b, <1>c, <1>d, <1>m, <1>n DEF Next, Application, Recovery

\* Where subscriptions end together, no connection stays open.
LEMMA EndedClosed ==
  ASSUME TypeOK, ConnInv,
         Disconnect \/ CloseEnds \/ ReplayFails \/ Retry \/ \E k \in Sockets : Overflow(k)
  PROVE  ~OpenNow'
<1>0. /\ SocksOK(socks) /\ conn.socket \in Opened
      /\ conn \in [code : {"closed", "connecting", "open"}, socket : Opened, first : BOOLEAN]
  <2>1. conn \in [code : {"closed", "connecting", "open"}, socket : Opened, first : BOOLEAN]
    BY DEF TypeOK
  <2> QED BY <2>1, TypesByName, ConnTypes DEF SocketTypes
<1>1. CASE Disconnect \/ CloseEnds
  BY <1>1 DEF Disconnect, CloseEnds, OpenNow, IsOpen, Closed
<1>2. CASE ReplayFails
  <2>1. conn' = conn /\ socks' = IF IsOpen THEN Closing(conn.socket) ELSE socks
    BY <1>2 DEF ReplayFails
  <2> QED BY <1>0, <2>1, ClosingNet DEF OpenNow, IsOpen
<1>3. CASE Retry
  <2>1. socks[loop.on].setup = "failed" /\ loop.at = "waiting"
    BY <1>3 DEF Retry, Settled, Established
  <2>2. ~IsOpen
    BY <2>1 DEF ConnInv
  <2> QED BY <1>3, <2>2 DEF Retry, socketVars, OpenNow, IsOpen
<1>4. ASSUME NEW k \in Sockets, Overflow(k) PROVE ~OpenNow'
  <2>1. conn'.socket = k /\ socks' = Closing(k) /\ k \in Opened
    BY <1>0, <1>4 DEF Overflow, Heard, Message, Sockets, Opened
  <2> QED BY <1>0, <2>1, ClosingNet DEF OpenNow
<1> QED BY <1>1, <1>2, <1>3, <1>4

\* The token's part of the invariant is kept by every step.
LEMMA TokenStep == TypeOK /\ ConnInv /\ TokenInv /\ [Next]_vars => TokenInv'
<1> SUFFICES ASSUME TypeOK, ConnInv, TokenInv, [Next]_vars PROVE TokenInv'
  OBVIOUS
<1>0. /\ token \in 1..MaxTokens /\ retried \in 0..MaxTokens /\ resent \in [1..MaxTokens -> 0..2]
  BY DEF TypeOK
<1>1. CASE UNCHANGED <<token, retried, resent>> /\ \A k \in Sockets : ~Open(k)
  BY <1>1, OpenNowStays DEF TokenInv
<1>2. CASE Disconnect \/ CloseEnds \/ ReplayFails \/ Retry \/ \E k \in Sockets : Overflow(k)
  <2>1. UNCHANGED authVars \/ \E e \in {"closed", "failed"} : Finalize(e)
    BY <1>2 DEF Disconnect, CloseEnds, ReplayFails, Retry, Overflow
  <2>2. token' = token /\ (retried' = 0 \/ retried' = retried)
    BY <2>1 DEF authVars, Finalize
  <2> QED BY <1>0, <1>2, <2>2, EndedClosed, ClientAssumption DEF TokenInv
<1>3. CASE NewToken
  <2>1. UNCHANGED <<socks, conn, retried, resent>> /\ token' = token + 1
    BY <1>3 DEF NewToken, socketVars, sideVars
  <2> QED BY <1>0, <2>1 DEF TokenInv, OpenNow, IsOpen
<1>4. ASSUME NEW k \in Sockets, Refreshed(k) PROVE TokenInv'
  <2>1. OpenNow' = OpenNow /\ token' = token
    BY <1>4 DEF Refreshed, socketVars, OpenNow, IsOpen
  <2>2. CASE UNCHANGED <<retried, resent>>
    BY <2>1, <2>2 DEF TokenInv
  <2>3. CASE Fresh /\ resent' = [resent EXCEPT ![token] = IF @ = 0 THEN 1 ELSE 2] /\ retried' = token
    <3>1. token # retried
      BY <2>3 DEF Fresh
    <3>2. retried' <= token'
      BY <1>0, <2>1, <2>3
    <3>3. ASSUME OpenNow', NEW t \in 1..MaxTokens
          PROVE resent'[t] <= 1 /\ (resent'[t] >= 1 => t <= retried')
      <4>1. /\ resent[token] <= 1 /\ (resent[token] >= 1 => token <= retried)
            /\ resent[t] <= 1 /\ (resent[t] >= 1 => t <= retried) /\ retried <= token
        BY <1>0, <2>1, <3>3 DEF TokenInv
      <4>2. resent[token] = 0
        BY <1>0, <3>1, <4>1
      <4>3. CASE t = token
        BY <1>0, <2>3, <4>2, <4>3
      <4>4. CASE t # token
        <5>1. resent'[t] = resent[t]
          BY <1>0, <2>3, <4>4
        <5> QED BY <1>0, <2>3, <4>1, <5>1
      <4> QED BY <4>3, <4>4
    <3> QED BY <3>2, <3>3 DEF TokenInv
  <2> QED BY <1>4, <2>2, <2>3 DEF Refreshed
<1>5. ASSUME NEW k \in Sockets, Open(k) PROVE TokenInv'
  <2>1. resent' = Never /\ retried' = retried /\ token' = token
    BY <1>5 DEF Open, Gone, authVars
  <2> QED BY <1>0, <2>1 DEF TokenInv, Never
<1>6. ASSUME NEW k \in Sockets, TokenFails(k) \/ Refused(k) \/ Deadline(k) PROVE TokenInv'
  <2>1. ~OpenNow' /\ UNCHANGED <<token, retried>>
    BY <1>6 DEF TokenFails, Refused, Deadline, Fails, Teardown, OpenNow, IsOpen, Closed, authVars
  <2> QED BY <2>1 DEF TokenInv
<1>7. ASSUME ~(Disconnect \/ CloseEnds \/ ReplayFails \/ Retry \/ NewToken),
             ~\E k \in Sockets : Overflow(k) \/ Refreshed(k) \/ Open(k) \/ TokenFails(k) \/ Refused(k) \/ Deadline(k)
      PROVE  UNCHANGED <<token, retried, resent>>
  BY <1>7 DEF Next, Application, Recovery, Continuation, Network, vars, authVars, sideVars,
     Connect, Subscribe, Unsubscribe, Resume, DelayEnds, Attempt, Replay,
     TokenReady, Accepted, CloseBegins, AuthAnswer, TokenExpired, AuthFailed, OtherMessage,
     SubscribeError
<1> QED BY <1>1, <1>2, <1>3, <1>4, <1>5, <1>6, <1>7

\* Ending every subscription leaves no channel open.
LEMMA EndAllHolds ==
  ASSUME TypeOK, ChannelInv, NEW e \in {"closed", "failed"}, EndAll(e)
  PROVE  ChannelInv'
<1>1. subs' = {} /\ registry' = {}
  BY DEF EndAll
<1>2. \A s \in Subs : channel'[s] # "open"
  <2> TAKE s \in Subs
  <2>1. channel'[s] = IF s \in registry /\ channel[s] = "open" THEN e ELSE channel[s]
    BY DEF EndAll
  <2>2. channel[s] = "open" => s \in registry
    BY DEF ChannelInv, ChannelsHeld
  <2> QED BY <2>1, <2>2
<1> QED BY <1>1, <1>2 DEF ChannelInv, ChannelsHeld

\* The channels' part of the invariant is kept by every step.
LEMMA ChannelStep == TypeOK /\ ChannelInv /\ [Next]_vars => ChannelInv'
<1> SUFFICES ASSUME TypeOK, ChannelInv, [Next]_vars PROVE ChannelInv'
  OBVIOUS
<1>0. /\ subs \subseteq Subs /\ registry = subs
      /\ channel \in [Subs -> {"none", "open", "closed", "failed"}]
      /\ calls \in [Subs -> [at : {"none", "waiting", "live", "gone"}, uid : Uids, on : Opened]]
      /\ \A s \in Subs : s \in subs <=> channel[s] = "open"
  BY DEF TypeOK, ChannelInv, ChannelsHeld
<1>1. ASSUME UNCHANGED subVars PROVE ChannelInv'
  BY <1>1 DEF ChannelInv, ChannelsHeld, subVars
<1>2. ASSUME NEW e \in {"closed", "failed"}, Finalize(e) PROVE ChannelInv'
  BY <1>2, EndAllHolds DEF Finalize
<1>d. ASSUME NEW s \in Subs, NEW u \in Uids, Subscribe(s, u) PROVE ChannelInv'
  <2>1. /\ registry' = subs' /\ subs' = subs \cup {s}
        /\ \A t \in Subs : channel'[t] = IF t = s THEN "open" ELSE channel[t]
    BY <1>0, <1>d DEF Subscribe
  <2>2. /\ calls'[s].at \in {"waiting", "live"} /\ calls'[s].uid = u
        /\ \A t \in Subs : t # s => calls'[t] = calls[t]
    BY <1>0, <1>d DEF Subscribe
  <2>3. \A t \in subs : calls[t].uid # u /\ t # s
    BY <1>0, <1>d DEF Subscribe, Taken, ChannelInv
  <2>4. ChannelsHeld'
    BY <1>0, <2>1 DEF ChannelsHeld
  <2>5. \A t \in subs' : calls'[t].at \in {"waiting", "live"}
    BY <1>0, <2>1, <2>2 DEF ChannelInv
  <2>6. \A t, v \in subs' : calls'[t].uid = calls'[v].uid => t = v
    BY <1>0, <2>1, <2>2, <2>3 DEF ChannelInv
  <2> QED BY <2>4, <2>5, <2>6 DEF ChannelInv
<1>e. ASSUME NEW s \in Subs, Unsubscribe(s) PROVE ChannelInv'
  <2>1. /\ registry' = subs' /\ subs' = subs \ {s}
        /\ \A t \in Subs : channel'[t] = IF t = s /\ channel[t] = "open" THEN "closed" ELSE channel[t]
    BY <1>0, <1>e DEF Unsubscribe, Dropped, Forgotten
  <2>2. /\ \A t \in Subs : t # s => calls'[t] = calls[t]
    BY <1>0, <1>e DEF Unsubscribe
  <2>4. ChannelsHeld'
    BY <1>0, <2>1 DEF ChannelsHeld
  <2> QED BY <1>0, <2>1, <2>2, <2>4 DEF ChannelInv
<1>f. ASSUME NEW s \in Subs, Resume(s) PROVE ChannelInv'
  <2>2. /\ \A t \in Subs : t # s => calls'[t] = calls[t]
        /\ calls'[s].uid = calls[s].uid
    BY <1>0, <1>f DEF Resume
  <2>3. CASE calls'[s].at = "live" /\ UNCHANGED <<subs, registry, channel>>
    <3>1. ChannelsHeld'
      BY <2>3 DEF ChannelsHeld, ChannelInv
    <3>2. \A t \in subs' : calls'[t].at \in {"waiting", "live"}
      BY <1>0, <2>2, <2>3 DEF ChannelInv
    <3>3. \A t \in Subs : calls'[t].uid = calls[t].uid
      BY <2>2
    <3>4. \A t, v \in subs' : calls'[t].uid = calls'[v].uid => t = v
      BY <1>0, <2>3, <3>3 DEF ChannelInv
    <3> QED BY <3>1, <3>2, <3>4 DEF ChannelInv
  <2>4. CASE /\ registry' = registry \ {s} /\ subs' = subs \ {s}
             /\ channel' = IF s \in registry THEN Dropped(s) ELSE channel
    <3>1. \A t \in Subs : channel'[t] = IF t = s /\ channel[t] = "open" THEN "closed" ELSE channel[t]
      BY <1>0, <2>4 DEF Dropped
    <3>2. ChannelsHeld'
      BY <1>0, <2>4, <3>1 DEF ChannelsHeld
    <3> QED BY <1>0, <2>2, <2>4, <3>2 DEF ChannelInv
  <2>5. \/ calls'[s].at = "live" /\ UNCHANGED <<subs, registry, channel>>
        \/ /\ registry' = registry \ {s} /\ subs' = subs \ {s}
           /\ channel' = IF s \in registry THEN Dropped(s) ELSE channel
    BY <1>0, <1>f DEF Resume
  <2> QED BY <2>3, <2>4, <2>5
<1>m. ASSUME NEW k \in Sockets, NEW s \in Subs, SubscribeError(k, s) PROVE ChannelInv'
  <2>1. /\ registry' = subs' /\ subs' = subs \ SameUid(s) /\ calls' = calls
        /\ \A t \in Subs : channel'[t] = IF t \in registry \cap SameUid(s) THEN "failed" ELSE channel[t]
    BY <1>0, <1>m DEF SubscribeError
  <2>2. ChannelsHeld'
    BY <1>0, <2>1 DEF ChannelsHeld
  <2> QED BY <2>1, <2>2 DEF ChannelInv
<1>3. CASE UNCHANGED subVars \/ \E e \in {"closed", "failed"} : Finalize(e)
  BY <1>1, <1>2, <1>3
<1>4. ASSUME NEW k \in Sockets, Continuation(k) \/ Network(k) \/ Deadline(k), ~UNCHANGED subVars
      PROVE  (\E s \in Subs : SubscribeError(k, s)) \/ Finalize("failed")
  BY <1>4 DEF Continuation, Network, Deadline, TokenReady, TokenFails, Refused, Fails, Accepted,
      Refreshed, Open, CloseBegins,
     AuthAnswer, TokenExpired, AuthFailed, OtherMessage, Overflow
<1>5. Recovery \/ CloseEnds => UNCHANGED subVars \/ \E e \in {"closed", "failed"} : Finalize(e)
  BY DEF Recovery, CloseEnds, DelayEnds, Attempt, Replay, ReplayFails, Retry, subVars
<1>6. Connect \/ Disconnect \/ NewToken => UNCHANGED subVars \/ \E e \in {"closed", "failed"} : Finalize(e)
  BY DEF Connect, Disconnect, NewToken
<1> QED BY <1>1, <1>d, <1>e, <1>f, <1>m, <1>3, <1>4, <1>5, <1>6 DEF Next, Application, vars

-----------------------------------------------------------------------------
\* A close handler that begins an attempt stays on record.
LEMMA ClobberedStays == [Next]_vars /\ ~clobbered' => ~clobbered
<1> SUFFICES ASSUME [Next]_vars, clobbered PROVE clobbered'
  OBVIOUS
<1>1. \A k : Connecting(k) => clobbered'
  BY DEF Connecting
<1> QED BY <1>1 DEF Next, Application, Recovery, Continuation, Network, vars, historyVars,
   Connect, Disconnect, NewToken, Subscribe, Unsubscribe, Resume, CloseEnds, DelayEnds, Attempt,
   Replay, ReplayFails, Retry,
   TokenReady, TokenFails, Refused, Deadline, Fails, Accepted, Refreshed, Open, CloseBegins,
   AuthAnswer, TokenExpired,
   AuthFailed, OtherMessage, SubscribeError, Overflow

\* What the socket proofs use of the types.
SocketFacts ==
  /\ SocksOK(socks)
  /\ conn \in [code : {"closed", "connecting", "open"}, socket : Opened, first : BOOLEAN]
  /\ conn.socket \in Opened /\ pending \in Opened /\ current \in Opened /\ attempts \in Opened /\ handler \in Opened
  /\ attempts \in Nat /\ MaxAttempts \in Nat /\ 0 \in Opened
  /\ \A k \in Opened : k \in Nat /\ (k # 0 => k \in Sockets)
  /\ \A k \in Sockets : k \in Opened /\ k \in Nat /\ k # 0

\* They follow from the type invariant.
LEMMA SocketFactsHold == TypeOK => SocketFacts
<1> SUFFICES ASSUME TypeOK PROVE SocketFacts
  OBVIOUS
<1>1. conn \in [code : {"closed", "connecting", "open"}, socket : Opened, first : BOOLEAN]
  BY DEF TypeOK
<1>2. conn.socket \in Opened
  BY <1>1
<1>3. \A k \in Sockets : k \in Opened /\ k \in Nat /\ k # 0
  BY ClientAssumption DEF Sockets, Opened
<1>4. \A k \in Opened : k \in Nat /\ (k # 0 => k \in Sockets)
  BY ClientAssumption DEF Sockets, Opened
<1>5. SocksOK(socks) /\ pending \in Opened /\ current \in Opened /\ attempts \in Opened
        /\ handler \in Opened
  BY TypesByName DEF SocketTypes, LoopTypes
<1>6. attempts \in Nat /\ 0 \in Opened /\ MaxAttempts \in Nat
  BY <1>4, <1>5, ClientAssumption DEF Opened
<1> QED BY <1>1, <1>2, <1>3, <1>4, <1>5, <1>6 DEF SocketFacts

\* No setup changes, and no socket opens.
LEMMA SocketsKept ==
  ASSUME SocketFacts, SocketInv, UNCHANGED <<attempts, current, pending>>,
         conn'.code = conn.code, conn'.socket = conn.socket,
         \A j \in Opened : /\ socks'[j].setup = socks[j].setup
                           /\ \/ socks'[j].net = socks[j].net
                              \/ socks[j].net # "closed" /\ socks'[j].net \in {"closing", "closed"}
  PROVE  SocketInv'
BY DEF SocketFacts, SocketInv, IsOpen, InSetup

\* The attempt ends, with the connection.
LEMMA SocketsEnd ==
  ASSUME SocketFacts, SocketInv, UNCHANGED <<attempts, current>>, pending' = 0, conn' = Closed,
         \A j \in Sockets : /\ socks'[j].net \in {"closing", "closed"}
                            /\ socks'[j].setup \notin InSetup
                            /\ socks'[j] = socks[j] \/ (j <= attempts /\ socks'[j].setup # "none"),
         socks'[0] = socks[0]
  PROVE  SocketInv'
<1>1. conn'.code = "closed" /\ conn'.socket = 0
  BY DEF Closed
<1>2. ~IsOpen'
  BY <1>1 DEF IsOpen
<1>3. \A k \in Sockets : IF k <= attempts THEN socks'[k].setup # "none"
                                          ELSE socks'[k].net = "closed" /\ socks'[k].setup = "none"
  BY DEF SocketInv
<1>4. \A k \in Sockets : socks'[k].net \notin {"opening", "open"}
  OBVIOUS
<1> QED BY <1>1, <1>2, <1>3, <1>4 DEF SocketInv

\* connect() begins an attempt where none is.
LEMMA ConnectingSockets ==
  ASSUME SocketFacts, ConnInv, SocketInv, NEW k \in Opened, Connecting(k)
  PROVE  /\ SocketInv'
         /\ k <= attempts' /\ attempts <= attempts' /\ ~manual'
         /\ ~clobbered' /\ handler # 0 => UNCHANGED <<attempts, current, socks, conn, pending>>
         /\ \/ UNCHANGED <<attempts, current, socks, conn, pending>>
            \/ UNCHANGED <<attempts, socks, conn, pending>> /\ current' = 0
            \/ current' = attempts + 1
         /\ IsOpen => UNCHANGED <<attempts, current, socks, conn, pending>>
         /\ \A j \in Opened : j <= attempts => socks'[j] = socks[j]
         /\ conn' = conn \/ conn'.socket = attempts + 1
<1>1. CASE UNCHANGED <<attempts, current, socks, conn, pending>>
  <2>1. SocketInv'
    BY <1>1, SocketsKept DEF SocketFacts
  <2>2. k <= attempts
    BY <1>1 DEF Connecting, SocketFacts, SocketInv
  <2>3. ~manual'
    BY DEF Connecting
  <2> QED BY <1>1, <2>1, <2>2, <2>3 DEF SocketFacts
<1>2. CASE k = 0 /\ pending = 0 /\ ~IsOpen /\ current' = Superseded
             /\ UNCHANGED <<attempts, socks, conn, pending>>
  <2>1. conn.socket = 0
    BY <1>2 DEF SocketInv, SocketFacts, IsOpen
  <2>2. SocketInv'
    BY <1>2, <2>1 DEF SocketFacts, SocketInv, Superseded, IsOpen
  <2>3. ~clobbered' /\ handler # 0 => current' = current
    BY DEF Connecting
  <2>4. ~manual'
    BY DEF Connecting
  <2> QED BY <1>2, <2>2, <2>3, <2>4 DEF SocketFacts, Superseded
<1>3. CASE /\ k = attempts + 1 /\ k <= MaxAttempts /\ pending = 0 /\ ~IsOpen
           /\ attempts' = k /\ current' = k /\ pending' = k
           /\ socks' = [socks EXCEPT ![k] = [net |-> "opening", setup |-> "opening"]]
           /\ conn' = [code |-> "connecting", socket |-> k, first |-> FALSE]
  <2>1. /\ \A j \in Opened : j # k => socks'[j] = socks[j]
        /\ socks'[k].net = "opening" /\ socks'[k].setup = "opening"
        /\ conn'.code = "connecting" /\ conn'.socket = k
    BY <1>3 DEF SocketFacts, SocksOK
  <2>2. conn.socket = 0 /\ k \in Sockets /\ k # 0
    BY <1>3 DEF SocketInv, SocketFacts, IsOpen
  <2>3. \A j \in Sockets : socks[j].net \notin {"opening", "open"} /\ socks[j].setup \notin InSetup
    BY <1>3, <2>2 DEF SocketInv, SocketFacts
  <2>4. \A j \in Sockets : j # k => (j <= attempts' <=> j <= attempts)
    BY <1>3 DEF SocketFacts
  <2>5. \A j \in Sockets : IF j <= attempts' THEN socks'[j].setup # "none"
                                             ELSE socks'[j].net = "closed" /\ socks'[j].setup = "none"
    <3> TAKE j \in Sockets
    <3>1. CASE j = k
      BY <1>3, <2>1, <3>1 DEF SocketFacts
    <3>2. CASE j # k
      BY <2>1, <2>4, <3>2 DEF SocketInv, SocketFacts
    <3> QED BY <3>1, <3>2
  <2>6. \A j \in Sockets : /\ socks'[j].setup \in InSetup => j = k
                           /\ socks'[j].net \in {"opening", "open"} => k = j
    BY <2>1, <2>3 DEF SocketFacts
  <2>7. current' <= attempts' /\ socks'[0] = socks[0] /\ ~IsOpen'
    BY <1>3, <2>1, <2>2 DEF SocketFacts, IsOpen
  <2>8. SocketInv'
    BY <1>3, <2>1, <2>2, <2>5, <2>6, <2>7 DEF SocketInv
  <2>9. ~clobbered' /\ handler # 0 => current' = current
    BY DEF Connecting
  <2>10. current' # current
    BY <1>3 DEF SocketInv, SocketFacts
  <2>11. ~manual'
    BY DEF Connecting
  <2> QED BY <1>3, <2>1, <2>8, <2>9, <2>10, <2>11 DEF SocketFacts
<1> QED BY <1>1, <1>2, <1>3 DEF Connecting

\* The sockets' part of the invariant is kept by every step that begins no attempt in a
\* close handler.
LEMMA SocketStep ==
  ASSUME TypeOK, ConnInv, SocketInv, HandlerInv, [Next]_vars
  PROVE  SocketInv'
<1>0. SocketFacts /\ SocksOK(socks)
  BY SocketFactsHold DEF SocketFacts
<1>1. ASSUME UNCHANGED socketVars PROVE SocketInv'
  BY <1>0, <1>1, SocketsKept DEF socketVars
<1>2. ASSUME Heard PROVE conn'.code = conn.code /\ conn'.socket = conn.socket
  BY <1>0, <1>2 DEF Heard, SocketFacts
<1>3. ASSUME NEW k \in Opened PROVE \A j \in Opened :
        /\ Closing(k)[j].setup = socks[j].setup
        /\ \/ Closing(k)[j].net = socks[j].net
           \/ socks[j].net # "closed" /\ Closing(k)[j].net \in {"closing", "closed"}
  BY <1>0, <1>3 DEF Closing, SocksOK
<1>4. ASSUME NEW k \in Opened, Connecting(k) PROVE SocketInv'
  BY <1>0, <1>4, ConnectingSockets
<1>5. \A j \in Sockets : j # conn.socket => socks[j].net \in {"closing", "closed"}
  BY <1>0 DEF SocketInv, SocketFacts, SocksOK
<1>a. CASE Connect \/ \E s \in Subs, u \in Uids : Subscribe(s, u)
  BY <1>a, <1>1, <1>4 DEF Connect, Subscribe
<1>b. CASE Disconnect
  <2>1. CASE pending # 0
    <3>1. socks' = TornDown(pending) /\ pending' = 0 /\ conn' = Closed
            /\ UNCHANGED <<attempts, current>>
      BY <1>b, <2>1 DEF Disconnect
    <3>2. /\ \A j \in Opened : j # pending => socks'[j] = socks[j]
          /\ socks'[pending].net = "closed" /\ socks'[pending].setup = "failed"
      BY <1>0, <3>1 DEF TornDown, SocksOK, SocketFacts
    <3>3. pending = conn.socket /\ pending <= attempts /\ pending \in Sockets
      BY <1>0, <2>1 DEF SocketInv, SocketFacts
    <3>4. \A j \in Sockets : /\ socks'[j].net \in {"closing", "closed"}
                             /\ socks'[j].setup \notin InSetup
                             /\ socks'[j] = socks[j] \/ (j <= attempts /\ socks'[j].setup # "none")
      BY <1>0, <1>5, <3>2, <3>3 DEF SocketInv, SocketFacts, InSetup
    <3>5. socks'[0] = socks[0]
      BY <1>0, <2>1, <3>2 DEF SocketFacts
    <3> QED BY <1>0, <3>1, <3>4, <3>5, SocketsEnd
  <2>2. CASE pending = 0 /\ IsOpen
    <3>1. socks' = Closing(conn.socket) /\ pending' = 0 /\ conn' = Closed
            /\ UNCHANGED <<attempts, current>>
      BY <1>b, <2>2 DEF Disconnect
    <3>2. \A j \in Opened : /\ socks'[j].setup = socks[j].setup
                            /\ j # conn.socket => socks'[j] = socks[j]
      BY <1>0, <3>1 DEF Closing, SocksOK, SocketFacts
    <3>3. socks'[conn.socket].net \in {"closing", "closed"}
      BY <1>0, <2>2, <3>1 DEF Closing, SocksOK, SocketFacts, SocketInv
    <3>4. conn.socket # 0 /\ conn.socket <= attempts
      BY <1>0, <2>2 DEF SocketInv, ConnInv, SocketFacts
    <3>5. \A j \in Sockets : /\ socks'[j].net \in {"closing", "closed"}
                             /\ socks'[j].setup \notin InSetup
                             /\ socks'[j] = socks[j] \/ (j <= attempts /\ socks'[j].setup # "none")
      BY <1>0, <1>5, <2>2, <3>2, <3>3, <3>4 DEF SocketInv, SocketFacts
    <3>6. socks'[0] = socks[0]
      BY <1>0, <3>2, <3>4 DEF SocketFacts
    <3> QED BY <1>0, <3>1, <3>5, <3>6, SocketsEnd
  <2>3. CASE pending = 0 /\ ~IsOpen
    <3>1. UNCHANGED <<attempts, current, socks, conn, pending>>
      BY <1>b, <2>3 DEF Disconnect
    <3> QED BY <1>0, <3>1, SocketsKept
  <2> QED BY <2>1, <2>2, <2>3
<1>c. CASE NewToken \/ \E s \in Subs : Unsubscribe(s) \/ Resume(s)
  BY <1>c, <1>1 DEF NewToken, Unsubscribe, Resume
<1>g. CASE CloseEnds
  <2>1. /\ handler # 0 /\ pending' = 0 /\ conn' = Closed /\ UNCHANGED <<attempts, current>>
        /\ socks' = IF Settled(handler) THEN socks ELSE Rejected(handler)
    BY <1>g DEF CloseEnds
  <2>2. handler = current /\ socks[handler].net = "closed" /\ handler \in Sockets /\ handler <= attempts
    BY <1>0, <2>1 DEF HandlerInv, SocketInv, SocketFacts
  <2>3. \A j \in Opened : /\ socks'[j].net = socks[j].net
                          /\ j # handler => socks'[j] = socks[j]
    BY <1>0, <2>1 DEF Rejected, SocksOK, SocketFacts
  <2>4. socks'[handler].setup \in {"established", "failed"}
    BY <1>0, <2>1 DEF Rejected, SocksOK, SocketFacts, Settled
  <2>5. \A j \in Sockets : socks[j].net \in {"closing", "closed"}
    BY <1>0, <1>5, <2>2 DEF SocketInv, SocketFacts
  <2>6. \A j \in Sockets : j # handler => socks[j].setup \notin InSetup
    BY <1>0, <2>2 DEF SocketInv, SocketFacts
  <2>7. \A j \in Sockets : /\ socks'[j].net \in {"closing", "closed"}
                           /\ socks'[j].setup \notin InSetup
                           /\ socks'[j] = socks[j] \/ (j <= attempts /\ socks'[j].setup # "none")
    BY <1>0, <2>2, <2>3, <2>4, <2>5, <2>6 DEF SocketFacts, InSetup
  <2>8. socks'[0] = socks[0]
    BY <1>0, <2>1, <2>3 DEF SocketFacts
  <2> QED BY <1>0, <2>1, <2>7, <2>8, SocketsEnd
<1>h. CASE Recovery
  <2>1. CASE ReplayFails
    <3>1. UNCHANGED <<attempts, current, pending, conn>>
            /\ (socks' = Closing(conn.socket) \/ socks' = socks)
      BY <2>1 DEF ReplayFails
    <3>2. conn.socket \in Opened
      BY <1>0 DEF SocketFacts
    <3>3. \A j \in Opened : /\ socks'[j].setup = socks[j].setup
                            /\ \/ socks'[j].net = socks[j].net
                               \/ socks[j].net # "closed" /\ socks'[j].net \in {"closing", "closed"}
      BY <1>3, <3>1, <3>2
    <3> QED BY <1>0, <3>1, <3>3, SocketsKept
  <2> QED BY <1>h, <2>1, <1>1, <1>4 DEF Recovery, DelayEnds, Attempt, Replay, Retry
<1>m. ASSUME NEW k \in Sockets, Continuation(k) \/ Network(k) \/ Deadline(k) PROVE SocketInv'
  <2>0. k \in Opened /\ k # 0
    BY <1>0 DEF SocketFacts
  <2>1. CASE TokenFails(k) \/ Refused(k) \/ Deadline(k)
    <3>1. socks' = TornDown(k) /\ pending' = 0 /\ conn' = Closed /\ UNCHANGED <<attempts, current>>
      BY <2>1 DEF TokenFails, Refused, Deadline, Fails, Teardown
    <3>2. k = pending
      BY <2>1 DEF TokenFails, Refused, Deadline, SocketInv, InSetup
    <3>3. k = conn.socket /\ k <= attempts
      BY <1>0, <2>0, <3>2 DEF SocketInv, SocketFacts
    <3>4. /\ \A j \in Opened : j # k => socks'[j] = socks[j]
          /\ socks'[k].net = "closed" /\ socks'[k].setup = "failed"
      BY <1>0, <2>0, <3>1 DEF TornDown, SocksOK, SocketFacts
    <3>5. \A j \in Sockets : /\ socks'[j].net \in {"closing", "closed"}
                             /\ socks'[j].setup \notin InSetup
                             /\ socks'[j] = socks[j] \/ (j <= attempts /\ socks'[j].setup # "none")
      BY <1>0, <1>5, <3>2, <3>3, <3>4 DEF SocketInv, SocketFacts, InSetup
    <3>6. socks'[0] = socks[0]
      BY <1>0, <2>0, <3>4 DEF SocketFacts
    <3> QED BY <1>0, <3>1, <3>5, <3>6, SocketsEnd
  <2>2. CASE TokenReady(k) \/ AuthAnswer(k)
    <3>1. /\ socks[k].setup \in {"token", "ack"} /\ socks'[k].setup \in {"ack", "accepted", "refused"}
          /\ socks'[k].net = socks[k].net
          /\ \A j \in Opened : j # k => socks'[j] = socks[j]
      BY <1>0, <2>0, <2>2 DEF TokenReady, AuthAnswer, SocksOK
    <3>2. UNCHANGED <<attempts, current, pending>> /\ conn'.code = conn.code
            /\ conn'.socket = conn.socket
      BY <1>2, <2>2 DEF TokenReady, AuthAnswer
    <3>3. k = pending /\ k <= attempts
      BY <1>0, <2>0, <3>1 DEF SocketInv, InSetup
    <3>4. conn.code # "connecting"
      BY <3>1, <3>3 DEF SocketInv
    <3>5. \A j \in Opened : socks'[j].net = socks[j].net
      BY <3>1
    <3>6. \A j \in Sockets : IF j <= attempts' THEN socks'[j].setup # "none"
                                               ELSE socks'[j].net = "closed" /\ socks'[j].setup = "none"
      BY <1>0, <3>1, <3>2, <3>3 DEF SocketInv, SocketFacts
    <3>7. \A j \in Sockets : socks'[j].setup \in InSetup => j = pending'
      BY <1>0, <3>1, <3>2, <3>3 DEF SocketInv, SocketFacts
    <3> QED BY <1>0, <2>0, <3>1, <3>2, <3>4, <3>5, <3>6, <3>7 DEF SocketInv, SocketFacts, IsOpen
  <2>3. CASE Accepted(k)
    <3>1. /\ socks[k].setup = "accepted" /\ socks'[k].setup = "established"
          /\ socks'[k].net = socks[k].net
          /\ \A j \in Opened : j # k => socks'[j] = socks[j]
      BY <1>0, <2>0, <2>3 DEF Accepted, SocksOK
    <3>2. UNCHANGED <<attempts, current, conn>> /\ pending' = 0
      BY <2>3 DEF Accepted
    <3>3. k = pending /\ k <= attempts
      BY <1>0, <2>0, <3>1 DEF SocketInv, InSetup
    <3>4. conn.code # "connecting"
      BY <3>1, <3>3 DEF SocketInv
    <3>5. \A j \in Opened : socks'[j].net = socks[j].net
      BY <3>1
    <3>6. \A j \in Sockets : IF j <= attempts' THEN socks'[j].setup # "none"
                                               ELSE socks'[j].net = "closed" /\ socks'[j].setup = "none"
      BY <1>0, <3>1, <3>2, <3>3 DEF SocketInv, SocketFacts
    <3>7. \A j \in Sockets : socks'[j].setup \notin InSetup
      BY <1>0, <3>1, <3>3 DEF SocketInv, SocketFacts, InSetup
    <3> QED BY <1>0, <2>0, <3>1, <3>2, <3>4, <3>5, <3>6, <3>7 DEF SocketInv, SocketFacts, IsOpen
  <2>4. CASE Open(k)
    <3>1. /\ socks[k].setup = "opening" /\ socks[k].net = "opening"
          /\ socks'[k].setup = (IF config.mode = "public" THEN "established" ELSE "token")
          /\ socks'[k].net = "open"
          /\ \A j \in Opened : j # k => socks'[j] = socks[j]
      BY <1>0, <2>0, <2>4 DEF Open, SocksOK
    <3>2. UNCHANGED <<attempts, current>> /\ pending' = (IF config.mode = "public" THEN 0 ELSE pending)
      BY <2>4 DEF Open
    <3>3. conn'.code = "open" /\ conn'.socket = k
      BY <2>4 DEF Open
    <3>4. k = pending /\ k = conn.socket /\ k = current /\ k <= attempts
      BY <1>0, <2>0, <3>1 DEF SocketInv, InSetup
    <3>5. \A j \in Sockets : IF j <= attempts' THEN socks'[j].setup # "none"
                                               ELSE socks'[j].net = "closed" /\ socks'[j].setup = "none"
      BY <1>0, <3>1, <3>2, <3>4 DEF SocketInv, SocketFacts
    <3>6. \A j \in Sockets : socks'[j].setup \in InSetup => j = pending'
      BY <1>0, <3>1, <3>2, <3>4 DEF SocketInv, SocketFacts, InSetup
    <3>7. \A j \in Sockets : socks'[j].net \in {"opening", "open"} => conn'.socket = j
      BY <1>0, <3>1, <3>3, <3>4 DEF SocketInv, SocketFacts
    <3>8. socks'[0] = socks[0] /\ socks'[conn'.socket].net # "opening"
      BY <1>0, <2>0, <3>1, <3>3 DEF SocketFacts
    <3>9. current' <= attempts' /\ conn'.socket \in {0, current'}
      BY <3>2, <3>3, <3>4
    <3>10. pending' # 0 => pending' = current' /\ pending' = conn'.socket
      BY <3>2, <3>3, <3>4
    <3> QED BY <3>3, <3>5, <3>6, <3>7, <3>8, <3>9, <3>10 DEF SocketInv, IsOpen
  <2>5. CASE Refreshed(k)
    BY <2>5, <1>1 DEF Refreshed
  <2>6. CASE CloseBegins(k) \/ OtherMessage(k) \/ TokenExpired(k) \/ AuthFailed(k) \/ Overflow(k)
               \/ \E s \in Subs : SubscribeError(k, s)
    <3>1. UNCHANGED <<attempts, current, pending>> /\ conn'.code = conn.code
            /\ conn'.socket = conn.socket
      BY <1>2, <2>6 DEF CloseBegins, OtherMessage, TokenExpired, AuthFailed, Overflow,
          SubscribeError
    <3>2. \A j \in Opened : /\ socks'[j].setup = socks[j].setup
                            /\ \/ socks'[j].net = socks[j].net
                               \/ socks[j].net # "closed" /\ socks'[j].net \in {"closing", "closed"}
      <4>1. CASE CloseBegins(k)
        BY <1>0, <2>0, <4>1 DEF CloseBegins, SocksOK
      <4> QED BY <1>3, <2>0, <2>6, <4>1 DEF OtherMessage, TokenExpired, AuthFailed, Overflow,
          SubscribeError
    <3> QED BY <1>0, <3>1, <3>2, SocketsKept
  <2> QED BY <1>m, <2>1, <2>2, <2>3, <2>4, <2>5, <2>6 DEF Continuation, Network
<1> QED BY <1>a, <1>b, <1>c, <1>g, <1>h, <1>m, <1>1 DEF Next, Application, vars

\* While the handlers of a close run, only the application does anything.
LEMMA HandlersRun == handler # 0 /\ [Next]_vars => Application \/ CloseEnds \/ UNCHANGED vars
BY DEF Next, Recovery, Continuation, Network, DelayEnds, Attempt, Connected, Replay, ReplayFails,
    Retry, Resume,
   TokenReady, TokenFails, Refused, Deadline, Accepted, Refreshed, Open, CloseBegins, AuthAnswer,
   TokenExpired,
   AuthFailed, OtherMessage, SubscribeError, Overflow, Message, Turn, Microtask

\* In a turn no call waits for a socket that is settled.
LEMMA NothingDue ==
  ASSUME Turn
  PROVE  /\ \A s \in Waiting : ~Settled(calls[s].on)
         /\ ~(loop.at = "waiting" /\ Settled(loop.on))
         /\ loop.at # "woken" /\ handler = 0
BY DEF Turn, Due, Microtask

\* The calls' types, one by one.
LEMMA CallFacts ==
  TypeOK => /\ calls \in [Subs -> [at : {"none", "waiting", "live", "gone"}, uid : Uids, on : Opened]]
            /\ \A s \in Subs : calls[s].on \in Opened
            /\ subs \subseteq Subs /\ left \subseteq Sockets /\ server \subseteq Subs /\ sent \subseteq Subs
            /\ loop \in [at : {"off", "delay", "woken", "waiting"}, tries : 0..Retries, on : Opened, targets : SUBSET Subs]
            /\ loop.targets \subseteq Subs
            /\ stranded \subseteq Subs /\ untied \subseteq Subs
<1> SUFFICES ASSUME TypeOK
             PROVE  /\ calls \in [Subs -> [at : {"none", "waiting", "live", "gone"}, uid : Uids, on : Opened]]
                    /\ \A s \in Subs : calls[s].on \in Opened
                    /\ loop \in [at : {"off", "delay", "woken", "waiting"}, tries : 0..Retries, on : Opened, targets : SUBSET Subs]
                    /\ loop.targets \subseteq Subs
  BY DEF TypeOK
<1>1. /\ calls \in [Subs -> [at : {"none", "waiting", "live", "gone"}, uid : Uids, on : Opened]]
      /\ loop \in [at : {"off", "delay", "woken", "waiting"}, tries : 0..Retries, on : Opened, targets : SUBSET Subs]
  BY DEF TypeOK
<1>2. \A s \in Subs : calls[s].on \in Opened
  BY <1>1
<1>3. loop.targets \subseteq Subs
  BY <1>1
<1> QED BY <1>1, <1>2, <1>3

\* The handler's part of the invariant is kept by every step that begins no attempt in it.
LEMMA HandlerStep ==
  ASSUME TypeOK, ConnInv, SocketInv, HandlerInv, CallsInv, [Next]_vars, ~clobbered'
  PROVE  HandlerInv'
<1>0. SocketFacts /\ SocksOK(socks)
  BY SocketFactsHold DEF SocketFacts
<1>1. ASSUME handler # 0, UNCHANGED <<handler, current, calls>>,
             socks'[handler].net # "closed" => socks[handler].net # "closed",
             socks'[handler].setup = "established" => socks[handler].setup = "established"
      PROVE  HandlerInv'
  BY <1>1 DEF HandlerInv, Established, Waiting
<1>2. CASE handler # 0
  <2>1. CASE Connect
    <3>1. UNCHANGED <<handler, current, socks, calls>>
      BY <1>0, <1>2, <2>1, ConnectingSockets DEF Connect, subVars
    <3> QED BY <1>1, <1>2, <3>1
  <2>2. CASE Disconnect
    <3>1. UNCHANGED <<handler, current, calls>>
            /\ socks' \in {TornDown(pending), Closing(conn.socket), socks}
      BY <2>2 DEF Disconnect, Finalize, EndAll
    <3>2. \A f \in {TornDown(pending), Closing(conn.socket), socks} :
            /\ f[handler].net # "closed" => socks[handler].net # "closed"
            /\ f[handler].setup = "established" => socks[handler].setup = "established"
      BY <1>0 DEF TornDown, Closing, SocksOK, SocketFacts
    <3> QED BY <1>1, <1>2, <3>1, <3>2
  <2>3. CASE NewToken \/ \E s \in Subs : Unsubscribe(s)
    <3>1. UNCHANGED <<handler, current, socks>> /\ Waiting' \subseteq Waiting
      <4>1. CASE NewToken
        BY <4>1 DEF NewToken, socketVars, subVars, Waiting
      <4>2. ASSUME NEW s \in Subs, Unsubscribe(s)
            PROVE UNCHANGED <<handler, current, socks>> /\ Waiting' \subseteq Waiting
        BY <4>2, CallFacts DEF Unsubscribe, Waiting, socketVars
      <4> QED BY <2>3, <4>1, <4>2
    <3> QED BY <3>1 DEF HandlerInv, Established
  <2>4. ASSUME NEW s \in Subs, NEW u \in Uids, Subscribe(s, u) PROVE HandlerInv'
    <3>1. CASE IsOpen
      <4>1. UNCHANGED <<handler, current, socks>>
              /\ calls' = [calls EXCEPT ![s] = [at |-> "live", uid |-> u, on |-> 0]]
        BY <2>4, <3>1 DEF Subscribe, socketVars
      <4>2. Waiting' \subseteq Waiting
        BY <4>1, CallFacts DEF Waiting
      <4> QED BY <4>1, <4>2 DEF HandlerInv, Established
    <3>2. CASE ~IsOpen
      <4>1. PICK k \in Opened : Connecting(k)
        BY <2>4, <3>2 DEF Subscribe
      <4>2. UNCHANGED <<attempts, current, socks, conn, pending>>
        BY <1>0, <1>2, <4>1, ConnectingSockets
      <4>3. handler = current /\ current # 0 /\ attempts # attempts + 1
        BY <1>0, <1>2 DEF HandlerInv, SocketFacts
      <4>4. pending # 0
        BY <3>2, <4>1, <4>2, <4>3 DEF Connecting, Superseded
      <4>5. ~Established(handler)
        BY <4>3, <4>4 DEF SocketInv, ConnInv, InSetup, Established
      <4>6. handler' = handler
        BY <2>4 DEF Subscribe
      <4> QED BY <4>2, <4>5, <4>6 DEF HandlerInv, Established
    <3> QED BY <3>1, <3>2
  <2>5. CASE CloseEnds
    BY <2>5 DEF CloseEnds, HandlerInv
  <2>6. CASE UNCHANGED vars
    BY <2>6 DEF vars, socketVars, subVars, HandlerInv, Established, Waiting
  <2> QED BY <1>2, <2>1, <2>2, <2>3, <2>4, <2>5, <2>6, HandlersRun DEF Application
<1>3. CASE handler = 0
  <2>1. ASSUME NEW k \in Sockets, CloseBegins(k), current = k PROVE HandlerInv'
    <3>1. handler' = current' /\ socks'[k].net = "closed" /\ socks'[k].setup = socks[k].setup
            /\ Waiting' = Waiting
      BY <1>0, <2>1 DEF CloseBegins, SocksOK, Outdated, Waiting, subVars, SocketFacts
    <3>2. ASSUME Established(k), NEW s \in Waiting PROVE FALSE
      <4>1. ~Settled(calls[s].on) /\ calls[s].on <= attempts /\ s \in Subs
        BY <2>1, <3>2, NothingDue DEF CloseBegins, CallsInv, Waiting
      <4>2. calls[s].on \in Opened /\ calls[s].on # 0
        BY <4>1, CallFacts DEF Settled, SocketInv
      <4>3. socks[calls[s].on].setup \in InSetup
        BY <1>0, <4>1, <4>2 DEF SocketInv, SocketFacts, Settled, InSetup, SocksOK
      <4>4. calls[s].on = pending
        BY <1>0, <4>2, <4>3 DEF SocketInv, SocketFacts
      <4>5. k = pending
        BY <2>1, <4>2, <4>4 DEF SocketInv
      <4> QED BY <3>2, <4>3, <4>4, <4>5 DEF Established, InSetup
    <3> QED BY <2>1, <3>1, <3>2 DEF HandlerInv, Established, CloseBegins
  <2>2. ASSUME ~\E k \in Sockets : CloseBegins(k) /\ current = k PROVE handler' = 0
    BY <1>3, <2>2 DEF Next, Application, Recovery, Continuation, Network, vars, Outdated,
      Connect, Disconnect, NewToken, Subscribe, Unsubscribe, Resume, CloseEnds, DelayEnds,
      Attempt, Replay, ReplayFails, Retry,
      TokenReady, TokenFails, Refused, Deadline, Fails, Accepted, Refreshed, Open, CloseBegins,
      AuthAnswer, TokenExpired,
      AuthFailed, OtherMessage, SubscribeError, Overflow
  <2> QED BY <2>1, <2>2 DEF HandlerInv
<1> QED BY <1>2, <1>3

\* The part about disconnect is kept by every step.
LEMMA LeftStep ==
  ASSUME TypeOK, ConnInv, SocketInv, LeftInv, [Next]_vars
  PROVE  LeftInv'
<1>0. SocketFacts /\ SocksOK(socks) /\ subs \subseteq Subs /\ left \subseteq Sockets
  BY SocketFactsHold, CallFacts DEF SocketFacts
<1>1. ASSUME UNCHANGED <<manual, current, attempts>>, left' \subseteq left,
             pending' \in {0, pending}, conn'.code \in {"closed", conn.code}, subs' \subseteq subs
      PROVE  LeftInv'
  BY <1>1 DEF LeftInv
<1>2. ASSUME NEW k \in Opened, Connecting(k), left' = left PROVE LeftInv'
  <2>1. attempts <= attempts' /\ ~manual'
    BY <1>0, <1>2, ConnectingSockets
  <2>2. attempts' \in Opened
    BY <1>2, ConnectingTypes, TypesByName DEF SocketTypes, LoopTypes
  <2>3. ASSUME NEW j \in left PROVE j <= attempts' /\ j # current'
    <3>1. j <= attempts /\ (j = current => manual) /\ j # 0 /\ j \in Nat
      BY <1>0, <2>3 DEF LeftInv, SocketFacts
    <3>2. j <= attempts'
      BY <1>0, <2>1, <2>2, <3>1 DEF SocketFacts
    <3>3. CASE UNCHANGED <<attempts, current, socks, conn, pending>>
      <4>1. CASE manual
        <5>1. pending = 0 /\ conn.code = "closed"
          BY <4>1 DEF LeftInv
        <5>2. (k = 0 /\ current' = 0) \/ attempts' = attempts + 1
          BY <1>2, <5>1 DEF Connecting, IsOpen, Superseded
        <5> QED BY <1>0, <3>1, <3>2, <3>3, <5>2 DEF SocketFacts
      <4> QED BY <3>1, <3>2, <3>3, <4>1
    <3>4. CASE current' = 0 \/ current' = attempts + 1
      BY <1>0, <3>1, <3>2, <3>4 DEF SocketFacts
    <3> QED BY <1>0, <1>2, <3>3, <3>4, ConnectingSockets
  <2> QED BY <1>2, <2>1, <2>3 DEF LeftInv
<1>3. ASSUME NEW e, EndAll(e) PROVE subs' \subseteq subs
  BY <1>3 DEF EndAll
<1>4. ASSUME Heard PROVE conn'.code = conn.code
  BY <1>0, <1>4 DEF Heard, SocketFacts
<1>a. CASE Connect
  BY <1>a, <1>2 DEF Connect
<1>b. CASE Disconnect
  <2>1. subs' = {} /\ pending' = 0 /\ conn'.code = "closed" /\ manual'
          /\ UNCHANGED <<attempts, current>>
    <3>1. conn.code \notin {"connecting", "open"} => conn.code = "closed"
      BY <1>0 DEF SocketFacts
    <3>2. pending = 0 => conn.code # "connecting"
      BY DEF SocketInv
    <3> QED BY <1>b, <3>1, <3>2 DEF Disconnect, Finalize, EndAll, Closed, IsOpen
  <2>2. conn.socket <= attempts
    BY <1>0 DEF SocketInv, SocketFacts
  <2>3. left' \subseteq left \cup {conn.socket}
    BY <1>b DEF Disconnect
  <2> QED BY <2>1, <2>2, <2>3 DEF LeftInv
<1>c. CASE NewToken \/ \E s \in Subs : Unsubscribe(s) \/ Resume(s)
  BY <1>c, <1>1 DEF NewToken, Unsubscribe, Resume, socketVars, subVars, historyVars, Forgotten
<1>d. ASSUME NEW s \in Subs, NEW u \in Uids, Subscribe(s, u) PROVE LeftInv'
  <2>1. CASE IsOpen
    <3>1. ~manual /\ UNCHANGED <<manual, attempts, current, left>>
      BY <1>d, <2>1 DEF Subscribe, LeftInv, IsOpen, socketVars
    <3> QED BY <3>1 DEF LeftInv
  <2>2. CASE ~IsOpen
    BY <1>d, <2>2, <1>2 DEF Subscribe
  <2> QED BY <2>1, <2>2
<1>g. CASE CloseEnds
  <2>1. conn'.code = "closed" /\ pending' = 0 /\ UNCHANGED <<manual, current, attempts>>
          /\ left' \subseteq left /\ subs' \subseteq subs
    BY <1>g, <1>3 DEF CloseEnds, Closed, subVars, Finalize
  <2> QED BY <2>1, <1>1
<1>h. CASE Recovery
  <2>1. CASE DelayEnds \/ Replay \/ ReplayFails \/ Retry \/ (Attempt /\ manual)
    <3>1. UNCHANGED <<manual, current, attempts, left, pending, conn>> /\ subs' \subseteq subs
      BY <2>1, <1>3 DEF DelayEnds, Replay, ReplayFails, Retry, Attempt, Finalize, socketVars,
          subVars, historyVars
    <3> QED BY <3>1, <1>1
  <2>2. CASE Attempt /\ ~manual
    BY <2>2, <1>2 DEF Attempt
  <2> QED BY <1>h, <2>1, <2>2 DEF Recovery
<1>m. ASSUME NEW k \in Sockets, Continuation(k) \/ Network(k) \/ Deadline(k) PROVE LeftInv'
  <2>1. CASE Open(k)
    <3>1. ~manual
      BY <1>0, <2>1 DEF Open, SocketInv, LeftInv, SocketFacts
    <3>2. UNCHANGED <<manual, attempts, current, left>>
      BY <2>1 DEF Open, historyVars
    <3> QED BY <3>1, <3>2 DEF LeftInv
  <2>2. CASE TokenFails(k) \/ Refused(k) \/ Deadline(k)
    <3>1. /\ conn'.code = "closed" /\ pending' = 0 /\ UNCHANGED <<manual, current, attempts, left, subs>>
      BY <2>2 DEF TokenFails, Refused, Deadline, Fails, Teardown, Closed, subVars
    <3> QED BY <3>1, <1>1
  <2>3. CASE TokenReady(k) \/ Accepted(k) \/ Refreshed(k) \/ CloseBegins(k)
    <3>1. UNCHANGED <<manual, current, attempts, conn, subs>> /\ left' \subseteq left
            /\ pending' \in {0, pending}
      BY <2>3 DEF TokenReady, Accepted, Refreshed, CloseBegins, socketVars, subVars, historyVars
    <3> QED BY <3>1, <1>1
  <2>4. CASE AuthAnswer(k) \/ TokenExpired(k) \/ AuthFailed(k) \/ OtherMessage(k) \/ Overflow(k)
             \/ \E s \in Subs : SubscribeError(k, s)
    <3>1. UNCHANGED <<manual, current, attempts, left, pending>> /\ Heard /\ subs' \subseteq subs
      BY <2>4, <1>3 DEF AuthAnswer, TokenExpired, AuthFailed, OtherMessage, Overflow,
          SubscribeError, Finalize,
         socketVars, subVars, historyVars
    <3> QED BY <3>1, <1>1, <1>4
  <2> QED BY <1>m, <2>1, <2>2, <2>3, <2>4 DEF Continuation, Network
<1>n. CASE UNCHANGED vars
  BY <1>n, <1>1 DEF vars, socketVars, subVars, historyVars
<1> QED BY <1>a, <1>b, <1>c, <1>d, <1>g, <1>h, <1>m, <1>n DEF Next, Application

\* Calls that waited still can, where the sockets and the subscriptions they wait with stay.
LEMMA CallsKept ==
  ASSUME TypeOK, SocketInv, CallsInv, TypeOK',
         Waiting' \subseteq Waiting, \A s \in Waiting' : calls'[s] = calls[s],
         attempts <= attempts',
         Waiting' \cap (subs \cup untied) \subseteq subs' \cup untied' \/ conn'.socket = 0,
         \A j \in Opened : j <= attempts /\ socks[j].setup = "failed" => socks'[j].setup = "failed",
         conn'.socket \in {0, conn.socket, attempts + 1},
         \A s \in Waiting : socks'[calls[s].on].setup = "established" /\ IsOpen' =>
           conn'.socket = calls[s].on \/ (Established(calls[s].on) /\ IsOpen /\ conn' = conn)
  PROVE  CallsInv'
<1> SUFFICES ASSUME NEW s \in Waiting'
             PROVE  /\ calls'[s].on <= attempts'
                    /\ s \in subs' \cup untied' \/ socks'[calls'[s].on].setup = "failed" \/ conn'.socket # calls'[s].on
                    /\ socks'[calls'[s].on].setup = "established" /\ IsOpen' => conn'.socket = calls'[s].on
  BY DEF CallsInv, Established
<1>0. SocketFacts /\ attempts' \in Opened /\ s \in Subs
  BY SocketFactsHold DEF TypeOK, Waiting
<1>1. /\ s \in Waiting /\ calls'[s].on = calls[s].on /\ calls[s].on \in Opened
      /\ calls[s].on <= attempts
      /\ s \in subs \cup untied \/ socks[calls[s].on].setup = "failed" \/ conn.socket # calls[s].on
      /\ Established(calls[s].on) /\ IsOpen => conn.socket = calls[s].on
  BY <1>0, CallFacts DEF CallsInv
<1>2. calls'[s].on <= attempts'
  <2>1. attempts' \in Nat /\ attempts \in Nat /\ calls[s].on \in Nat
    BY <1>0, <1>1 DEF SocketFacts
  <2>2. calls[s].on <= attempts'
    BY <1>1, <2>1
  <2> QED BY <1>1, <2>2
<1>3. s \in subs' \cup untied' \/ socks'[calls'[s].on].setup = "failed" \/ conn'.socket # calls'[s].on
  <2>1. CASE calls[s].on = 0
    <3>1. socks'[0].setup = "failed"
      BY <1>0, <1>1, <2>1 DEF SocketInv, SocketFacts
    <3> QED BY <1>1, <2>1, <3>1
  <2>2. CASE calls[s].on # 0 /\ conn'.socket # conn.socket
    <3>1. conn'.socket \in {0, attempts + 1}
      BY <2>2
    <3>2. calls[s].on # attempts + 1
      BY <1>0, <1>1 DEF SocketFacts
    <3> QED BY <1>1, <2>2, <3>1, <3>2
  <2>3. CASE calls[s].on # 0 /\ conn'.socket = conn.socket
    <3>1. CASE s \in subs \cup untied
      BY <1>1, <2>3, <3>1
    <3>2. CASE socks[calls[s].on].setup = "failed"
      BY <1>1, <3>2
    <3>3. CASE conn.socket # calls[s].on
      BY <1>1, <2>3, <3>3
    <3> QED BY <1>1, <3>1, <3>2, <3>3
  <2> QED BY <2>1, <2>2, <2>3
<1>4. socks'[calls'[s].on].setup = "established" /\ IsOpen' => conn'.socket = calls'[s].on
  BY <1>1
<1> QED BY <1>2, <1>3, <1>4

\* The calls' part of the invariant is kept by every step.
LEMMA CallsStep ==
  ASSUME TypeOK, ConnInv, SocketInv, HandlerInv, LeftInv, CallsInv, SentInv, [Next]_vars, TypeOK'
  PROVE  CallsInv'
<1>0. /\ SocketFacts /\ SocksOK(socks)
      /\ calls \in [Subs -> [at : {"none", "waiting", "live", "gone"}, uid : Uids, on : Opened]]
      /\ \A s \in Waiting : s \in Subs /\ calls[s].on \in Opened /\ calls[s].on <= attempts
  BY SocketFactsHold, CallFacts DEF SocketFacts, CallsInv, Waiting
<1>1. ASSUME UNCHANGED <<attempts, conn, calls>>,
             \A j \in Opened : socks[j].setup = "failed" => socks'[j].setup = "failed",
             \A j \in Opened : socks'[j].setup = "established" => socks[j].setup = "established",
             Waiting \cap (subs \cup untied) \subseteq subs' \cup untied'
      PROVE  CallsInv'
  <2>1. Waiting' = Waiting /\ attempts <= attempts'
    BY <1>0, <1>1 DEF Waiting, SocketFacts
  <2> QED BY <1>0, <1>1, <2>1, CallsKept DEF IsOpen, Established
<1>2. ASSUME UNCHANGED <<attempts, calls>>, conn'.socket = 0, ~IsOpen',
             \A j \in Opened : socks[j].setup = "failed" => socks'[j].setup = "failed"
      PROVE  CallsInv'
  <2>1. Waiting' = Waiting /\ attempts <= attempts'
    BY <1>0, <1>2 DEF Waiting, SocketFacts
  <2> QED BY <1>0, <1>2, <2>1, CallsKept
<1>3. ASSUME NEW k \in Opened, Connecting(k), Waiting' \subseteq Waiting, UNCHANGED <<calls, subs, untied>>
      PROVE CallsInv'
  <2>1. /\ attempts <= attempts' /\ conn'.socket \in {0, conn.socket, attempts + 1}
        /\ \A j \in Opened : j <= attempts => socks'[j] = socks[j]
        /\ IsOpen' => IsOpen /\ conn' = conn
    BY <1>0, <1>3, ConnectingSockets, ConnectingConn
  <2> QED BY <1>0, <1>3, <2>1, CallsKept DEF Established
<1>4. ASSUME Heard PROVE conn'.code = conn.code /\ conn'.socket = conn.socket
  BY <1>0, <1>4 DEF Heard, SocketFacts
<1>5. ASSUME UNCHANGED <<attempts, calls>>, Heard, IsOpen,
             \A j \in Opened : socks[j].setup = "failed" => socks'[j].setup = "failed",
             \A j \in Opened : socks'[j].setup = "established" => socks[j].setup = "established",
             Waiting \cap (subs \cup untied) \subseteq subs' \cup untied'
      PROVE  CallsInv'
  <2>1. Waiting' = Waiting /\ attempts <= attempts'
    BY <1>0, <1>5 DEF Waiting, SocketFacts
  <2>2. conn'.socket = conn.socket
    BY <1>4, <1>5
  <2>3. \A s \in Waiting : Established(calls[s].on) => conn'.socket = calls[s].on
    BY <1>5, <2>2 DEF CallsInv
  <2> QED BY <1>0, <1>5, <2>1, <2>2, <2>3, CallsKept DEF Established
<1>6. ASSUME NEW k \in Opened PROVE \A j \in Opened : Closing(k)[j].setup = socks[j].setup
  BY <1>0, <1>6, ClosingNet
<1>a. CASE Connect
  <2>1. UNCHANGED <<calls, subs, untied>>
    BY <1>a DEF Connect, subVars
  <2>2. Waiting' = Waiting
    BY <2>1 DEF Waiting
  <2> QED BY <1>a, <2>1, <2>2, <1>3 DEF Connect
<1>b. CASE Disconnect
  <2>1. UNCHANGED <<attempts, calls>> /\ socks' \in {TornDown(pending), Closing(conn.socket), socks}
    BY <1>b DEF Disconnect, Finalize, EndAll
  <2>2. \A f \in {TornDown(pending), Closing(conn.socket), socks} : \A j \in Opened :
          socks[j].setup = "failed" => f[j].setup = "failed"
    BY <1>0 DEF TornDown, Closing, SocksOK, SocketFacts
  <2>3. conn'.socket = 0 /\ ~IsOpen'
    <3>1. conn' = Closed \/ (pending = 0 /\ ~IsOpen /\ conn' = conn)
      BY <1>b DEF Disconnect
    <3>2. pending = 0 /\ ~IsOpen => conn.code = "closed"
      BY <1>0 DEF SocketInv, SocketFacts, IsOpen
    <3> QED BY <3>1, <3>2 DEF SocketInv, Closed, IsOpen
  <2>4. \A j \in Opened : socks[j].setup = "failed" => socks'[j].setup = "failed"
    BY <2>1, <2>2
  <2> QED BY <2>1, <2>3, <2>4, <1>2
<1>c. CASE NewToken \/ DelayEnds \/ Replay \/ Retry \/ (Attempt /\ manual)
  <2>1. UNCHANGED <<attempts, conn, calls, socks>>
    BY <1>c DEF NewToken, DelayEnds, Replay, Retry, Attempt, Finalize, EndAll, socketVars, subVars
  <2>2. Waiting \cap (subs \cup untied) \subseteq subs' \cup untied'
    BY <1>c DEF NewToken, DelayEnds, Replay, Retry, Attempt, subVars, historyVars
  <2> QED BY <2>1, <2>2, <1>1
<1>d. ASSUME NEW s \in Subs, NEW u \in Uids, Subscribe(s, u) PROVE CallsInv'
  <2>1. s \notin Waiting /\ s \in subs' /\ subs \subseteq subs' /\ untied' = untied
    BY <1>d DEF Subscribe, Waiting
  <2>2. CASE IsOpen
    <3>1. UNCHANGED <<attempts, conn, socks>>
            /\ calls' = [calls EXCEPT ![s] = [at |-> "live", uid |-> u, on |-> 0]]
      BY <1>d, <2>2 DEF Subscribe, socketVars
    <3>2. Waiting' \subseteq Waiting /\ \A t \in Waiting' : calls'[t] = calls[t]
      BY <1>0, <3>1 DEF Waiting
    <3>3. attempts <= attempts'
      BY <1>0, <3>1 DEF SocketFacts
    <3> QED BY <1>0, <2>1, <3>1, <3>2, <3>3, CallsKept DEF IsOpen, Established
  <2>3. CASE ~IsOpen
    <3>1. PICK k \in Opened : Connecting(k) /\ calls' = [calls EXCEPT ![s] = [at |-> "waiting", uid |-> u, on |-> k]]
      BY <1>d, <2>3 DEF Subscribe
    <3>2. /\ attempts <= attempts' /\ conn'.socket \in {0, conn.socket, attempts + 1} /\ k <= attempts'
          /\ \A j \in Opened : j <= attempts => socks'[j] = socks[j]
          /\ ~IsOpen'
      BY <1>0, <2>3, <3>1, ConnectingSockets, ConnectingConn
    <3>3. calls'[s].on = k /\ \A t \in Subs : t # s => calls'[t] = calls[t]
      BY <1>0, <3>1
    <3>4. Waiting' \subseteq Waiting \cup {s}
      BY <3>3 DEF Waiting
    <3>5. attempts' \in Nat
      BY ConnectingTypes, <3>1, TypesByName, ClientAssumption DEF SocketTypes, LoopTypes, Opened
    <3> SUFFICES ASSUME NEW t \in Waiting'
                 PROVE  /\ calls'[t].on <= attempts'
                        /\ t \in subs' \cup untied' \/ socks'[calls'[t].on].setup = "failed" \/ conn'.socket # calls'[t].on
                        /\ ~IsOpen'
      BY DEF CallsInv
    <3>6. CASE t = s
      BY <2>1, <3>2, <3>3, <3>6
    <3>7. CASE t # s
      <4>1. t \in Waiting /\ calls'[t] = calls[t] /\ calls[t].on \in Opened /\ calls[t].on <= attempts
        BY <1>0, <3>3, <3>4, <3>7 DEF Waiting
      <4>2. socks'[calls[t].on] = socks[calls[t].on]
        BY <3>2, <4>1
      <4>3. t \in subs \cup untied \/ socks[calls[t].on].setup = "failed" \/ conn.socket # calls[t].on
        BY <4>1 DEF CallsInv
      <4>4. socks[0].setup = "failed" /\ calls[t].on # attempts + 1
        BY <1>0, <4>1 DEF SocketInv, SocketFacts
      <4>5. calls'[t].on <= attempts'
        <5>1. attempts \in Nat /\ calls[t].on \in Nat
          BY <1>0, <4>1 DEF SocketFacts
        <5>2. calls[t].on <= attempts'
          BY <3>2, <3>5, <4>1, <5>1
        <5> QED BY <4>1, <5>2
      <4>6. t \in subs' \cup untied' \/ socks'[calls'[t].on].setup = "failed"
              \/ conn'.socket # calls'[t].on
        <5>1. CASE conn'.socket = conn.socket
          BY <2>1, <4>1, <4>2, <4>3, <5>1
        <5>2. CASE conn'.socket # conn.socket
          BY <3>2, <4>1, <4>2, <4>4, <5>2
        <5> QED BY <5>1, <5>2
      <4> QED BY <3>2, <4>5, <4>6
    <3> QED BY <3>6, <3>7
  <2> QED BY <2>2, <2>3
<1>e. ASSUME NEW s \in Subs, Unsubscribe(s) \/ Resume(s) PROVE CallsInv'
  <2>1. UNCHANGED <<attempts, conn, socks, untied>> /\ subs \ {s} \subseteq subs'
    BY <1>e DEF Unsubscribe, Resume, Forgotten, socketVars, historyVars
  <2>2. calls'[s].at # "waiting" /\ \A t \in Subs : t # s => calls'[t] = calls[t]
    BY <1>0, <1>e DEF Unsubscribe, Resume
  <2>3. Waiting' \subseteq Waiting /\ s \notin Waiting' /\ \A t \in Waiting' : calls'[t] = calls[t]
    BY <2>2 DEF Waiting
  <2>4. attempts <= attempts'
    BY <1>0, <2>1 DEF SocketFacts
  <2> QED BY <1>0, <2>1, <2>3, <2>4, CallsKept DEF IsOpen, Established
<1>g. CASE CloseEnds
  <2>1. UNCHANGED <<attempts, calls>> /\ conn'.socket = 0 /\ ~IsOpen'
    BY <1>g DEF CloseEnds, Closed, IsOpen, Finalize, EndAll, subVars
  <2>2. \A j \in Opened : socks[j].setup = "failed" => socks'[j].setup = "failed"
    BY <1>0, <1>g DEF CloseEnds, Rejected, SocksOK, SocketFacts
  <2> QED BY <2>1, <2>2, <1>2
<1>h. CASE Attempt /\ ~manual
  <2>1. UNCHANGED <<calls, subs, untied>>
    BY <1>h DEF Attempt, subVars
  <2>2. Waiting' = Waiting
    BY <2>1 DEF Waiting
  <2> QED BY <1>h, <2>1, <2>2, <1>3 DEF Attempt
<1>i. CASE ReplayFails
  <2>1. UNCHANGED <<attempts, conn, calls>> /\ untied' = untied \cup Waiting
          /\ (socks' = Closing(conn.socket) \/ socks' = socks)
    BY <1>i DEF ReplayFails, Finalize, EndAll
  <2>2. conn.socket \in Opened
    BY <1>0 DEF SocketFacts
  <2>3. \A j \in Opened : Closing(conn.socket)[j].setup = socks[j].setup
    BY <1>6, <2>2
  <2>4. \A j \in Opened : socks'[j].setup = socks[j].setup
    BY <2>1, <2>3
  <2> QED BY <2>1, <2>4, <1>1
<1>m. ASSUME NEW k \in Sockets, Continuation(k) \/ Network(k) \/ Deadline(k) PROVE CallsInv'
  <2>0. k \in Opened
    BY <1>0 DEF SocketFacts
  <2>1. CASE TokenFails(k) \/ Refused(k) \/ Deadline(k)
    <3>1. Fails(k)
      BY <2>1 DEF TokenFails, Refused, Deadline
    <3>2. UNCHANGED <<attempts, calls>> /\ conn'.socket = 0 /\ ~IsOpen'
      BY <3>1 DEF Fails, Teardown, Closed, IsOpen, subVars
    <3>3. \A j \in Opened : socks[j].setup = "failed" => socks'[j].setup = "failed"
      BY <1>0, <2>0, <3>1 DEF Fails, Teardown, TornDown, SocksOK
    <3> QED BY <3>2, <3>3, <1>2
  <2>2. CASE TokenReady(k) \/ CloseBegins(k)
    <3>1. UNCHANGED <<attempts, conn, calls, subs, untied>>
      BY <2>2 DEF TokenReady, CloseBegins, subVars, historyVars
    <3>2. \A j \in Opened : /\ socks[j].setup = "failed" => socks'[j].setup = "failed"
                            /\ socks'[j].setup = "established" => socks[j].setup = "established"
      BY <1>0, <2>0, <2>2 DEF TokenReady, CloseBegins, SocksOK
    <3> QED BY <3>1, <3>2, <1>1
  <2>3. CASE Accepted(k)
    <3>1. UNCHANGED <<attempts, conn, calls, subs, untied>> /\ Waiting' = Waiting
      BY <2>3 DEF Accepted, subVars, historyVars, Waiting
    <3>2. \A j \in Opened : /\ socks[j].setup = "failed" => socks'[j].setup = "failed"
                            /\ socks'[j].setup = "established" => socks[j].setup = "established" \/ j = k
      BY <1>0, <2>0, <2>3 DEF Accepted, SocksOK
    <3>3. k = conn.socket
      BY <1>0, <2>0, <2>3 DEF Accepted, SocketInv, SocketFacts, InSetup
    <3>4. attempts <= attempts'
      BY <1>0, <3>1 DEF SocketFacts
    <3>5. \A t \in Waiting : socks'[calls[t].on].setup = "established" /\ IsOpen' =>
            conn'.socket = calls[t].on \/ (Established(calls[t].on) /\ IsOpen /\ conn' = conn)
      BY <1>0, <3>1, <3>2, <3>3 DEF Established, IsOpen
    <3> QED BY <1>0, <3>1, <3>2, <3>4, <3>5, CallsKept
  <2>4. CASE Refreshed(k)
    BY <2>4, <1>1 DEF Refreshed, socketVars, subVars, historyVars
  <2>5. CASE Open(k)
    <3>1. UNCHANGED <<attempts, calls, subs, untied>> /\ Waiting' = Waiting /\ conn'.socket = k
      BY <2>5 DEF Open, subVars, historyVars, Waiting
    <3>2. \A j \in Opened : /\ socks[j].setup = "failed" => socks'[j].setup = "failed"
                            /\ socks'[j].setup = "established" => socks[j].setup = "established" \/ j = k
      BY <1>0, <2>0, <2>5 DEF Open, SocksOK
    <3>3. k = conn.socket
      BY <1>0, <2>0, <2>5 DEF Open, SocketInv, SocketFacts
    <3>4. attempts <= attempts'
      BY <1>0, <3>1 DEF SocketFacts
    <3>5. \A t \in Waiting : ~Settled(calls[t].on)
      BY <2>5, NothingDue DEF Open
    <3>6. \A t \in Waiting : socks'[calls[t].on].setup = "established" => conn'.socket = calls[t].on
      BY <1>0, <3>1, <3>2, <3>5 DEF Settled
    <3> QED BY <1>0, <3>1, <3>2, <3>3, <3>4, <3>6, CallsKept
  <2>6. CASE AuthAnswer(k) \/ OtherMessage(k) \/ TokenExpired(k) \/ AuthFailed(k) \/ Overflow(k)
             \/ \E s \in Subs : SubscribeError(k, s)
    <3>1. UNCHANGED <<attempts, calls>> /\ Heard /\ IsOpen
      BY <2>6 DEF AuthAnswer, OtherMessage, TokenExpired, AuthFailed, Overflow, SubscribeError,
          Message, Finalize, EndAll, subVars
    <3>2. \A j \in Opened : /\ socks[j].setup = "failed" => socks'[j].setup = "failed"
                            /\ socks'[j].setup = "established" => socks[j].setup = "established"
      <4>1. CASE AuthAnswer(k)
        BY <1>0, <2>0, <4>1 DEF AuthAnswer, SocksOK
      <4> QED BY <1>6, <2>0, <2>6, <4>1 DEF OtherMessage, TokenExpired, AuthFailed, Overflow,
          SubscribeError
    <3>3. Waiting \cap (subs \cup untied) \subseteq subs' \cup untied'
      <4>1. ASSUME NEW s \in Subs, SubscribeError(k, s)
            PROVE Waiting \cap (subs \cup untied) \subseteq subs' \cup untied'
        <5>1. s \notin Waiting
          BY <4>1 DEF SubscribeError, SentInv, Returned, Waiting
        <5> QED BY <4>1, <5>1 DEF SubscribeError
      <4> QED BY <2>6, <4>1 DEF AuthAnswer, OtherMessage, TokenExpired, AuthFailed, Overflow,
          subVars, historyVars
    <3> QED BY <3>1, <3>2, <3>3, <1>5
  <2> QED BY <1>m, <2>1, <2>2, <2>3, <2>4, <2>5, <2>6 DEF Continuation, Network
<1>n. CASE UNCHANGED vars
  BY <1>n, <1>1 DEF vars, socketVars, subVars, historyVars
<1> QED BY <1>a, <1>b, <1>c, <1>d, <1>e, <1>g, <1>h, <1>i, <1>m, <1>n
    DEF Next, Application, Recovery

\* A call that has returned has returned, and no uid changes but with a subscribe call.
LEMMA CallsGo ==
  ASSUME TypeOK, [Next]_vars
  PROVE  /\ Returned \subseteq Returned'
         /\ \A s \in Subs : calls[s].at # "none" => calls'[s].uid = calls[s].uid
<1>0. calls \in [Subs -> [at : {"none", "waiting", "live", "gone"}, uid : Uids, on : Opened]]
  BY CallFacts
<1>1. CASE UNCHANGED calls
  BY <1>1 DEF Returned
<1>2. ASSUME NEW s \in Subs, calls'[s].at \in {"live", "gone"} \/ calls[s].at = "none",
             \A t \in Subs : t # s => calls'[t] = calls[t],
             calls[s].at # "none" => calls'[s].uid = calls[s].uid
      PROVE  /\ Returned \subseteq Returned'
             /\ \A t \in Subs : calls[t].at # "none" => calls'[t].uid = calls[t].uid
  BY <1>2 DEF Returned
<1>3. ASSUME NEW s \in Subs, NEW u \in Uids, Subscribe(s, u)
      PROVE  calls[s].at = "none" /\ \A t \in Subs : t # s => calls'[t] = calls[t]
  BY <1>0, <1>3 DEF Subscribe
<1>4. ASSUME NEW s \in Subs, Unsubscribe(s) \/ Resume(s)
      PROVE  /\ calls'[s].at \in {"live", "gone"} /\ calls'[s].uid = calls[s].uid
             /\ \A t \in Subs : t # s => calls'[t] = calls[t]
  BY <1>0, <1>4 DEF Unsubscribe, Resume
<1>5. CASE ~\E s \in Subs : Unsubscribe(s) \/ Resume(s) \/ \E u \in Uids : Subscribe(s, u)
  <2>1. UNCHANGED calls
    BY <1>5 DEF Next, Application, Recovery, Continuation, Network, vars, subVars, Finalize, EndAll,
      Connect, Disconnect, NewToken, CloseEnds, DelayEnds, Attempt, Replay, ReplayFails, Retry,
      TokenReady, TokenFails, Refused, Deadline, Fails, Accepted, Refreshed, Open, CloseBegins,
      AuthAnswer, TokenExpired,
      AuthFailed, OtherMessage, SubscribeError, Overflow
  <2> QED BY <2>1, <1>1
<1> QED BY <1>2, <1>3, <1>4, <1>5

\* The part about what is sent is kept by every step.
LEMMA SentStep ==
  ASSUME TypeOK, ChannelInv, HandlerInv, SentInv, [Next]_vars
  PROVE  SentInv'
<1>0. Returned \subseteq Returned'
  BY CallsGo
<1>1. ASSUME loop' = loop \/ loop'.at = "off" \/ (loop.at # "off" /\ loop'.targets = loop.targets),
             server' \subseteq server \/ server' = {}, sent' = sent \/ (sent' = {} /\ server' = {})
      PROVE  SentInv'
  BY <1>0, <1>1 DEF SentInv
<1>2. ASSUME UNCHANGED loop, UNCHANGED sideVars PROVE SentInv'
  BY <1>1, <1>2 DEF sideVars
<1>3. ASSUME UNCHANGED loop, Gone PROVE SentInv'
  BY <1>1, <1>3 DEF Gone
<1>4. loop \in [at : {"off", "delay", "woken", "waiting"}, tries : 0..Retries, on : Opened, targets : SUBSET Subs]
  BY CallFacts
<1>5. NoLoop.at = "off"
  BY DEF NoLoop
<1>b. CASE Disconnect
  BY <1>b, <1>1, <1>4 DEF Disconnect, Woken, Gone
<1>d. ASSUME NEW s \in Subs, NEW u \in Uids, Subscribe(s, u) PROVE SentInv'
  <2>1. CASE IsOpen
    <3>1. /\ loop' = loop /\ server' \subseteq server \cup {s} /\ sent' = sent \cup {s} /\ s \in server'
          /\ calls' = [calls EXCEPT ![s] = [at |-> "live", uid |-> u, on |-> 0]]
      BY <1>d, <2>1 DEF Subscribe
    <3>2. s \in Returned'
      BY <3>1, CallFacts DEF Returned
    <3> QED BY <1>0, <3>1, <3>2 DEF SentInv
  <2>2. CASE ~IsOpen
    BY <1>d, <2>2, <1>2 DEF Subscribe, sideVars
  <2> QED BY <2>1, <2>2
<1>e. ASSUME NEW s \in Subs, Unsubscribe(s) PROVE SentInv'
  BY <1>e, <1>1 DEF Unsubscribe
<1>f. ASSUME NEW s \in Subs, Resume(s) PROVE SentInv'
  <2>1. CASE UNCHANGED <<server, sent>>
    BY <1>f, <2>1, <1>2 DEF Resume, sideVars
  <2>2. CASE Sent({s}) /\ calls' = [calls EXCEPT ![s].at = "live", ![s].on = 0]
    <3>1. s \in Returned'
      BY <2>2, CallFacts DEF Returned
    <3>2. loop' = loop
      BY <1>f DEF Resume
    <3> QED BY <1>0, <2>2, <3>1, <3>2 DEF SentInv, Sent
  <2> QED BY <1>f, <2>1, <2>2 DEF Resume
<1>g. CASE CloseEnds
  <2>1. server' = {} /\ sent' = {}
    BY <1>g DEF CloseEnds, Gone
  <2>2. CASE loop' = loop
    BY <2>1, <2>2, <1>1
  <2>3. CASE loop' = LoopFrom(1) /\ Recovers(handler)
    <3>1. Waiting = {}
      BY <1>g, <2>3 DEF CloseEnds, Recovers, HandlerInv
    <3>2. subs \subseteq Returned
      BY <3>1, CallFacts DEF ChannelInv, Returned, Waiting
    <3>3. loop'.targets = subs
      BY <2>3 DEF LoopFrom, Targets
    <3> QED BY <1>0, <2>1, <3>2, <3>3 DEF SentInv
  <2> QED BY <1>g, <2>2, <2>3 DEF CloseEnds
<1>h. CASE DelayEnds
  BY <1>h, <1>1, <1>4 DEF DelayEnds, Woken, sideVars
<1>i. CASE Attempt
  BY <1>i, <1>1, <1>4, <1>5 DEF Attempt, sideVars
<1>j. CASE Replay
  <2>1. loop'.at = "off" /\ Replayed \subseteq Returned
    BY <1>j, <1>5 DEF Replay, Connected, Replayed, SentInv
  <2>2. Sent(Replayed) \/ UNCHANGED <<server, sent>>
    BY <1>j DEF Replay
  <2> QED BY <1>0, <2>1, <2>2 DEF SentInv, Sent
<1>k. CASE ReplayFails
  BY <1>k, <1>1, <1>5 DEF ReplayFails, sideVars
<1>l. CASE Retry
  <2>1. loop' = NoLoop \/ loop' = [loop EXCEPT !.at = "delay", !.tries = @ + 1, !.on = 0]
    BY <1>l DEF Retry
  <2>2. loop'.at = "off" \/ loop'.targets = loop.targets
    BY <1>4, <1>5, <2>1
  <2> QED BY <1>l, <2>2, <1>1 DEF Retry, sideVars
<1>m. ASSUME NEW k \in Sockets, Continuation(k) \/ Network(k) \/ Deadline(k) PROVE SentInv'
  <2>1. CASE TokenFails(k) \/ Refused(k) \/ Deadline(k) \/ Open(k)
    BY <2>1, <1>3 DEF TokenFails, Refused, Deadline, Fails, Open
  <2>2. ASSUME NEW s \in Subs, SubscribeError(k, s) PROVE SentInv'
    BY <2>2, <1>1 DEF SubscribeError
  <2>3. CASE Refreshed(k)
    BY <2>3, <1>1 DEF Refreshed
  <2>4. CASE TokenReady(k) \/ Accepted(k) \/ CloseBegins(k) \/ AuthAnswer(k) \/ TokenExpired(k)
               \/ AuthFailed(k)
             \/ OtherMessage(k) \/ Overflow(k)
    BY <2>4, <1>2 DEF TokenReady, Accepted, CloseBegins, AuthAnswer, TokenExpired, AuthFailed,
        OtherMessage, Overflow
  <2> QED BY <1>m, <2>1, <2>2, <2>3, <2>4 DEF Continuation, Network
<1>n. CASE Connect \/ NewToken \/ UNCHANGED vars
  BY <1>n, <1>2 DEF Connect, NewToken, vars
<1> QED BY <1>b, <1>d, <1>e, <1>f, <1>g, <1>h, <1>i, <1>j, <1>k, <1>l, <1>m, <1>n
    DEF Next, Application, Recovery

\* The server holds nothing the client has forgotten, after every step.
LEMMA NoneForgottenStep ==
  ASSUME TypeOK, ConnInv, ChannelInv, CallsInv, SentInv, NoneForgotten, [Next]_vars
  PROVE  NoneForgotten'
<1>0. /\ server \subseteq Subs /\ sent \subseteq Subs /\ server \subseteq sent /\ sent \subseteq Returned
      /\ OpenNow => server \subseteq subs \cup untied
  BY CallFacts DEF SentInv, NoneForgotten, OpenNow
<1>1. ASSUME OpenNow => server' \subseteq subs' \cup untied', \A k \in Sockets : ~Open(k)
      PROVE NoneForgotten'
  BY <1>1, OpenNowStays DEF NoneForgotten, OpenNow
<1>2. ASSUME NEW k \in Sockets, Open(k) PROVE NoneForgotten'
  BY <1>2 DEF Open, Gone, NoneForgotten
<1>3. CASE Disconnect \/ CloseEnds \/ ReplayFails \/ Retry \/ \E k \in Sockets : Overflow(k)
  BY <1>3, EndedClosed DEF NoneForgotten, OpenNow
<1>d. ASSUME NEW s \in Subs, NEW u \in Uids, Subscribe(s, u)
      PROVE OpenNow => server' \subseteq subs' \cup untied'
  BY <1>0, <1>d DEF Subscribe
<1>e. ASSUME NEW s \in Subs, Unsubscribe(s) PROVE OpenNow => server' \subseteq subs' \cup untied'
  <2>1. untied' = untied /\ subs' = subs \ {s} /\ (s \in subs /\ OpenNow => s \notin server') /\ server' \subseteq server
    BY <1>e DEF Unsubscribe, Forgotten, SameUid, OpenNow, historyVars
  <2> QED BY <1>0, <2>1
<1>f. ASSUME NEW s \in Subs, Resume(s) PROVE OpenNow => server' \subseteq subs' \cup untied'
  <2>1. calls[s].at = "waiting" /\ s \in Waiting /\ untied' = untied
    BY <1>f DEF Resume, Waiting, historyVars
  <2>2. CASE Established(calls[s].on) /\ IsOpen /\ Sent({s}) /\ subs' = subs
    <3>1. s \in subs \cup untied
      BY <2>1, <2>2 DEF CallsInv, Established
    <3> QED BY <1>0, <2>1, <2>2, <3>1 DEF Sent
  <2>3. CASE server' = server /\ subs' = subs \ {s}
    <3>1. s \notin server
      BY <1>0, <2>1 DEF Returned
    <3> QED BY <1>0, <2>1, <2>3, <3>1
  <2> QED BY <1>f, <2>2, <2>3 DEF Resume
<1>j. CASE Replay
  <2>1. server' \subseteq server \cup Replayed /\ UNCHANGED <<subs, untied>>
    BY <1>j DEF Replay, Sent
  <2> QED BY <1>0, <1>1, <1>2, <2>1 DEF Replayed
<1>m. ASSUME NEW k \in Sockets, NEW s \in Subs, SubscribeError(k, s)
      PROVE OpenNow => server' \subseteq subs' \cup untied'
  BY <1>0, <1>m DEF SubscribeError
<1>n. ASSUME NEW k \in Sockets, TokenFails(k) \/ Refused(k) \/ Deadline(k)
      PROVE OpenNow => server' \subseteq subs' \cup untied'
  BY <1>n DEF TokenFails, Refused, Deadline, Fails, Gone
<1>o. ASSUME ~(Disconnect \/ CloseEnds \/ ReplayFails \/ Retry \/ Replay),
             ~\E k \in Sockets : Overflow(k) \/ Open(k) \/ TokenFails(k) \/ Refused(k) \/ Deadline(k) \/ \E s \in Subs : SubscribeError(k, s),
             ~\E s \in Subs : Unsubscribe(s) \/ Resume(s) \/ \E u \in Uids : Subscribe(s, u)
      PROVE  UNCHANGED <<server, subs, untied>>
  BY <1>o DEF Next, Application, Recovery, Continuation, Network, vars, subVars, sideVars,
      historyVars,
     Connect, NewToken, DelayEnds, Attempt,
     TokenReady, Accepted, Refreshed, CloseBegins, AuthAnswer, TokenExpired, AuthFailed,
     OtherMessage
<1> QED BY <1>0, <1>1, <1>2, <1>3, <1>d, <1>e, <1>f, <1>j, <1>m, <1>n, <1>o

\* A subscription that is held stays so, where what holds it stays.
LEMMA HeldKept ==
  ASSUME NEW t \in Subs, Held(t), server \subseteq Subs,
         t \in Waiting => t \in Waiting',
         loop.at # "off" /\ t \in loop.targets => loop'.at # "off" /\ t \in loop'.targets,
         t \in stranded => t \in stranded',
         IsOpen /\ t \in sent => IsOpen' /\ t \in sent' /\ calls'[t].uid = calls[t].uid,
         IsOpen /\ t \in sent => \A x \in server \cap ({t} \cup untied) : calls[x].uid = calls[t].uid =>
           x \in server' /\ calls'[x].uid = calls[x].uid /\ x \in {t} \cup untied'
  PROVE  Held(t)'
<1>1. CASE t \in Waiting \/ (loop.at # "off" /\ t \in loop.targets) \/ t \in stranded
  BY <1>1 DEF Held
<1>2. CASE IsOpen /\ t \in sent /\ server \cap SameUid(t) \cap ({t} \cup untied) # {}
  <2>1. PICK x \in server \cap ({t} \cup untied) : calls[x].uid = calls[t].uid
    BY <1>2 DEF SameUid
  <2>2. x \in server' /\ calls'[x].uid = calls[x].uid /\ x \in {t} \cup untied'
    BY <1>2, <2>1
  <2>3. calls'[t].uid = calls[t].uid /\ IsOpen' /\ t \in sent'
    BY <1>2
  <2>4. x \in Subs /\ calls'[x].uid = calls'[t].uid
    BY <2>1, <2>2, <2>3
  <2>5. x \in SameUid(t)'
    BY <2>4 DEF SameUid
  <2> QED BY <2>2, <2>3, <2>5 DEF Held
<1> QED BY <1>1, <1>2 DEF Held

\* After every step each subscription is held.
LEMMA HeldStep ==
  ASSUME TypeOK, ConnInv, ChannelInv, SocketInv, LeftInv, CallsInv, SentInv, HeldInv, [Next]_vars
  PROVE  \A s \in subs' : Held(s)'
<1>0. /\ server \subseteq Subs /\ sent \subseteq Subs /\ subs \subseteq Subs /\ untied \subseteq Subs
      /\ server \subseteq sent /\ sent \subseteq Returned
      /\ \A s \in subs : Held(s)
      /\ \A s, t \in subs : calls[s].uid = calls[t].uid => s = t
      /\ calls \in [Subs -> [at : {"none", "waiting", "live", "gone"}, uid : Uids, on : Opened]]
      /\ loop \in [at : {"off", "delay", "woken", "waiting"}, tries : 0..Retries, on : Opened, targets : SUBSET Subs]
      /\ SocketFacts
  BY CallFacts, SocketFactsHold DEF SentInv, HeldInv, ChannelInv
<1>1. ASSUME subs' \subseteq subs, UNCHANGED calls, loop' = loop \/ (loop'.at # "off" /\ loop'.targets = loop.targets),
             stranded \subseteq stranded', untied \subseteq untied',
             IsOpen => IsOpen' /\ UNCHANGED <<server, sent>>
      PROVE  \A t \in subs' : Held(t)'
  BY <1>0, <1>1, HeldKept DEF Waiting
<1>2. ASSUME subs' = {} PROVE \A t \in subs' : Held(t)'
  BY <1>2
<1>3. ASSUME UNCHANGED <<subs, calls>>, loop' = loop, stranded' = stranded \cup Hanging
      PROVE \A t \in subs' : Held(t)'
  <2>1. ASSUME NEW t \in subs PROVE Held(t)'
    <3>1. Held(t)
      BY <1>0, <2>1
    <3>2. CASE t \in Waiting \/ (loop.at # "off" /\ t \in loop.targets) \/ t \in stranded
      BY <1>3, <3>2 DEF Held, Waiting
    <3>3. CASE t \in sent /\ ~(loop.at # "off" /\ t \in loop.targets)
      BY <1>3, <2>1, <3>3 DEF Held, Hanging
    <3> QED BY <3>1, <3>2, <3>3 DEF Held
  <2> QED BY <1>3, <2>1
<1>4. ASSUME Heard, IsOpen PROVE IsOpen'
  BY <1>0, <1>4 DEF Heard, SocketFacts, IsOpen
<1>5. ASSUME NEW k \in Opened, Connecting(k) PROVE IsOpen' <=> IsOpen
  BY <1>5, ConnectingConn
<1>6. ASSUME NEW e, Finalize(e) PROVE subs' = {}
  BY <1>6 DEF Finalize, EndAll
<1>a. CASE Connect
  <2>1. UNCHANGED <<subs, calls, loop, stranded, untied, server, sent>>
    BY <1>a DEF Connect, subVars, sideVars
  <2> QED BY <1>a, <2>1, <1>1, <1>5 DEF Connect
<1>b. CASE Disconnect \/ ReplayFails \/ \E k \in Sockets : Overflow(k)
  BY <1>b, <1>2, <1>6 DEF Disconnect, ReplayFails, Overflow
<1>c. CASE NewToken
  <2>1. UNCHANGED <<subs, calls, loop, stranded, untied, conn, server, sent>>
    BY <1>c DEF NewToken, subVars, sideVars, socketVars, historyVars
  <2> QED BY <2>1, <1>1 DEF IsOpen
<1>d. ASSUME NEW s \in Subs, NEW u \in Uids, Subscribe(s, u) PROVE \A t \in subs' : Held(t)'
  <2>1. /\ calls[s].at = "none" /\ subs' = subs \cup {s} /\ UNCHANGED <<loop, stranded, untied>>
        /\ \A t \in Subs : t # s => calls'[t] = calls[t]
        /\ \A t \in subs : calls[t].uid # u /\ t # s
        /\ s \notin sent /\ s \notin server
    BY <1>0, <1>d DEF Subscribe, Taken, ChannelInv, Returned
  <2>2. CASE IsOpen
    <3>1. /\ IsOpen' /\ sent' = sent \cup {s} /\ server' = {t \in server : calls[t].uid # u} \cup {s}
      BY <1>d, <2>2 DEF Subscribe, socketVars, IsOpen
    <3>2. Held(s)'
      BY <3>1 DEF Held, SameUid
    <3>3. ASSUME NEW t \in subs PROVE Held(t)'
      <4>1. t \in Subs /\ t # s /\ calls'[t] = calls[t] /\ calls[t].uid # u /\ Held(t)
        BY <1>0, <2>1, <3>3
      <4>2. \A x \in server : calls[x].uid = calls[t].uid => x \in server' /\ calls'[x].uid = calls[x].uid
        BY <1>0, <2>1, <3>1, <4>1
      <4>3. t \in Waiting => t \in Waiting'
        BY <4>1 DEF Waiting
      <4> QED BY <1>0, <2>1, <3>1, <4>1, <4>2, <4>3, HeldKept
    <3> QED BY <2>1, <3>2, <3>3
  <2>3. CASE ~IsOpen
    <3>1. calls'[s].at = "waiting"
      BY <1>0, <1>d, <2>3 DEF Subscribe
    <3>2. Held(s)'
      BY <3>1 DEF Held, Waiting
    <3>3. ASSUME NEW t \in subs PROVE Held(t)'
      <4>1. t \in Subs /\ t # s /\ calls'[t] = calls[t] /\ Held(t)
        BY <1>0, <2>1, <3>3
      <4> QED BY <2>1, <2>3, <4>1 DEF Held, Waiting
    <3> QED BY <2>1, <3>2, <3>3
  <2> QED BY <2>2, <2>3
<1>e. ASSUME NEW s \in Subs, Unsubscribe(s) PROVE \A t \in subs' : Held(t)'
  <2>1. /\ subs' = subs \ {s} /\ UNCHANGED <<loop, stranded, untied, sent, conn>>
        /\ \A t \in Subs : calls'[t].uid = calls[t].uid /\ (t # s => calls'[t] = calls[t])
        /\ server' = IF s \in subs /\ IsOpen THEN server \ SameUid(s) ELSE server
    BY <1>0, <1>e DEF Unsubscribe, Forgotten, socketVars, historyVars
  <2>2. ASSUME NEW t \in subs, t # s PROVE Held(t)'
    <3>1. t \in Subs /\ calls'[t] = calls[t] /\ Held(t)
      BY <1>0, <2>1, <2>2
    <3>2. \A x \in server : calls[x].uid = calls[t].uid => x \in server'
      <4>1. CASE s \in subs
        BY <1>0, <2>1, <2>2, <4>1 DEF SameUid
      <4>2. CASE s \notin subs
        BY <2>1, <4>2
      <4> QED BY <4>1, <4>2
    <3>3. t \in Waiting => t \in Waiting'
      BY <3>1 DEF Waiting
    <3> QED BY <1>0, <2>1, <3>1, <3>2, <3>3, HeldKept DEF IsOpen
  <2> QED BY <2>1, <2>2
<1>f. ASSUME NEW s \in Subs, Resume(s) PROVE \A t \in subs' : Held(t)'
  <2>1. /\ calls[s].at = "waiting" /\ UNCHANGED <<loop, stranded, untied, conn>>
        /\ \A t \in Subs : calls'[t].uid = calls[t].uid /\ (t # s => calls'[t] = calls[t])
    BY <1>0, <1>f DEF Resume, socketVars, historyVars
  <2>2. CASE Established(calls[s].on) /\ IsOpen /\ Sent({s}) /\ UNCHANGED subs
    <3>1. /\ IsOpen' /\ sent' = sent \cup {s} /\ server' = (server \ SameUid(s)) \cup {s}
      BY <2>1, <2>2 DEF Sent, IsOpen
    <3>2. s \in subs \cup untied
      BY <2>1, <2>2 DEF CallsInv, Established, Waiting
    <3>3. Held(s)'
      BY <3>1 DEF Held, SameUid
    <3>4. ASSUME NEW t \in subs, t # s PROVE Held(t)'
      <4>1. t \in Subs /\ calls'[t] = calls[t] /\ Held(t)
        BY <1>0, <2>1, <3>4
      <4>2. t \in Waiting => t \in Waiting'
        BY <4>1 DEF Waiting
      <4>3. CASE calls[t].uid # calls[s].uid
        <5>1. \A x \in server : calls[x].uid = calls[t].uid => x \in server'
          BY <1>0, <3>1, <4>3 DEF SameUid
        <5> QED BY <1>0, <2>1, <3>1, <4>1, <4>2, <5>1, HeldKept
      <4>4. CASE calls[t].uid = calls[s].uid /\ t \in sent
        <5>1. s \notin subs
          BY <1>0, <3>4, <4>4
        <5>2. s \in server' /\ s \in untied' /\ t \in sent'
          BY <2>1, <3>1, <3>2, <4>4, <5>1
        <5>3. calls'[s].uid = calls[s].uid /\ calls'[t].uid = calls[t].uid
          BY <2>1, <4>1
        <5>4. s \in SameUid(t)'
          BY <4>4, <5>3 DEF SameUid
        <5> QED BY <3>1, <5>2, <5>4 DEF Held
      <4>5. CASE t \notin sent
        BY <2>1, <4>1, <4>2, <4>5 DEF Held
      <4> QED BY <4>3, <4>4, <4>5
    <3> QED BY <2>2, <3>3, <3>4
  <2>3. CASE subs' = subs \ {s} /\ UNCHANGED <<server, sent>>
    <3>1. ASSUME NEW t \in subs, t # s PROVE Held(t)'
      <4>1. t \in Subs /\ calls'[t] = calls[t] /\ Held(t)
        BY <1>0, <2>1, <3>1
      <4>2. t \in Waiting => t \in Waiting'
        BY <4>1 DEF Waiting
      <4> QED BY <1>0, <2>1, <2>3, <4>1, <4>2, HeldKept DEF IsOpen
    <3> QED BY <2>3, <3>1
  <2> QED BY <1>f, <2>2, <2>3 DEF Resume
<1>g. CASE CloseEnds
  <2>1. CASE \E e \in {"closed", "failed"} : Finalize(e)
    BY <2>1, <1>2, <1>6
  <2>2. CASE loop' = LoopFrom(1) /\ UNCHANGED subVars
    <3>1. loop'.at = "delay" /\ loop'.targets = subs /\ subs' = subs
      BY <2>2 DEF LoopFrom, Targets, subVars
    <3> QED BY <3>1 DEF Held
  <2>3. CASE stranded' = stranded \cup Hanging /\ UNCHANGED <<loop, subVars>>
    BY <2>3, <1>3 DEF subVars
  <2> QED BY <1>g, <2>1, <2>2, <2>3 DEF CloseEnds
<1>h. CASE DelayEnds
  <2>1. UNCHANGED <<subs, calls, stranded, untied, conn, server, sent>>
    BY <1>h DEF DelayEnds, subVars, sideVars, socketVars, historyVars
  <2>2. loop'.at # "off" /\ loop'.targets = loop.targets
    BY <1>0, <1>h DEF DelayEnds, Woken
  <2> QED BY <2>1, <2>2, <1>1 DEF IsOpen
<1>i. CASE Attempt
  <2>1. UNCHANGED <<subs, calls, stranded, untied, server, sent>>
    BY <1>i DEF Attempt, subVars, sideVars
  <2>2. CASE manual
    BY <2>1, <2>2 DEF LeftInv
  <2>3. CASE ~manual
    <3>1. PICK k \in Opened : Connecting(k) /\ loop' = [loop EXCEPT !.at = "waiting", !.on = k]
      BY <1>i, <2>3 DEF Attempt
    <3>2. loop'.at # "off" /\ loop'.targets = loop.targets
      BY <1>0, <3>1
    <3>3. IsOpen' <=> IsOpen
      BY <3>1, <1>5
    <3> QED BY <2>1, <3>2, <3>3, <1>1
  <2> QED BY <2>2, <2>3
<1>j. CASE Replay
  <2>1. /\ UNCHANGED <<subs, calls, untied, conn>> /\ stranded' = stranded \ Replayed
        /\ IsOpen \/ Replayed = {}
        /\ IsOpen => Sent(Replayed)
    BY <1>j DEF Replay, socketVars
  <2>2. ASSUME NEW t \in subs PROVE Held(t)'
    <3>1. t \in Subs /\ Held(t)
      BY <1>0, <2>2
    <3>2. CASE t \in Replayed
      <4>1. IsOpen' /\ t \in sent' /\ t \in server'
        BY <2>1, <3>2 DEF Sent, IsOpen
      <4> QED BY <3>1, <4>1 DEF Held, SameUid
    <3>3. CASE t \notin Replayed
      <4>1. t \notin loop.targets
        BY <2>2, <3>3 DEF Replayed
      <4>2. ASSUME IsOpen, NEW x \in server, calls[x].uid = calls[t].uid PROVE x \in server'
        <5>1. \A r \in Replayed : calls[r].uid # calls[t].uid
          BY <1>0, <2>2, <3>3 DEF Replayed
        <5>2. \A r \in Replayed : x \notin SameUid(r)
          BY <4>2, <5>1 DEF SameUid
        <5> QED BY <2>1, <4>2, <5>2 DEF Sent
      <4>3. IsOpen => IsOpen' /\ sent \subseteq sent'
        BY <2>1 DEF Sent, IsOpen
      <4>4. Waiting' = Waiting
        BY <2>1 DEF Waiting
      <4> QED BY <1>0, <2>1, <3>1, <3>3, <4>1, <4>2, <4>3, <4>4, HeldKept
    <3> QED BY <3>2, <3>3
  <2> QED BY <2>1, <2>2
<1>k. CASE Retry
  <2>1. CASE Finalize("failed")
    BY <2>1, <1>2, <1>6
  <2>2. CASE /\ loop' = IF manual THEN NoLoop ELSE [loop EXCEPT !.at = "delay", !.tries = @ + 1, !.on = 0]
             /\ UNCHANGED <<subVars, authVars, untied>>
    <3>1. CASE manual
      BY <2>2, <3>1 DEF LeftInv, subVars
    <3>2. CASE ~manual
      <4>1. loop' = [loop EXCEPT !.at = "delay", !.tries = @ + 1, !.on = 0]
        BY <2>2, <3>2
      <4>2. loop'.at # "off" /\ loop'.targets = loop.targets
        BY <1>0, <4>1
      <4>3. UNCHANGED <<subs, calls, stranded, untied, conn, server, sent>>
        BY <1>k, <2>2 DEF Retry, subVars, sideVars, socketVars
      <4> QED BY <4>2, <4>3, <1>1 DEF IsOpen
    <3> QED BY <3>1, <3>2
  <2> QED BY <1>k, <2>1, <2>2 DEF Retry
<1>m. ASSUME NEW k \in Sockets, Continuation(k) \/ Network(k) \/ Deadline(k), ~Overflow(k)
      PROVE \A t \in subs' : Held(t)'
  <2>0. k \in Opened
    BY <1>0 DEF SocketFacts
  <2>1. CASE TokenFails(k) \/ Refused(k) \/ Deadline(k)
    BY <2>1, <1>3 DEF TokenFails, Refused, Deadline, Fails, subVars
  <2>2. CASE Open(k)
    <3>1. ~IsOpen
      BY <1>0, <2>0, <2>2 DEF Open, SocketInv, SocketFacts
    <3>2. UNCHANGED <<subs, calls, loop, stranded, untied>>
      BY <2>2 DEF Open, subVars, historyVars
    <3> QED BY <3>1, <3>2, <1>1
  <2>3. ASSUME NEW s \in Subs, SubscribeError(k, s) PROVE \A t \in subs' : Held(t)'
    <3>1. /\ IsOpen' /\ UNCHANGED <<calls, loop, stranded, sent>> /\ untied \subseteq untied'
          /\ subs' = subs \ SameUid(s) /\ server' = server \ {s}
      BY <2>3, <1>4 DEF SubscribeError, Message
    <3>2. ASSUME NEW t \in subs' PROVE Held(t)'
      <4>1. t \in Subs /\ Held(t) /\ calls[t].uid # calls[s].uid /\ Waiting' = Waiting
        BY <1>0, <3>1, <3>2 DEF SameUid, Waiting
      <4>2. \A x \in server : calls[x].uid = calls[t].uid => x \in server'
        BY <3>1, <4>1
      <4> QED BY <1>0, <3>1, <4>1, <4>2, HeldKept
    <3> QED BY <3>2
  <2>4. CASE TokenReady(k) \/ Accepted(k) \/ CloseBegins(k) \/ Refreshed(k)
    <3>1. UNCHANGED <<subs, calls, loop, stranded, untied, conn, server, sent>>
      BY <2>4 DEF TokenReady, Accepted, CloseBegins, Refreshed, socketVars, subVars, sideVars,
          historyVars
    <3> QED BY <3>1, <1>1 DEF IsOpen
  <2>5. CASE AuthAnswer(k) \/ TokenExpired(k) \/ AuthFailed(k) \/ OtherMessage(k)
    <3>1. UNCHANGED <<subs, calls, loop, stranded, untied, server, sent>> /\ Heard /\ IsOpen
      BY <2>5 DEF AuthAnswer, TokenExpired, AuthFailed, OtherMessage, Message, subVars, sideVars,
          historyVars
    <3> QED BY <3>1, <1>1, <1>4
  <2> QED BY <1>m, <2>1, <2>2, <2>3, <2>4, <2>5 DEF Continuation, Network
<1>n. CASE UNCHANGED vars
  <2>1. UNCHANGED <<subs, calls, loop, stranded, untied, conn, server, sent>>
    BY <1>n DEF vars, socketVars, subVars, sideVars, historyVars
  <2> QED BY <2>1, <1>1 DEF IsOpen
<1> QED BY <1>a, <1>b, <1>c, <1>d, <1>e, <1>f, <1>g, <1>h, <1>i, <1>j, <1>k, <1>m, <1>n
    DEF Next, Application, Recovery

-----------------------------------------------------------------------------
\* The first state.
LEMMA ClientInvInit == Init => ClientInv
<1> SUFFICES ASSUME Init PROVE ClientInv
  OBVIOUS
<1> USE DEF Init
<1>0. 0 \in Opened /\ 1 \in 1..MaxTokens /\ Sockets \subseteq Opened
  BY ClientAssumption DEF Opened, Sockets
<1>1. TypeOK
  <2>1. SocksOK(socks)
    BY DEF SocksOK
  <2>2. ConnOK(conn)
    BY ConnTypes
  <2>3. LoopOK(loop)
    BY <1>0, ClientAssumption DEF LoopOK, NoLoop
  <2>4. CallsOK(calls)
    BY <1>0 DEF CallsOK, NoCall
  <2>5. ChannelOK(channel) /\ ConfigOK(config) /\ ResentOK(resent)
    BY DEF ChannelOK, ConfigOK, ResentOK, Never
  <2>6. retried \in 0..MaxTokens
    BY ClientAssumption
  <2> QED BY <1>0, <2>1, <2>2, <2>3, <2>4, <2>5, <2>6, TypesByName
        DEF SocketTypes, LoopTypes, SubTypes, SideTypes, AuthTypes, HistoryTypes
<1>2. ~IsOpen /\ conn.code = "closed" /\ conn.socket = 0 /\ loop.at = "off"
  BY DEF IsOpen, Closed, NoLoop
<1>3. ConnInv
  BY <1>2 DEF ConnInv
<1>4. TokenInv
  BY <1>2 DEF TokenInv, OpenNow
<1>5. ChannelInv
  BY DEF ChannelInv, ChannelsHeld
<1>6. \A s \in Subs : calls[s].at = "none"
  <2>1. PICK u \in Uids : calls = [s \in Subs |-> NoCall(u)]
    OBVIOUS
  <2>2. NoCall(u).at = "none"
    BY DEF NoCall
  <2> QED BY <2>1, <2>2
<1>7. Waiting = {}
  BY <1>6 DEF Waiting
<1>8. SocketInv
  <2>1. \A k \in Sockets : k # 0 /\ ~(k <= attempts)
    BY ClientAssumption DEF Sockets
  <2>2. socks[0].net = "closed" /\ socks[0].setup = "failed"
    BY <1>0
  <2>3. \A k \in Sockets : socks[k].net = "closed" /\ socks[k].setup = "none"
    BY <1>0, <2>1
  <2> QED BY <1>2, <2>1, <2>2, <2>3 DEF SocketInv, InSetup
<1>9. HandlerInv /\ LeftInv
  BY DEF HandlerInv, LeftInv
<1>10. CallsInv /\ SentInv /\ HeldInv
  BY <1>2, <1>7 DEF CallsInv, SentInv, HeldInv, NoneForgotten
<1> QED BY <1>1, <1>3, <1>4, <1>5, <1>8, <1>9, <1>10 DEF ClientInv, AlwaysInv, UnclobberedInv,
    AttemptInv

\* Every step keeps the invariant.
LEMMA ClientInvStep == ClientInv /\ [Next]_vars => ClientInv'
<1> SUFFICES ASSUME ClientInv, [Next]_vars PROVE ClientInv'
  OBVIOUS
<1>1. TypeOK /\ ConnInv /\ TokenInv /\ ChannelInv
  BY DEF ClientInv, AlwaysInv
<1>2. TypeOK' /\ AlwaysInv'
  BY <1>1, TypesStep, ConnStep, TokenStep, ChannelStep DEF AlwaysInv
<1>3. ASSUME ~clobbered' PROVE UnclobberedInv'
  <2>1. SocketInv /\ HandlerInv /\ LeftInv /\ CallsInv /\ SentInv /\ HeldInv
    BY <1>3, ClobberedStays DEF ClientInv, UnclobberedInv, AttemptInv
  <2>2. AttemptInv'
    BY <1>1, <1>3, <2>1, SocketStep, HandlerStep, LeftStep DEF AttemptInv
  <2>3. CallsInv' /\ SentInv'
    BY <1>1, <1>2, <2>1, CallsStep, SentStep
  <2>4. NoneForgotten' /\ \A s \in subs' : Held(s)'
    BY <1>1, <2>1, NoneForgottenStep, HeldStep DEF HeldInv
  <2>5. HeldInv'
    BY <2>4 DEF HeldInv
  <2> QED BY <2>2, <2>3, <2>5 DEF UnclobberedInv
<1> QED BY <1>2, <1>3 DEF ClientInv

\* The inductive invariant holds in every reachable state: what connect, the handshake, the
\* close of a socket, the recovery loop and the subscribe calls rely on of each other.
THEOREM ClientInvariant == Spec => []ClientInv
<1> QED BY ClientInvInit, ClientInvStep, PTL DEF Spec

\* Type correctness of the client.
THEOREM ClientTypes == Spec => []TypeOK
<1>1. ClientInv => TypeOK
  BY DEF ClientInv
<1> QED BY <1>1, ClientInvariant, PTL

\* With nothing under way, what the client holds is on the server or lost on record.
LEMMA HeldIsKept == ClientInv /\ ~clobbered => Kept
<1> SUFFICES ASSUME ClientInv, ~clobbered, Idle, NEW s \in subs
             PROVE  \/ IsOpen /\ server \cap SameUid(s) \cap ({s} \cup untied) # {}
                    \/ s \in stranded
  BY DEF Kept
<1>1. Held(s)
  BY DEF ClientInv, UnclobberedInv, HeldInv
<1> QED BY <1>1 DEF Held, Idle

\* The attempts are as connect() takes them to be.
LEMMA AttemptsRight == ClientInv => AttemptRules
<1> SUFFICES ASSUME ClientInv, ~clobbered
             PROVE  /\ pending # 0 => pending = current /\ ~Settled(pending)
                    /\ \A k \in 1..attempts : ~Settled(k) => k = pending
                    /\ \A k \in 1..attempts : socks[k].net \in {"opening", "open"} => conn.socket = k
  BY DEF AttemptRules
<1>1. SocketInv /\ ConnInv /\ SocketFacts
  BY SocketFactsHold DEF ClientInv, UnclobberedInv, AttemptInv, AlwaysInv
<1>2. \A k \in 1..attempts : k \in Sockets /\ k \in Opened /\ k <= attempts
  BY <1>1 DEF SocketFacts, Sockets, Opened
<1>3. pending # 0 => pending = current /\ ~Settled(pending)
  BY <1>1 DEF SocketInv, ConnInv, InSetup, Settled
<1>4. ASSUME NEW k \in 1..attempts, ~Settled(k) PROVE k = pending
  <2>1. k \in Sockets /\ socks[k].setup # "none"
    BY <1>1, <1>2 DEF SocketInv
  <2>2. socks[k].setup \in InSetup
    BY <1>1, <1>2, <1>4, <2>1 DEF SocketFacts, SocksOK, Settled, InSetup
  <2> QED BY <1>1, <2>1, <2>2 DEF SocketInv
<1>5. \A k \in 1..attempts : socks[k].net \in {"opening", "open"} => conn.socket = k
  BY <1>1, <1>2 DEF SocketInv
<1> QED BY <1>3, <1>4, <1>5

\* The client's rules: one attempt at a time, the current one; its subscriptions, channels and
\* the server's agree with the exceptions the code has; and a token is used once a connection.
THEOREM ClientIsRight == Spec => []ClientRules
<1>1. ClientInv => SubscriptionRules
  <2> SUFFICES ASSUME ClientInv, ~clobbered PROVE Kept /\ NoneForgotten /\ ChannelsHeld
    BY DEF SubscriptionRules
  <2> QED BY HeldIsKept DEF ClientInv, UnclobberedInv, HeldInv, AlwaysInv, ChannelInv
<1>2. ClientInv => TokensOnce
  <2> SUFFICES ASSUME ClientInv, OpenNow, NEW t \in 1..MaxTokens PROVE resent[t] < 2
    BY DEF TokensOnce, OpenNow
  <2>1. resent[t] <= 1 /\ resent[t] \in 0..2
    BY DEF ClientInv, AlwaysInv, TokenInv, TypeOK
  <2> QED BY <2>1
<1>3. ClientInv => ClientRules
  BY <1>1, <1>2, AttemptsRight DEF ClientRules
<1> QED BY <1>3, ClientInvariant, PTL

\* disconnect() stays: the close event of a socket it closed starts no recovery, whatever
\* the application calls in between, short of an attempt begun in a handler of that close.
THEOREM DisconnectIsKept == Spec => DisconnectStays
<1>1. ClientInv /\ [Next]_vars => (clobbered' \/ (loop.at = "off" /\ loop'.at # "off" => handler \notin left))
  <2> SUFFICES ASSUME ClientInv, [Next]_vars, ~clobbered', loop.at = "off", loop'.at # "off", handler \in left
               PROVE  FALSE
    OBVIOUS
  <2>1. HandlerInv /\ LeftInv
    BY ClobberedStays DEF ClientInv, UnclobberedInv, AttemptInv
  <2>2. CASE CloseEnds
    <3>1. handler # 0 /\ Recovers(handler)
      BY <2>2 DEF CloseEnds
    <3>2. handler = current /\ manual
      BY <2>1, <3>1 DEF HandlerInv, LeftInv
    <3> QED BY <3>1, <3>2 DEF Recovers
  <2>3. CASE Recovery \/ Disconnect
    BY <2>3 DEF Recovery, DelayEnds, Attempt, Replay, ReplayFails, Retry, Connected, Disconnect,
        Woken
  <2>4. CASE ~(CloseEnds \/ Recovery \/ Disconnect)
    <3>1. loop' = loop
      BY <2>4 DEF Next, Application, Continuation, Network, vars,
        Connect, NewToken, Subscribe, Unsubscribe, Resume,
        TokenReady, TokenFails, Refused, Deadline, Fails, Accepted, Refreshed, Open, CloseBegins,
        AuthAnswer, TokenExpired,
        AuthFailed, OtherMessage, SubscribeError, Overflow
    <3> QED BY <3>1
  <2> QED BY <2>2, <2>3, <2>4
<1> QED BY <1>1, ClientInvariant, PTL DEF Spec, DisconnectStays
=============================================================================

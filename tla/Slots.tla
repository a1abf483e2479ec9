------------------------------- MODULE Slots -------------------------------
(***************************************************************************)
(* The slots of the server and the life of a client in one: the connection *)
(* the network layer keeps for the slot (CNetServer), the state the server *)
(* keeps for it (CServer::CClient) and the player object of the game       *)
(* (CGameContext::m_apPlayers).  Packets are handled one chunk at a time   *)
(* by the main thread, in any order the clients send them; CNetServer::    *)
(* Update, a map change, a kick and the end of the server come between     *)
(* any two of them.  Reliable delivery on one connection is the subject of *)
(* NetConnection.                                                          *)
(***************************************************************************)
EXTENDS Integers, FiniteSets, FiniteSetsExt

CONSTANTS MaxClients,     \* sv_max_clients: the number of slots
          Addrs,          \* network addresses, with the port
          Ip(_),          \* the address without the port
          Limits,         \* values sv_max_clients_per_ip may be given
          Codes,          \* timeout codes a client may choose
          NoCode,         \* the empty code every player starts with
          None,           \* no address, no player, nobody
          MaxSessions     \* bound: handshakes completed in one behaviour

(* A player object; the owner is the session it was created for.           *)
Player == [owner : 1 .. MaxSessions, ready : BOOLEAN,
           code : Codes \union {NoCode}]

ASSUME SlotsAssumption ==
    /\ MaxClients \in Nat \ {0} /\ Limits \subseteq Nat \ {0}
    /\ MaxSessions \in Nat
    /\ NoCode \notin Codes /\ None \notin Addrs \union Nat \union Player

Slots == 0 .. MaxClients - 1

(* CServer::CClient::STATE_*: the code compares them by order.             *)
EMPTY == 0
PREAUTH == 1
AUTH == 2
CONNECTING == 3
READY == 4
INGAME == 5

VARIABLES
    conn,       \* m_State of the connection of a slot
    addr,       \* m_PeerAddr
    protected,  \* m_TimeoutProtected
    situation,  \* m_TimeoutSituation
    client,     \* CClient::m_State
    authed,     \* m_Authed: the session that logged in to rcon, or None
    persist,    \* m_HasPersistentData, and whose data m_pPersistentData is
    player,     \* m_apPlayers: None or [owner, ready, code]
    password,   \* whether the server has a password at the moment
    maxPerIp,   \* m_MaxClientsPerIP
    running,    \* m_RunServer
    session,    \* history: the handshake the slot is used by, 0 if free
    sessions,   \* history: number of handshakes completed
    admitted,   \* history: whether that client has been let in
    due         \* history: who was in game when the map changed

net == <<conn, addr, protected, situation>>
config == <<password, maxPerIp, running>>
server == <<client, authed, persist, config>>
history == <<session, sessions, admitted, due>>
vars == <<net, server, player, history>>

TypeOK ==
    /\ conn \in [Slots -> {"offline", "online", "error"}]
    /\ addr \in [Slots -> Addrs \union {None}]
    /\ protected \in [Slots -> BOOLEAN]
    /\ situation \in [Slots -> BOOLEAN]
    /\ client \in [Slots -> EMPTY .. INGAME]
    /\ authed \in [Slots -> 1 .. MaxSessions \union {None}]
    /\ persist \in [Slots -> 1 .. MaxSessions \union {None}]
    /\ player \in [Slots -> Player \union {None}]
    /\ password \in BOOLEAN /\ running \in BOOLEAN /\ maxPerIp \in Limits
    /\ session \in [Slots -> 0 .. MaxSessions]
    /\ sessions \in 0 .. MaxSessions
    /\ admitted \in [Slots -> BOOLEAN]
    /\ due \in [Slots -> 1 .. MaxSessions \union {None}]

Init ==
    /\ conn = [s \in Slots |-> "offline"]
    /\ addr = [s \in Slots |-> None]
    /\ protected = [s \in Slots |-> FALSE]
    /\ situation = [s \in Slots |-> FALSE]
    /\ client = [s \in Slots |-> EMPTY]
    /\ authed = [s \in Slots |-> None]
    /\ persist = [s \in Slots |-> None]
    /\ player = [s \in Slots |-> None]
    /\ password = FALSE /\ running = TRUE /\ maxPerIp \in Limits
    /\ session = [s \in Slots |-> 0] /\ sessions = 0
    /\ admitted = [s \in Slots |-> FALSE]
    /\ due = [s \in Slots |-> None]

-----------------------------------------------------------------------------
(* Leaving.                                                                *)

SetOn(f, D, v) == [s \in Slots |-> IF s \in D THEN v ELSE f[s]]

(* DelClientCallback and the reset of the connection for the slots of D:   *)
(* the game is told of clients that are READY, and frees their players.    *)
(* What was kept over a map change stays.  The address left in a free slot *)
(* is never read.  FetchChunk goes on handing over the chunks of a packet  *)
(* after one of them made the server drop its sender; of the messages only *)
(* RCON_AUTH looks at no state.  For the slots of late such a chunk with a *)
(* right password lay behind: the empty slot gets the rights.              *)
Leave(D, late) ==
    /\ addr' = SetOn(addr, D, None)
    /\ protected' = SetOn(protected, D, FALSE)
    /\ client' = SetOn(client, D, EMPTY)
    /\ authed' = [s \in Slots |-> IF s \in late THEN session[s]
                                  ELSE IF s \in D THEN None ELSE authed[s]]
    /\ player' = SetOn(player, {s \in D : client[s] >= READY}, None)
    /\ session' = SetOn(session, D, 0)
    /\ admitted' = SetOn(admitted, D, FALSE)
    /\ due' = SetOn(due, D, None)
    /\ UNCHANGED <<persist, sessions>>

(* CNetServer::Drop.                                                       *)
Drop(D, late) ==
    /\ conn' = SetOn(conn, D, "offline")
    /\ situation' = SetOn(situation, D, FALSE)
    /\ Leave(D, late)

(* What may lie behind a chunk that has its sender s dropped.              *)
Behind(s) == IF conn[s] = "online" THEN SUBSET {s} ELSE {{}}

(* CServer::Kick, a ban, too many rcon tries: any client that is there, by *)
(* a chunk of his own or not.                                              *)
Kick(s) ==
    /\ running /\ client[s] # EMPTY
    /\ \E late \in Behind(s) : Drop({s}, late)
    /\ UNCHANGED config

(* Feed gets CLOSE: the slot is dropped by a later Update.                 *)
Close(s) ==
    /\ running /\ conn[s] = "online"
    /\ conn' = [conn EXCEPT ![s] = "error"]
    /\ UNCHANGED <<addr, protected, situation, server, player, history>>

(* CNetServer::Update: the clients of T have been silent for longer than   *)
(* conn_timeout or, when they are in a timeout situation, than             *)
(* conn_timeout_protection.                                                *)
SituationForever(T) ==
    [s \in Slots |-> \/ conn[s] = "online" /\ s \in T
                     \/ conn[s] = "error" /\ situation[s]]

Situation(T) ==
    [s \in Slots |-> \/ conn[s] = "online" /\ s \in T
                     \/ conn[s] = "error" /\ situation[s] /\ s \notin T]

Update(T) ==
    LET failed == {s \in Slots : \/ conn[s] = "error"
                                 \/ conn[s] = "online" /\ s \in T}
        gone == {s \in failed : ~ (protected[s] /\ Situation(T)[s])}
    IN  /\ running
        /\ conn' = SetOn(SetOn(conn, failed, "error"), gone, "offline")
        /\ situation' = SetOn(Situation(T), gone, FALSE)
        /\ Leave(gone, {})
        /\ UNCHANGED config

(* The end of CServer::Run: everybody is dropped, then the game ends.      *)
Shutdown ==
    /\ running /\ running' = FALSE
    /\ Drop({s \in Slots : client[s] # EMPTY}, {})
    /\ UNCHANGED <<password, maxPerIp>>

-----------------------------------------------------------------------------
(* Joining.                                                                *)

(* NumClientsWithAddr: a protected client that timed out still counts.     *)
Counted(s) ==
    \/ conn[s] = "online"
    \/ conn[s] = "error" /\ protected[s] /\ situation[s]

NumClientsWithAddr(a) ==
    Cardinality({s \in Slots : Counted(s) /\ Ip(addr[s]) = Ip(a)})

(* sv_max_clients_per_ip.                                                  *)
LimitReachedByPort(a) ==
    Cardinality({s \in Slots : Counted(s) /\ addr[s] = a}) + 1 > maxPerIp

LimitReached(a) == NumClientsWithAddr(a) + 1 > maxPerIp

(* GetClientSlot: packets of this address belong to a slot already.        *)
ClientExists(a) == \E s \in Slots : conn[s] = "online" /\ addr[s] = a

Free == {s \in Slots : conn[s] = "offline"}

(* NewClientCallback and NewClientNoAuthCallback.                          *)
NewClientKeepsRcon(s) == UNCHANGED authed

NewClient(s) == authed' = [authed EXCEPT ![s] = None]

(* TryAcceptClient: the first free slot, if the limits allow it.           *)
TryAcceptClient(a, state) ==
    /\ ~ ClientExists(a)
    /\ ~ LimitReached(a)
    /\ Free # {} /\ sessions < MaxSessions
    /\ LET s == Min(Free)
       IN  /\ conn' = [conn EXCEPT ![s] = "online"]
           /\ addr' = [addr EXCEPT ![s] = a]
           /\ protected' = [protected EXCEPT ![s] = FALSE]
           /\ situation' = [situation EXCEPT ![s] = FALSE]
           /\ client' = [client EXCEPT ![s] = state]
           /\ NewClient(s)
           /\ session' = [session EXCEPT ![s] = sessions + 1]
           /\ admitted' = [admitted EXCEPT ![s] = state = CONNECTING]
    /\ sessions' = sessions + 1
    /\ UNCHANGED <<persist, config, player, due>>

(* OnTokenCtrlMsg: ACCEPT with the right token; NewClientCallback.         *)
Accept(a) == running /\ TryAcceptClient(a, PREAUTH)

(* OnPreConnMsg: an old client whose address has been checked by a dummy   *)
(* map joins without INFO, only while there is no password;                *)
(* NewClientNoAuthCallback.                                                *)
AcceptVanilla(a) ==
    /\ running /\ ~ password
    /\ TryAcceptClient(a, CONNECTING)

RejoinUnprotected(s) ==
    /\ running /\ conn[s] = "online" /\ sessions < MaxSessions
    /\ protected' = [protected EXCEPT ![s] = FALSE]
    /\ authed' = [authed EXCEPT ![s] = None]
    /\ session' = [session EXCEPT ![s] = sessions + 1]
    /\ sessions' = sessions + 1
    /\ UNCHANGED <<conn, addr, situation, client, persist, config, player, admitted, due>>

(* OnConnCtrlMsg: ACCEPT once more on a slot in use resets the connection  *)
(* and ClientRejoinCallback starts again with the map; the state and the   *)
(* player stay.                                                            *)
Rejoin(s) ==
    /\ running /\ conn[s] = "online" /\ sessions < MaxSessions
    /\ authed' = [authed EXCEPT ![s] = None]
    /\ session' = [session EXCEPT ![s] = sessions + 1]
    /\ sessions' = sessions + 1
    /\ UNCHANGED <<net, client, persist, config, player,
                   admitted, due>>

-----------------------------------------------------------------------------
(* Messages of a client: CServer::ProcessClientPacket.                     *)

Receives(s) == running /\ conn[s] = "online"

Goes(s, state) == client' = [client EXCEPT ![s] = state]

ClientVer(s) ==
    /\ Receives(s) /\ client[s] = PREAUTH /\ Goes(s, AUTH)
    /\ UNCHANGED <<net, authed, persist, config, player, history>>

(* INFO with the right version; good: with the right password.             *)
Info(s, good) ==
    /\ Receives(s) /\ client[s] \in {PREAUTH, AUTH}
    /\ password => good
    /\ Goes(s, CONNECTING)
    /\ admitted' = [admitted EXCEPT ![s] = TRUE]
    /\ UNCHANGED <<net, authed, persist, config, player,
                   session, sessions, due>>

(* INFO with a wrong version or password, or for a reserved slot.          *)
InfoRefused(s) ==
    /\ Receives(s) /\ client[s] \in {PREAUTH, AUTH}
    /\ \E late \in Behind(s) : Drop({s}, late)
    /\ UNCHANGED config

(* READY: OnClientConnected creates the player, with what was kept for the *)
(* slot.                                                                   *)
Ready(s) ==
    /\ Receives(s) /\ client[s] = CONNECTING /\ Goes(s, READY)
    /\ persist' = [persist EXCEPT ![s] = None]
    /\ due' = [due EXCEPT ![s] = None]
    /\ player' = [player EXCEPT ![s] =
            [owner |-> session[s], ready |-> FALSE, code |-> NoCode]]
    /\ UNCHANGED <<net, authed, config, session, sessions,
                   admitted>>

(* CL_STARTINFO: the game is told what the tee looks like.                 *)
StartInfo(s) ==
    /\ Receives(s) /\ client[s] >= READY /\ ~ player[s].ready
    /\ player' = [player EXCEPT ![s].ready = TRUE]
    /\ UNCHANGED <<net, server, history>>

EnterGame(s) ==
    /\ Receives(s) /\ client[s] = READY /\ player[s].ready
    /\ Goes(s, INGAME)
    /\ UNCHANGED <<net, authed, persist, config, player, history>>

(* RCON_AUTH with a right password, in any state.                          *)
RconAuth(s) ==
    /\ Receives(s)
    /\ authed' = [authed EXCEPT ![s] = session[s]]
    /\ UNCHANGED <<net, client, persist, config, player, history>>

(* ConTimeout: /timeout with a code, or without one.  The first slot of a  *)
(* player with that code whose connection has ended is taken over;         *)
(* otherwise the code is set for the caller.                               *)
Ended(s, c) ==
    {i \in Slots \ {s} : /\ player[i] # None /\ player[i].code = c
                         /\ conn[i] = "error"}

(* CNetServer::SetTimedOut and CServer::SetTimedOut: the connection of s   *)
(* moves to i, and s is dropped, with what lies behind for s.              *)
SetTimedOut(i, s) ==
    /\ conn' = [conn EXCEPT ![i] = "online", ![s] = "offline"]
    /\ addr' = [addr EXCEPT ![i] = addr[s], ![s] = None]
    /\ protected' = [protected EXCEPT ![s] = FALSE]
    /\ situation' = [situation EXCEPT ![s] = FALSE]
    /\ client' = [client EXCEPT ![s] = EMPTY]
    /\ \E rights \in {None, session[s]} :
          authed' = [authed EXCEPT ![i] = None, ![s] = rights]
    /\ player' = [player EXCEPT ![s] = None]
    /\ session' = [session EXCEPT ![i] = session[s], ![s] = 0]
    /\ admitted' = [admitted EXCEPT ![i] = admitted[s], ![s] = FALSE]
    /\ due' = [due EXCEPT ![s] = None]
    /\ UNCHANGED <<persist, config, sessions>>

TimeoutCommand(s, given) ==
    LET wanted == IF given = NoCode THEN player[s].code ELSE given
        ended == Ended(s, wanted)
    IN  /\ Receives(s) /\ client[s] = INGAME
        /\ \/ ended # {} /\ SetTimedOut(Min(ended), s)
           \/ /\ ended = {}
              /\ protected' = [protected EXCEPT ![s] = TRUE]
              /\ player' = [player EXCEPT ![s].code = given]
              /\ UNCHANGED <<conn, addr, situation, server, history>>

-----------------------------------------------------------------------------
(* The server itself.                                                      *)

(* OnClientDataPersist of the clients in game; CClient::Reset leaves what  *)
(* an earlier map change kept.                                             *)
PersistedAnew ==
    [s \in Slots |-> IF client[s] = INGAME THEN player[s].owner ELSE None]

Persisted ==
    [s \in Slots |-> IF client[s] = INGAME THEN player[s].owner
                     ELSE persist[s]]

(* Who starts again after a map change.                                    *)
RestartedInGame == {s \in Slots : client[s] > READY}

RestartedEarly == {s \in Slots : client[s] > PREAUTH}

Restarted == {s \in Slots : client[s] > AUTH}

(* A new map has been loaded in CServer::Run: the game is torn down with   *)
(* all its players, and every client that has been let in starts again.    *)
MapReload ==
    /\ running
    /\ persist' = Persisted
    /\ due' = [s \in Slots |-> IF client[s] = INGAME THEN player[s].owner
                               ELSE due[s]]
    /\ player' = [s \in Slots |-> None]
    /\ client' = SetOn(client, Restarted, CONNECTING)
    /\ UNCHANGED <<net, authed, config, session, sessions,
                   admitted>>

(* An admin sets the password.                                             *)
SetPassword ==
    /\ running /\ ~ password /\ password' = TRUE
    /\ UNCHANGED <<net, client, authed, persist, maxPerIp, running, player,
                   history>>

(* An admin sets sv_max_clients_per_ip; the value is clamped.              *)
SetMaxPerIp(n) ==
    /\ running /\ maxPerIp' = n
    /\ UNCHANGED <<net, client, authed, persist, password, running, player,
                   history>>

Message(s) ==
    \/ ClientVer(s) \/ (\E good \in BOOLEAN : Info(s, good))
    \/ InfoRefused(s) \/ Ready(s) \/ StartInfo(s) \/ EnterGame(s)
    \/ RconAuth(s) \/ \E c \in Codes \union {NoCode} : TimeoutCommand(s, c)

Next ==
    \/ \E a \in Addrs : Accept(a) \/ AcceptVanilla(a)
    \/ \E s \in Slots : Rejoin(s) \/ Message(s) \/ Close(s) \/ Kick(s)
    \/ \E T \in SUBSET Slots : Update(T)
    \/ \E n \in Limits : SetMaxPerIp(n)
    \/ MapReload \/ SetPassword \/ Shutdown

Spec == Init /\ [][Next]_vars

(* The main loop keeps calling Update, and the time of a connection that   *)
(* has ended runs out.                                                     *)
Expire(s) ==
    conn[s] = "error" /\ \E T \in SUBSET Slots : s \in T /\ Update(T)

FairSpec == Spec /\ \A s \in Slots : WF_vars(Expire(s))

-----------------------------------------------------------------------------
(* Properties.                                                             *)

(* The three layers agree on a slot whatever order messages, drops, map    *)
(* changes and takeovers come in: the server has a client exactly where    *)
(* the network has a connection, and the game has a player exactly where   *)
(* the client is READY or INGAME.  OnMessage, OnClientEnter and            *)
(* OnClientDrop use the player without looking whether it is there.        *)
LayersAgree ==
    \A s \in Slots : /\ client[s] = EMPTY <=> conn[s] = "offline"
                     /\ player[s] # None <=> client[s] >= READY

(* No address, with its port, has two connections, after takeovers too:    *)
(* GetClientSlot would give the packets of both to the last one.           *)
AddressOnce ==
    \A s, t \in Slots :
        conn[s] = "online" /\ conn[t] = "online" /\ addr[s] = addr[t]
           => s = t

(* No step takes an address without its port above the limit in force      *)
(* (sv_max_clients_per_ip): not one more of its ports, not a takeover, not *)
(* a protected client that times out; nor does one leave two connections   *)
(* with one port.  Lowering the limit drops nobody.                        *)
AddressLimit ==
    [][/\ AddressOnce'
       /\ \A a \in Addrs : \/ NumClientsWithAddr(a)' <= NumClientsWithAddr(a)
                           \/ NumClientsWithAddr(a)' <= maxPerIp]_vars

(* Whoever loads the map or plays has given the password, or came when     *)
(* there was none: map changes, the handshake of old clients and takeovers *)
(* let nobody in who was still asked for it.                               *)
Admitted == \A s \in Slots : client[s] >= CONNECTING => admitted[s]

(* Rights on the remote console belong to the connection that logged in,   *)
(* not to the slot: not to its next user, not to a client that starts      *)
(* again, not to the one that takes over a timed out player.  An empty     *)
(* slot may keep the rights of a client that was dropped with an RCON_AUTH *)
(* behind; they end with the handshake of its next user.                   *)
AuthedIsOwn ==
    \A s \in Slots : client[s] # EMPTY => authed[s] \in {None, session[s]}

(* Who was in game when the map changed finds his own state again when he  *)
(* is back, even if the map changes once more before.                      *)
StateKept == \A s \in Slots : due[s] # None => persist[s] = due[s]

(* A player who set a timeout code is protected for as long as he has the  *)
(* code, over a rejoin and after a takeover.                               *)
CodeIsProtected ==
    \A s \in Slots : player[s] # None /\ player[s].code # NoCode
                        => protected[s]

(* A connection that has ended does not keep its slot for ever: it is      *)
(* taken over or the slot is free again.                                   *)
Freed == \A s \in Slots : []<>(conn[s] # "error")
=============================================================================

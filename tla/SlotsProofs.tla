---------------------------- MODULE SlotsProofs ----------------------------
(***************************************************************************)
(* Theorems about Slots, for every number of slots, every set of addresses *)
(* and timeout codes, every set of limits per address and every bound.     *)
(***************************************************************************)
EXTENDS Slots, NumberFacts

\* The first slot of a set of slots is in the set.
LEMMA FirstSlot ==
    ASSUME NEW T \in SUBSET Slots, T # {}
    PROVE  Min(T) \in T
<1>1. T \in SUBSET Nat
  BY SlotsAssumption DEF Slots
<1>2. \E x \in T : \A y \in T : x <= y
  BY <1>1, Smallest
<1> QED
  BY <1>2 DEF Min

\* A slot in use belongs to a handshake.
InUse == \A s \in Slots : client[s] # EMPTY => session[s] # 0

IInv == /\ TypeOK /\ LayersAgree /\ InUse /\ Admitted /\ AuthedIsOwn
        /\ StateKept /\ CodeIsProtected

USE DEF EMPTY, PREAUTH, AUTH, CONNECTING, READY, INGAME, config

LEMMA InitIInv == Init => IInv
<1> SUFFICES ASSUME Init PROVE IInv
  OBVIOUS
<1> USE SlotsAssumption
<1>1. TypeOK
  <2>1. password \in BOOLEAN /\ running \in BOOLEAN /\ maxPerIp \in Limits
    BY Zenon DEF Init
  <2> QED
    BY <2>1 DEF Init, TypeOK
<1>2. LayersAgree /\ InUse /\ Admitted /\ AuthedIsOwn
  BY DEF Init, LayersAgree, InUse, Admitted, AuthedIsOwn
<1>3. StateKept /\ CodeIsProtected
  BY DEF Init, StateKept, CodeIsProtected
<1> QED
  BY <1>1, <1>2, <1>3 DEF IInv

LEMMA SetOnType ==
    ASSUME NEW S, NEW f \in [Slots -> S], NEW D, NEW v \in S
    PROVE  SetOn(f, D, v) \in [Slots -> S]
BY DEF SetOn

\* Dropping clients, whatever becomes of their connections, as long as the
\* connections that stay are in use as before.
LEMMA LeaveKeepsIInv ==
    ASSUME IInv, NEW D \in SUBSET Slots,
           NEW late \in SUBSET {s \in D : conn[s] # "offline"}, Leave(D, late),
           conn' \in [Slots -> {"offline", "online", "error"}],
           situation' \in [Slots -> BOOLEAN],
           \A s \in Slots : conn'[s] = "offline" <=> conn[s] = "offline" \/ s \in D,
           password' \in BOOLEAN, running' \in BOOLEAN, maxPerIp' = maxPerIp
    PROVE  IInv'
<1> USE SlotsAssumption
<1>1. TypeOK'
  <2>6. maxPerIp' \in Limits
    BY Zenon DEF IInv, TypeOK
  <2> SUFFICES /\ addr' \in [Slots -> Addrs \union {None}]
               /\ protected' \in [Slots -> BOOLEAN]
               /\ client' \in [Slots -> EMPTY .. INGAME]
               /\ authed' \in [Slots -> 1 .. MaxSessions \union {None}]
               /\ persist' \in [Slots -> 1 .. MaxSessions \union {None}]
               /\ player' \in [Slots -> Player \union {None}]
               /\ session' \in [Slots -> 0 .. MaxSessions]
               /\ sessions' \in 0 .. MaxSessions
               /\ admitted' \in [Slots -> BOOLEAN]
               /\ due' \in [Slots -> 1 .. MaxSessions \union {None}]
    BY <2>6, Zenon DEF TypeOK
  <2>1. /\ FALSE \in BOOLEAN /\ None \in Addrs \union {None}
        /\ None \in 1 .. MaxSessions \union {None} /\ None \in Player \union {None}
        /\ EMPTY \in EMPTY .. INGAME /\ 0 \in 0 .. MaxSessions
    OBVIOUS
  <2>2. /\ addr' \in [Slots -> Addrs \union {None}]
        /\ player' \in [Slots -> Player \union {None}]
        /\ due' \in [Slots -> 1 .. MaxSessions \union {None}]
    BY <2>1, SetOnType DEF IInv, TypeOK, Leave
  <2>5. authed' \in [Slots -> 1 .. MaxSessions \union {None}]
    <3>1. \A s \in late : s \in Slots /\ session[s] \in 1 .. MaxSessions
      BY DEF IInv, TypeOK, LayersAgree, InUse
    <3> QED
      BY <2>1, <3>1 DEF IInv, TypeOK, Leave
  <2>3. /\ protected' \in [Slots -> BOOLEAN]
        /\ admitted' \in [Slots -> BOOLEAN]
    BY <2>1, SetOnType DEF IInv, TypeOK, Leave
  <2>4. /\ client' \in [Slots -> EMPTY .. INGAME]
        /\ session' \in [Slots -> 0 .. MaxSessions]
    BY <2>1, SetOnType DEF IInv, TypeOK, Leave
  <2> QED
    BY <2>2, <2>3, <2>4, <2>5 DEF IInv, TypeOK, Leave
<1>2. ASSUME NEW s \in Slots
      PROVE  /\ client'[s] = EMPTY <=> conn'[s] = "offline"
             /\ player'[s] # None <=> client'[s] >= READY
  <2>1. /\ client[s] = EMPTY <=> conn[s] = "offline"
        /\ player[s] # None <=> client[s] >= READY
        /\ client[s] \in EMPTY .. INGAME
    BY DEF IInv, LayersAgree, TypeOK
  <2>2. /\ client'[s] = IF s \in D THEN EMPTY ELSE client[s]
        /\ player'[s] = IF s \in D /\ client[s] >= READY THEN None ELSE player[s]
    BY DEF Leave, SetOn
  <2>3. conn'[s] = "offline" <=> conn[s] = "offline" \/ s \in D
    OBVIOUS
  <2>4. CASE s \in D
    BY <2>1, <2>2, <2>3, <2>4
  <2>5. CASE s \notin D
    BY <2>1, <2>2, <2>3, <2>5
  <2> QED
    BY <2>4, <2>5
<1>3. InUse' /\ Admitted' /\ StateKept'
  BY DEF IInv, TypeOK, InUse, Admitted, StateKept, Leave, SetOn
<1>5. AuthedIsOwn'
  BY DEF IInv, TypeOK, AuthedIsOwn, Leave, SetOn
<1>4. CodeIsProtected'
  BY DEF IInv, TypeOK, LayersAgree, CodeIsProtected, Leave, SetOn
<1> QED
  BY <1>1, <1>2, <1>3, <1>4, <1>5 DEF IInv, LayersAgree


LEMMA DropKeepsIInv ==
    ASSUME IInv, NEW D \in SUBSET Slots,
           NEW late \in SUBSET {s \in D : conn[s] # "offline"}, Drop(D, late),
           password' \in BOOLEAN, running' \in BOOLEAN, maxPerIp' = maxPerIp
    PROVE  IInv'
<1>1. conn' \in [Slots -> {"offline", "online", "error"}]
  BY SetOnType DEF Drop, IInv, TypeOK
<1>2. situation' \in [Slots -> BOOLEAN]
  BY SetOnType DEF Drop, IInv, TypeOK
<1>3. \A s \in Slots : conn'[s] = "offline" <=> conn[s] = "offline" \/ s \in D
  BY DEF Drop, SetOn
<1>4. Leave(D, late)
  BY DEF Drop
<1> QED
  BY <1>1, <1>2, <1>3, <1>4, LeaveKeepsIInv

LEMMA BehindOwn ==
    ASSUME NEW s \in Slots
    PROVE  Behind(s) \subseteq SUBSET {t \in {s} : conn[t] # "offline"}
BY DEF Behind

LEMMA KickKeepsIInv == ASSUME IInv, NEW s \in Slots, Kick(s) PROVE IInv'
<1>1. PICK late \in Behind(s) : Drop({s}, late)
  BY DEF Kick
<1>2. late \in SUBSET {t \in {s} : conn[t] # "offline"}
  BY <1>1, BehindOwn
<1> QED
  BY <1>1, <1>2, DropKeepsIInv DEF Kick, IInv, TypeOK

LEMMA ShutdownKeepsIInv == ASSUME IInv, Shutdown PROVE IInv'
<1> DEFINE D == {s \in Slots : client[s] # EMPTY}
<1>1. D \in SUBSET Slots /\ Drop(D, {})
  BY DEF Shutdown
<1>2. password' \in BOOLEAN /\ running' \in BOOLEAN /\ maxPerIp' = maxPerIp
  BY Zenon DEF Shutdown, IInv, TypeOK
<1>3. {} \in SUBSET {s \in D : conn[s] # "offline"}
  OBVIOUS
<1> HIDE DEF D
<1> QED
  BY <1>1, <1>2, <1>3, DropKeepsIInv

LEMMA CloseKeepsIInv == ASSUME IInv, NEW s \in Slots, Close(s) PROVE IInv'
<1> USE DEF Close, net, server, history
<1>1. TypeOK'
  BY DEF IInv, TypeOK
<1>2. LayersAgree'
  BY DEF IInv, TypeOK, LayersAgree
<1>3. InUse' /\ Admitted' /\ AuthedIsOwn' /\ StateKept' /\ CodeIsProtected'
  BY DEF IInv, InUse, Admitted, AuthedIsOwn, StateKept, CodeIsProtected
<1> QED
  BY <1>1, <1>2, <1>3 DEF IInv

LEMMA UpdateKeepsIInv == ASSUME IInv, NEW T \in SUBSET Slots, Update(T) PROVE IInv'
<1> DEFINE failed == {s \in Slots : \/ conn[s] = "error"
                                    \/ conn[s] = "online" /\ s \in T}
           gone == {s \in failed : ~ (protected[s] /\ Situation(T)[s])}
<1>1. gone \in SUBSET Slots
  OBVIOUS
<1>2. /\ conn' = SetOn(SetOn(conn, failed, "error"), gone, "offline")
      /\ situation' = SetOn(Situation(T), gone, FALSE)
      /\ Leave(gone, {}) /\ UNCHANGED config
  BY DEF Update
<1>3. \A s \in Slots : s \in failed => conn[s] # "offline"
  OBVIOUS
<1> HIDE DEF gone, failed
<1>4. conn' \in [Slots -> {"offline", "online", "error"}]
  BY <1>2, SetOnType DEF IInv, TypeOK
<1>5. situation' \in [Slots -> BOOLEAN]
  <2>1. Situation(T) \in [Slots -> BOOLEAN]
    BY Zenon DEF Situation
  <2> QED
    BY <1>2, <2>1, SetOnType
<1>6. \A s \in Slots : conn'[s] = "offline" <=> conn[s] = "offline" \/ s \in gone
  BY <1>2, <1>3 DEF SetOn
<1>7. {} \in SUBSET {s \in gone : conn[s] # "offline"}
  OBVIOUS
<1> QED
  BY <1>1, <1>2, <1>4, <1>5, <1>6, <1>7, LeaveKeepsIInv DEF IInv, TypeOK

LEMMA AcceptKeepsIInv ==
    ASSUME IInv, NEW a \in Addrs, NEW state \in {PREAUTH, CONNECTING}, TryAcceptClient(a, state)
    PROVE  IInv'
<1> USE SlotsAssumption
<1> DEFINE s == Min(Free)
<1>1. s \in Free
  BY FirstSlot DEF Free, TryAcceptClient
<1>2. s \in Slots /\ conn[s] = "offline" /\ client[s] = EMPTY /\ player[s] = None
  BY <1>1 DEF Free, IInv, LayersAgree
<1>3. sessions + 1 \in 1 .. MaxSessions
  BY DEF TryAcceptClient, IInv, TypeOK
<1>4. /\ conn' = [conn EXCEPT ![s] = "online"]
      /\ addr' = [addr EXCEPT ![s] = a]
      /\ protected' = [protected EXCEPT ![s] = FALSE]
      /\ situation' = [situation EXCEPT ![s] = FALSE]
      /\ client' = [client EXCEPT ![s] = state]
      /\ authed' = [authed EXCEPT ![s] = None]
      /\ session' = [session EXCEPT ![s] = sessions + 1]
      /\ admitted' = [admitted EXCEPT ![s] = state = CONNECTING]
      /\ sessions' = sessions + 1
      /\ UNCHANGED <<persist, config, player, due>>
  BY DEF TryAcceptClient, NewClient
<1> HIDE DEF s
<1>5. admitted' \in [Slots -> BOOLEAN] /\ (state = CONNECTING => admitted'[s])
  <2>1. (state = CONNECTING) \in BOOLEAN
    BY Zenon
  <2> QED
    BY <1>2, <1>4, <2>1 DEF IInv, TypeOK
<1>6. TypeOK'
  BY <1>2, <1>3, <1>4, <1>5 DEF IInv, TypeOK
<1>7. LayersAgree'
  BY <1>2, <1>4 DEF IInv, TypeOK, LayersAgree
<1>8. InUse' /\ AuthedIsOwn' /\ StateKept' /\ CodeIsProtected'
  BY <1>2, <1>3, <1>4 DEF IInv, TypeOK, InUse, AuthedIsOwn, StateKept, CodeIsProtected
<1>9. Admitted'
  BY <1>2, <1>4, <1>5 DEF IInv, TypeOK, Admitted
<1> QED
  BY <1>6, <1>7, <1>8, <1>9 DEF IInv

LEMMA RejoinKeepsIInv == ASSUME IInv, NEW s \in Slots, Rejoin(s) PROVE IInv'
<1> USE SlotsAssumption DEF Rejoin, net
<1>1. sessions + 1 \in 1 .. MaxSessions
  BY DEF IInv, TypeOK
<1>2. TypeOK'
  BY <1>1 DEF IInv, TypeOK
<1>3. LayersAgree' /\ Admitted' /\ StateKept' /\ CodeIsProtected'
  BY DEF IInv, LayersAgree, Admitted, StateKept, CodeIsProtected
<1>4. InUse' /\ AuthedIsOwn'
  BY <1>1 DEF IInv, TypeOK, InUse, AuthedIsOwn
<1> QED
  BY <1>2, <1>3, <1>4 DEF IInv

\* Messages that change no more than the state of the client and whether he has been let in.
LEMMA GoesKeepsIInv ==
    ASSUME IInv, NEW s \in Slots, NEW state \in PREAUTH .. INGAME, Goes(s, state),
           client[s] # EMPTY, client[s] >= READY <=> state >= READY,
           state >= CONNECTING => admitted'[s],
           admitted' \in [Slots -> BOOLEAN], \A t \in Slots \ {s} : admitted'[t] = admitted[t],
           UNCHANGED <<net, authed, persist, config, player, session, sessions, due>>
    PROVE  IInv'
<1> USE DEF Goes, net
<1>1. TypeOK'
  <2>1. client' \in [Slots -> EMPTY .. INGAME]
    BY DEF IInv, TypeOK
  <2> QED
    BY <2>1, Zenon DEF IInv, TypeOK
<1>2. LayersAgree'
  BY DEF IInv, TypeOK, LayersAgree
<1>3. InUse' /\ Admitted'
  BY DEF IInv, TypeOK, InUse, Admitted
<1>4. AuthedIsOwn' /\ StateKept' /\ CodeIsProtected'
  BY DEF IInv, AuthedIsOwn, StateKept, CodeIsProtected
<1> QED
  BY <1>1, <1>2, <1>3, <1>4 DEF IInv

LEMMA ReadyKeepsIInv == ASSUME IInv, NEW s \in Slots, Ready(s) PROVE IInv'
<1> DEFINE p == [owner |-> session[s], ready |-> FALSE, code |-> NoCode]
<1>1. client[s] = CONNECTING /\ session[s] \in 1 .. MaxSessions
  BY SlotsAssumption DEF Ready, IInv, TypeOK, InUse
<1>2. p \in Player /\ p.code = NoCode
  BY <1>1 DEF Player
<1>3. p # None
  BY <1>2, SlotsAssumption
<1>4. /\ client' = [client EXCEPT ![s] = READY]
      /\ persist' = [persist EXCEPT ![s] = None]
      /\ due' = [due EXCEPT ![s] = None]
      /\ player' = [player EXCEPT ![s] = p]
      /\ UNCHANGED <<conn, addr, protected, situation, authed, config, session,
                     sessions, admitted>>
  BY DEF Ready, Goes, net
<1> HIDE DEF p
<1>5. TypeOK'
  BY <1>2, <1>4 DEF IInv, TypeOK
<1>6. LayersAgree'
  BY <1>1, <1>3, <1>4 DEF IInv, TypeOK, LayersAgree
<1>7. InUse' /\ Admitted' /\ AuthedIsOwn'
  BY <1>1, <1>4 DEF IInv, TypeOK, InUse, Admitted, AuthedIsOwn
<1>8. StateKept' /\ CodeIsProtected'
  BY <1>2, <1>4 DEF IInv, TypeOK, StateKept, CodeIsProtected
<1> QED
  BY <1>5, <1>6, <1>7, <1>8 DEF IInv

LEMMA StartInfoKeepsIInv == ASSUME IInv, NEW s \in Slots, StartInfo(s) PROVE IInv'
<1> USE SlotsAssumption
<1> DEFINE p == [player[s] EXCEPT !.ready = TRUE]
<1>1. client[s] >= READY /\ player[s] \in Player
  BY DEF StartInfo, IInv, TypeOK, LayersAgree
<1>2. p \in Player /\ p.code = player[s].code
  BY <1>1 DEF Player
<1>3. /\ player' = [player EXCEPT ![s] = p]
      /\ UNCHANGED <<conn, addr, protected, situation, client, authed, persist, config,
                     session, sessions, admitted, due>>
  BY DEF StartInfo, net, server, history
<1>4. p # None /\ player[s] # None
  BY <1>1, <1>2
<1> HIDE DEF p
<1>5. player' \in [Slots -> Player \union {None}]
  BY <1>2, <1>3 DEF IInv, TypeOK
<1>6. TypeOK'
  BY <1>3, <1>5, Zenon DEF IInv, TypeOK
<1>7. LayersAgree'
  BY <1>3, <1>4 DEF IInv, TypeOK, LayersAgree
<1>8. InUse' /\ Admitted' /\ AuthedIsOwn' /\ StateKept'
  BY <1>3 DEF IInv, InUse, Admitted, AuthedIsOwn, StateKept
<1>9. CodeIsProtected'
  BY <1>2, <1>3, <1>4 DEF IInv, TypeOK, CodeIsProtected
<1> QED
  BY <1>6, <1>7, <1>8, <1>9 DEF IInv

LEMMA RconAuthKeepsIInv == ASSUME IInv, NEW s \in Slots, RconAuth(s) PROVE IInv'
<1> USE DEF RconAuth, Receives, net, history
<1>1. session[s] \in 1 .. MaxSessions
  BY SlotsAssumption DEF IInv, TypeOK, LayersAgree, InUse
<1>2. authed' \in [Slots -> 1 .. MaxSessions \union {None}]
  BY <1>1 DEF IInv, TypeOK
<1>3. TypeOK'
  BY <1>2, Zenon DEF IInv, TypeOK
<1>4. AuthedIsOwn'
  BY DEF IInv, TypeOK, AuthedIsOwn
<1>5. LayersAgree' /\ InUse' /\ Admitted' /\ StateKept' /\ CodeIsProtected'
  BY DEF IInv, LayersAgree, InUse, Admitted, StateKept, CodeIsProtected
<1> QED
  BY <1>3, <1>4, <1>5 DEF IInv

\* The takeover: the connection and the handshake of s move to i.
LEMMA SetTimedOutKeepsIInv ==
    ASSUME IInv, NEW s \in Slots, NEW i \in Slots \ {s}, SetTimedOut(i, s),
           conn[s] = "online", client[s] = INGAME, conn[i] = "error"
    PROVE  IInv'
<1> USE SlotsAssumption DEF SetTimedOut
<1>1. client[i] # EMPTY /\ admitted[s] /\ session[s] # 0
  BY DEF IInv, LayersAgree, Admitted, InUse
<1> PICK rights \in {None, session[s]} : authed' = [authed EXCEPT ![i] = None, ![s] = rights]
  OBVIOUS
<1>11. rights \in 1 .. MaxSessions \union {None}
  BY <1>1 DEF IInv, TypeOK
<1>2. conn' \in [Slots -> {"offline", "online", "error"}] /\ client' \in [Slots -> EMPTY .. INGAME]
  BY DEF IInv, TypeOK
<1>3. addr' \in [Slots -> Addrs \union {None}] /\ authed' \in [Slots -> 1 .. MaxSessions \union {None}]
  BY <1>11 DEF IInv, TypeOK
<1>4. protected' \in [Slots -> BOOLEAN] /\ situation' \in [Slots -> BOOLEAN]
  BY DEF IInv, TypeOK
<1>5. player' \in [Slots -> Player \union {None}] /\ due' \in [Slots -> 1 .. MaxSessions \union {None}]
  BY DEF IInv, TypeOK
<1>6. session' \in [Slots -> 0 .. MaxSessions] /\ admitted' \in [Slots -> BOOLEAN]
  BY DEF IInv, TypeOK
<1>7. TypeOK'
  BY <1>2, <1>3, <1>4, <1>5, <1>6, Zenon DEF IInv, TypeOK
<1>8. LayersAgree'
  BY <1>1 DEF IInv, TypeOK, LayersAgree
<1>9. InUse' /\ Admitted' /\ AuthedIsOwn'
  BY <1>1 DEF IInv, TypeOK, InUse, Admitted, AuthedIsOwn
<1>10. StateKept' /\ CodeIsProtected'
  BY DEF IInv, TypeOK, StateKept, CodeIsProtected
<1> QED
  BY <1>7, <1>8, <1>9, <1>10 DEF IInv

LEMMA TimeoutKeepsIInv ==
    ASSUME IInv, NEW s \in Slots, NEW given \in Codes \union {NoCode}, TimeoutCommand(s, given)
    PROVE  IInv'
<1> USE SlotsAssumption
<1> DEFINE wanted == IF given = NoCode THEN player[s].code ELSE given
           ended == Ended(s, wanted)
           p == [player[s] EXCEPT !.code = given]
<1>1. Receives(s) /\ client[s] = INGAME
  BY DEF TimeoutCommand
<1>2. CASE ended # {} /\ SetTimedOut(Min(ended), s)
  <2>1. Min(ended) \in ended
    <3>1. ended \in SUBSET Slots
      BY DEF Ended
    <3> QED
      BY <3>1, <1>2, FirstSlot
  <2>2. Min(ended) \in Slots \ {s} /\ conn[Min(ended)] = "error"
    BY <2>1 DEF Ended
  <2> QED
    BY <1>1, <1>2, <2>2, SetTimedOutKeepsIInv DEF Receives
<1>3. CASE /\ protected' = [protected EXCEPT ![s] = TRUE]
           /\ player' = [player EXCEPT ![s].code = given]
           /\ UNCHANGED <<conn, addr, situation, server, history>>
  <2> USE <1>3 DEF server, history
  <2>1. player[s] \in Player
    BY <1>1 DEF IInv, TypeOK, LayersAgree
  <2>2. p \in Player /\ p # None /\ player[s] # None
    BY <2>1 DEF Player
  <2>3. player' = [player EXCEPT ![s] = p]
    OBVIOUS
  <2> HIDE DEF p
  <2>4. player' \in [Slots -> Player \union {None}]
    BY <2>2, <2>3 DEF IInv, TypeOK
  <2>5. protected' \in [Slots -> BOOLEAN]
    BY DEF IInv, TypeOK
  <2>6. TypeOK'
    BY <2>4, <2>5, Zenon DEF IInv, TypeOK
  <2>7. LayersAgree'
    BY <2>2, <2>3 DEF IInv, TypeOK, LayersAgree
  <2>8. CodeIsProtected'
    BY <2>3 DEF IInv, TypeOK, CodeIsProtected
  <2>9. InUse' /\ Admitted' /\ AuthedIsOwn' /\ StateKept'
    BY DEF IInv, InUse, Admitted, AuthedIsOwn, StateKept
  <2> QED
    BY <2>6, <2>7, <2>8, <2>9 DEF IInv
<1> QED
  BY <1>2, <1>3 DEF TimeoutCommand

LEMMA MapReloadKeepsIInv == ASSUME IInv, MapReload PROVE IInv'
<1> USE SlotsAssumption DEF MapReload, net, Restarted, Persisted
<1>1. \A s \in Slots : client[s] = INGAME => player[s] \in Player /\ player[s].owner \in 1 .. MaxSessions
  BY DEF IInv, TypeOK, LayersAgree, Player
<1>2. /\ persist' \in [Slots -> 1 .. MaxSessions \union {None}]
      /\ due' \in [Slots -> 1 .. MaxSessions \union {None}]
  BY <1>1 DEF IInv, TypeOK
<1>3. player' \in [Slots -> Player \union {None}]
  OBVIOUS
<1>4. client' \in [Slots -> EMPTY .. INGAME]
  <2>1. CONNECTING \in EMPTY .. INGAME
    OBVIOUS
  <2> QED
    BY <2>1, SetOnType DEF IInv, TypeOK
<1>5. TypeOK'
  BY <1>2, <1>3, <1>4, Zenon DEF IInv, TypeOK
<1>6. \A s \in Slots : client'[s] = IF client[s] > AUTH THEN CONNECTING ELSE client[s]
  BY DEF SetOn
<1>7. LayersAgree'
  BY <1>6 DEF IInv, TypeOK, LayersAgree
<1>8. InUse' /\ Admitted' /\ AuthedIsOwn'
  BY <1>6 DEF IInv, TypeOK, InUse, Admitted, AuthedIsOwn
<1>9. StateKept' /\ CodeIsProtected'
  BY DEF IInv, StateKept, CodeIsProtected
<1> QED
  BY <1>5, <1>7, <1>8, <1>9 DEF IInv

LEMMA SetPasswordKeepsIInv == ASSUME IInv, SetPassword PROVE IInv'
<1> USE DEF SetPassword, net, history
<1>1. TypeOK'
  BY Zenon DEF IInv, TypeOK
<1>2. LayersAgree' /\ InUse' /\ Admitted' /\ AuthedIsOwn'
  BY DEF IInv, LayersAgree, InUse, Admitted, AuthedIsOwn
<1>3. StateKept' /\ CodeIsProtected'
  BY DEF IInv, StateKept, CodeIsProtected
<1> QED
  BY <1>1, <1>2, <1>3 DEF IInv

LEMMA SetMaxPerIpKeepsIInv == ASSUME IInv, NEW n \in Limits, SetMaxPerIp(n) PROVE IInv'
<1> USE DEF SetMaxPerIp, net, history
<1>1. TypeOK'
  BY Zenon DEF IInv, TypeOK
<1>2. LayersAgree' /\ InUse' /\ Admitted' /\ AuthedIsOwn'
  BY DEF IInv, LayersAgree, InUse, Admitted, AuthedIsOwn
<1>3. StateKept' /\ CodeIsProtected'
  BY DEF IInv, StateKept, CodeIsProtected
<1> QED
  BY <1>1, <1>2, <1>3 DEF IInv

LEMMA MessageKeepsIInv == ASSUME IInv, NEW s \in Slots, Message(s) PROVE IInv'
<1>1. CASE ClientVer(s)
  <2>1. admitted' = admitted /\ admitted' \in [Slots -> BOOLEAN] /\ client[s] = PREAUTH
    BY <1>1 DEF ClientVer, history, IInv, TypeOK
  <2> QED
    BY <1>1, <2>1, GoesKeepsIInv DEF ClientVer, history
<1>2. CASE \E good \in BOOLEAN : Info(s, good)
  <2>1. /\ client[s] \in {PREAUTH, AUTH} /\ Goes(s, CONNECTING)
        /\ admitted' = [admitted EXCEPT ![s] = TRUE]
        /\ UNCHANGED <<net, authed, persist, config, player, session, sessions, due>>
    BY <1>2 DEF Info
  <2>2. /\ admitted' \in [Slots -> BOOLEAN] /\ admitted'[s]
        /\ \A t \in Slots \ {s} : admitted'[t] = admitted[t]
    BY <2>1 DEF IInv, TypeOK
  <2>3. /\ client[s] # EMPTY /\ CONNECTING \in PREAUTH .. INGAME
        /\ client[s] >= READY <=> CONNECTING >= READY
    BY <2>1
  <2> QED
    BY <2>1, <2>2, <2>3, GoesKeepsIInv
<1>3. CASE InfoRefused(s)
  <2>1. PICK late \in Behind(s) : Drop({s}, late)
    BY <1>3 DEF InfoRefused
  <2>2. late \in SUBSET {t \in {s} : conn[t] # "offline"}
    BY <2>1, BehindOwn
  <2> QED
    BY <1>3, <2>1, <2>2, DropKeepsIInv DEF InfoRefused, IInv, TypeOK
<1>4. CASE EnterGame(s)
  <2>1. /\ admitted' = admitted /\ admitted' \in [Slots -> BOOLEAN]
        /\ client[s] = READY /\ admitted[s]
    BY <1>4 DEF EnterGame, history, IInv, TypeOK, Admitted
  <2> QED
    BY <1>4, <2>1, GoesKeepsIInv DEF EnterGame, history
<1> QED
  BY <1>1, <1>2, <1>3, <1>4, ReadyKeepsIInv, StartInfoKeepsIInv, RconAuthKeepsIInv,
     TimeoutKeepsIInv DEF Message

LEMMA NextKeepsIInv == IInv /\ [Next]_vars => IInv'
<1> SUFFICES ASSUME IInv, [Next]_vars PROVE IInv'
  OBVIOUS
<1>1. CASE \E a \in Addrs : Accept(a) \/ AcceptVanilla(a)
  BY <1>1, AcceptKeepsIInv DEF Accept, AcceptVanilla
<1>2. CASE \E s \in Slots : Rejoin(s) \/ Message(s) \/ Close(s) \/ Kick(s)
  BY <1>2, RejoinKeepsIInv, MessageKeepsIInv, CloseKeepsIInv, KickKeepsIInv
<1>3. CASE \E T \in SUBSET Slots : Update(T)
  BY <1>3, UpdateKeepsIInv
<1>4. CASE MapReload \/ SetPassword \/ Shutdown
  BY <1>4, MapReloadKeepsIInv, SetPasswordKeepsIInv, ShutdownKeepsIInv
<1>5. CASE UNCHANGED vars
  <2> USE <1>5 DEF vars, net, server, history
  <2>1. TypeOK'
    BY Zenon DEF IInv, TypeOK
  <2>2. LayersAgree' /\ InUse' /\ Admitted' /\ AuthedIsOwn'
    BY DEF IInv, LayersAgree, InUse, Admitted, AuthedIsOwn
  <2>3. StateKept' /\ CodeIsProtected'
    BY DEF IInv, StateKept, CodeIsProtected
  <2> QED
    BY <2>1, <2>2, <2>3 DEF IInv
<1>6. CASE \E n \in Limits : SetMaxPerIp(n)
  BY <1>6, SetMaxPerIpKeepsIInv
<1> QED
  BY <1>1, <1>2, <1>3, <1>4, <1>5, <1>6 DEF Next

LEMMA SpecIInv == Spec => []IInv
BY InitIInv, NextKeepsIInv, PTL DEF Spec

\* Type correctness.
THEOREM TypeCorrect == Spec => []TypeOK
<1>1. IInv => TypeOK
  BY DEF IInv
<1> QED
  BY <1>1, SpecIInv, PTL

\* Network layer, server and game agree on every slot: a client where there is
\* a connection, a player where the client is READY or INGAME.
THEOREM LayersCorrect == Spec => []LayersAgree
<1>1. IInv => LayersAgree
  BY DEF IInv
<1> QED
  BY <1>1, SpecIInv, PTL

\* Nobody loads the map or plays without having been let in.
THEOREM AdmissionCorrect == Spec => []Admitted
<1>1. IInv => Admitted
  BY DEF IInv
<1> QED
  BY <1>1, SpecIInv, PTL

\* The rights on the remote console of a client are those of the connection that
\* logged in, whatever a dropped client leaves in an empty slot.
THEOREM RconCorrect == Spec => []AuthedIsOwn
<1>1. IInv => AuthedIsOwn
  BY DEF IInv
<1> QED
  BY <1>1, SpecIInv, PTL

\* What was kept of a player over map changes is his when he is back.
THEOREM PersistCorrect == Spec => []StateKept
<1>1. IInv => StateKept
  BY DEF IInv
<1> QED
  BY <1>1, SpecIInv, PTL

\* A player with a timeout code is protected.
THEOREM ProtectionCorrect == Spec => []CodeIsProtected
<1>1. IInv => CodeIsProtected
  BY DEF IInv
<1> QED
  BY <1>1, SpecIInv, PTL
-----------------------------------------------------------------------------
(* How many slots an address has.                                          *)

\* The slots NumClientsWithAddr counts.
CountedFor(a) == {s \in Slots : Counted(s) /\ Ip(addr[s]) = Ip(a)}

LEMMA CountedFinite ==
    ASSUME NEW T \in SUBSET Slots
    PROVE  IsFiniteSet(T) /\ Cardinality(T) \in Nat
<1>1. IsFiniteSet(Slots)
  BY SlotsAssumption, FS_Interval DEF Slots
<1> QED
  BY <1>1, FS_Subset, FS_CardinalityType

LEMMA FewerCounted ==
    ASSUME NEW T \in SUBSET Slots, NEW U \in SUBSET T
    PROVE  Cardinality(U) <= Cardinality(T)
BY CountedFinite, FS_Subset

\* What a step may do to the connections of every address.
WithinLimit ==
    \A a \in Addrs : \/ NumClientsWithAddr(a)' <= NumClientsWithAddr(a)
                     \/ NumClientsWithAddr(a)' <= maxPerIp

\* Steps that add no connection and move none: drops, timeouts, messages.
LEMMA ShrinkKeepsLimit ==
    ASSUME AddressOnce,
           \A s \in Slots : Counted(s)' => Counted(s) /\ addr'[s] = addr[s],
           \A s \in Slots : conn'[s] = "online" => conn[s] = "online"
    PROVE  AddressOnce' /\ WithinLimit
<1>1. ASSUME NEW a \in Addrs PROVE NumClientsWithAddr(a)' <= NumClientsWithAddr(a)
  <2>1. CountedFor(a)' \subseteq CountedFor(a) /\ CountedFor(a) \subseteq Slots
    BY DEF CountedFor
  <2>2. Cardinality(CountedFor(a)') <= Cardinality(CountedFor(a))
    BY <2>1, FewerCounted
  <2> QED
    BY <2>2 DEF NumClientsWithAddr, CountedFor
<1>2. ASSUME NEW s \in Slots, NEW t \in Slots,
             conn'[s] = "online", conn'[t] = "online", addr'[s] = addr'[t]
      PROVE  s = t
  <2>1. conn[s] = "online" /\ conn[t] = "online" /\ addr[s] = addr[t]
    BY <1>2 DEF Counted
  <2> QED
    BY <2>1 DEF AddressOnce
<1> QED
  BY <1>1, <1>2 DEF AddressOnce, WithinLimit

LEMMA AcceptKeepsLimit ==
    ASSUME IInv, AddressOnce, NEW b \in Addrs, NEW state, TryAcceptClient(b, state)
    PROVE  AddressOnce' /\ WithinLimit
<1>1. PICK s \in Slots : s = Min(Free) /\ conn[s] = "offline"
  <2>1. Free \in SUBSET Slots /\ Free # {}
    BY DEF Free, TryAcceptClient
  <2>2. Min(Free) \in Free
    BY <2>1, FirstSlot
  <2> QED
    BY <2>2 DEF Free
<1>2. /\ conn' = [conn EXCEPT ![s] = "online"]
      /\ addr' = [addr EXCEPT ![s] = b]
      /\ protected' = [protected EXCEPT ![s] = FALSE]
      /\ situation' = [situation EXCEPT ![s] = FALSE]
  BY <1>1 DEF TryAcceptClient
<1>3. ~ ClientExists(b) /\ ~ LimitReached(b)
  BY DEF TryAcceptClient
<1>4. ASSUME NEW a \in Addrs
      PROVE  \/ NumClientsWithAddr(a)' <= NumClientsWithAddr(a)
             \/ NumClientsWithAddr(a)' <= maxPerIp
  <2>1. \A t \in Slots \ {s} : (Counted(t)' <=> Counted(t)) /\ addr'[t] = addr[t]
    BY <1>2 DEF Counted, IInv, TypeOK
  <2>2. Counted(s)' /\ ~ Counted(s) /\ addr'[s] = b
    <3>1. conn'[s] = "online" /\ addr'[s] = b
      BY <1>1, <1>2 DEF IInv, TypeOK
    <3> QED
      BY <1>1, <3>1 DEF Counted
  <2>3. /\ CountedFor(a) \in SUBSET Slots /\ CountedFor(a)' \in SUBSET Slots
        /\ maxPerIp \in Nat
    BY SlotsAssumption DEF CountedFor, IInv, TypeOK
  <2>4. IsFiniteSet(CountedFor(a)) /\ Cardinality(CountedFor(a)) \in Nat
    BY <2>3, CountedFinite
  <2>5. CASE Ip(b) = Ip(a)
    <3>1. CountedFor(a)' = CountedFor(a) \cup {s} /\ s \notin CountedFor(a)
      <4>1. s \notin CountedFor(a) /\ s \in CountedFor(a)'
        BY <1>1, <2>2, <2>5 DEF CountedFor
      <4>2. \A t \in Slots \ {s} : t \in CountedFor(a)' <=> t \in CountedFor(a)
        BY <2>1 DEF CountedFor
      <4> QED
        BY <2>3, <4>1, <4>2
    <3>2. Cardinality(CountedFor(a)') = Cardinality(CountedFor(a)) + 1
      BY <2>4, <3>1, FS_AddElement
    <3>3. CountedFor(b) = CountedFor(a)
      BY <2>5 DEF CountedFor
    <3>4. ~ (Cardinality(CountedFor(a)) + 1 > maxPerIp)
      BY <1>3, <3>3 DEF LimitReached, NumClientsWithAddr, CountedFor
    <3>5. Cardinality(CountedFor(a)') <= maxPerIp
      BY <2>3, <2>4, <3>2, <3>4
    <3> QED
      BY <3>5 DEF NumClientsWithAddr, CountedFor
  <2>6. CASE Ip(b) # Ip(a)
    <3>1. CountedFor(a)' = CountedFor(a)
      BY <1>1, <2>1, <2>2, <2>6 DEF CountedFor
    <3>2. Cardinality(CountedFor(a)') <= Cardinality(CountedFor(a))
      BY <2>4, <3>1
    <3> QED
      BY <3>2 DEF NumClientsWithAddr, CountedFor
  <2> QED
    BY <2>5, <2>6
<1>5. ASSUME NEW t \in Slots, NEW u \in Slots,
             conn'[t] = "online", conn'[u] = "online", addr'[t] = addr'[u]
      PROVE  t = u
  <2>1. \A v \in Slots \ {s} : conn'[v] = conn[v] /\ addr'[v] = addr[v]
    BY <1>2 DEF IInv, TypeOK
  <2>2. addr'[s] = b
    BY <1>1, <1>2 DEF IInv, TypeOK
  <2>3. \A v \in Slots \ {s} : conn'[v] = "online" => addr'[v] # b
    BY <1>3, <2>1 DEF ClientExists
  <2> QED
    BY <1>5, <2>1, <2>2, <2>3 DEF AddressOnce
<1> QED
  BY <1>4, <1>5 DEF AddressOnce, WithinLimit

LEMMA TakeoverKeepsLimit ==
    ASSUME IInv, AddressOnce, NEW s \in Slots, NEW i \in Slots \ {s}, SetTimedOut(i, s),
           conn[s] = "online", conn[i] = "error"
    PROVE  AddressOnce' /\ WithinLimit
<1>1. /\ conn'[i] = "online" /\ addr'[i] = addr[s] /\ conn'[s] = "offline"
      /\ \A t \in Slots \ {i, s} :
            /\ conn'[t] = conn[t] /\ addr'[t] = addr[t]
            /\ protected'[t] = protected[t] /\ situation'[t] = situation[t]
  BY DEF SetTimedOut, IInv, TypeOK
<1>2. /\ \A t \in Slots \ {i, s} : Counted(t)' <=> Counted(t)
      /\ ~ Counted(s)' /\ Counted(s)
  BY <1>1 DEF Counted
<1>3. ASSUME NEW a \in Addrs PROVE NumClientsWithAddr(a)' <= NumClientsWithAddr(a)
  <2> DEFINE rest == CountedFor(a) \ {s}
  <2>1. /\ CountedFor(a) \in SUBSET Slots /\ CountedFor(a)' \in SUBSET Slots
        /\ rest \in SUBSET Slots
    BY DEF CountedFor
  <2>2. /\ IsFiniteSet(CountedFor(a)) /\ Cardinality(CountedFor(a)) \in Nat
        /\ IsFiniteSet(rest) /\ Cardinality(rest) \in Nat
        /\ Cardinality(CountedFor(a)') \in Nat
    BY <2>1, CountedFinite
  <2>4. Cardinality(CountedFor(a)') <= Cardinality(CountedFor(a))
    <3>1. CASE Ip(addr[s]) = Ip(a)
      <4>1. s \in CountedFor(a) /\ CountedFor(a)' \subseteq rest \cup {i}
        BY <1>1, <1>2, <3>1 DEF CountedFor
      <4>2. Cardinality(rest) = Cardinality(CountedFor(a)) - 1
        BY <2>2, <4>1, FS_RemoveElement
      <4>3. Cardinality(rest \cup {i}) <= Cardinality(rest) + 1
        <5> HIDE DEF rest
        <5>1. CASE i \in rest
          <6>1. rest \cup {i} = rest
            BY <5>1
          <6>2. Cardinality(rest \cup {i}) = Cardinality(rest)
            BY <6>1, Zenon
          <6> QED
            BY <2>2, <6>2
        <5>2. CASE i \notin rest
          <6>1. Cardinality(rest \cup {i}) = Cardinality(rest) + 1
            BY <2>2, <5>2, FS_AddElement
          <6> QED
            BY <2>2, <6>1
        <5> QED
          BY <5>1, <5>2
      <4>4. rest \cup {i} \in SUBSET Slots
        BY <2>1
      <4>5. Cardinality(CountedFor(a)') <= Cardinality(rest \cup {i})
        BY <4>1, <4>4, FewerCounted
      <4>6. Cardinality(rest \cup {i}) \in Nat
        BY <4>4, CountedFinite
      <4> HIDE DEF rest
      <4> QED
        BY <2>2, <4>2, <4>3, <4>5, <4>6
    <3>2. CASE Ip(addr[s]) # Ip(a)
      <4>1. CountedFor(a)' \subseteq CountedFor(a)
        BY <1>1, <1>2, <3>2 DEF CountedFor
      <4> QED
        BY <2>1, <4>1, FewerCounted
    <3> QED
      BY <3>1, <3>2
  <2> QED
    BY <2>4 DEF NumClientsWithAddr, CountedFor
<1>4. ASSUME NEW t \in Slots, NEW u \in Slots,
             conn'[t] = "online", conn'[u] = "online", addr'[t] = addr'[u]
      PROVE  t = u
  BY <1>1, <1>4 DEF AddressOnce
<1> QED
  BY <1>3, <1>4 DEF AddressOnce, WithinLimit

LEMMA NextKeepsLimit == IInv /\ AddressOnce /\ [Next]_vars => AddressOnce' /\ WithinLimit
<1> SUFFICES ASSUME IInv, AddressOnce, [Next]_vars PROVE AddressOnce' /\ WithinLimit
  OBVIOUS
<1>1. CASE \E a \in Addrs : Accept(a) \/ AcceptVanilla(a)
  BY <1>1, AcceptKeepsLimit DEF Accept, AcceptVanilla
<1>2. ASSUME NEW D \in SUBSET Slots, NEW late, Drop(D, late) PROVE AddressOnce' /\ WithinLimit
  <2>1. \A s \in Slots : s \notin D => /\ conn'[s] = conn[s] /\ addr'[s] = addr[s]
                                       /\ protected'[s] = protected[s]
                                       /\ situation'[s] = situation[s]
    BY <1>2 DEF Drop, Leave, SetOn
  <2>2. \A s \in D : conn'[s] = "offline"
    BY <1>2 DEF Drop, SetOn
  <2> QED
    BY <2>1, <2>2, ShrinkKeepsLimit DEF Counted
<1>3. CASE UNCHANGED net
  BY <1>3, ShrinkKeepsLimit DEF net, Counted
<1>4. ASSUME NEW s \in Slots, Rejoin(s) \/ Message(s) \/ Close(s) \/ Kick(s)
      PROVE  AddressOnce' /\ WithinLimit
  <2>1. CASE Kick(s) \/ InfoRefused(s)
    <3>1. PICK late : Drop({s}, late)
      BY <2>1 DEF Kick, InfoRefused
    <3> QED
      BY <1>2, <3>1
  <2>2. CASE Close(s)
    <3>1. \A t \in Slots : /\ conn'[t] = IF t = s THEN "error" ELSE conn[t]
                           /\ addr'[t] = addr[t] /\ protected'[t] = protected[t]
                           /\ situation'[t] = situation[t]
      BY <2>2 DEF Close, IInv, TypeOK
    <3>2. conn[s] = "online"
      BY <2>2 DEF Close
    <3> QED
      BY <3>1, <3>2, ShrinkKeepsLimit DEF Counted
  <2>3. CASE \E c \in Codes \union {NoCode} : TimeoutCommand(s, c)
    <3>1. PICK c \in Codes \union {NoCode} : TimeoutCommand(s, c)
      BY <2>3
    <3> DEFINE wanted == IF c = NoCode THEN player[s].code ELSE c
               ended == Ended(s, wanted)
    <3>2. conn[s] = "online"
      BY <3>1 DEF TimeoutCommand, Receives
    <3>3. CASE ended # {} /\ SetTimedOut(Min(ended), s)
      <4>1. ended \in SUBSET Slots
        BY DEF Ended
      <4>2. Min(ended) \in ended
        BY <3>3, <4>1, FirstSlot
      <4>3. Min(ended) \in Slots \ {s} /\ conn[Min(ended)] = "error"
        BY <4>2 DEF Ended
      <4> QED
        BY <3>2, <3>3, <4>3, TakeoverKeepsLimit
    <3>4. CASE protected' = [protected EXCEPT ![s] = TRUE] /\ UNCHANGED <<conn, addr, situation>>
      <4>1. \A t \in Slots : t # s => protected'[t] = protected[t]
        BY <3>4 DEF IInv, TypeOK
      <4> QED
        BY <3>2, <3>4, <4>1, ShrinkKeepsLimit DEF Counted
    <3> QED
      BY <3>1, <3>3, <3>4 DEF TimeoutCommand
  <2>4. CASE \/ Rejoin(s) \/ ClientVer(s) \/ (\E good \in BOOLEAN : Info(s, good))
             \/ Ready(s) \/ StartInfo(s) \/ EnterGame(s) \/ RconAuth(s)
    <3>1. UNCHANGED net
      BY <2>4 DEF Rejoin, ClientVer, Info, Ready, StartInfo, EnterGame, RconAuth
    <3> QED
      BY <1>3, <3>1
  <2> QED
    BY <1>4, <2>1, <2>2, <2>3, <2>4 DEF Message
<1>5. ASSUME NEW T \in SUBSET Slots, Update(T) PROVE AddressOnce' /\ WithinLimit
  <2> DEFINE failed == {s \in Slots : \/ conn[s] = "error"
                                      \/ conn[s] = "online" /\ s \in T}
             gone == {s \in failed : ~ (protected[s] /\ Situation(T)[s])}
  <2>1. /\ conn' = SetOn(SetOn(conn, failed, "error"), gone, "offline")
        /\ situation' = SetOn(Situation(T), gone, FALSE)
        /\ addr' = SetOn(addr, gone, None)
        /\ protected' = SetOn(protected, gone, FALSE)
    BY <1>5 DEF Update, Leave
  <2>2. ASSUME NEW s \in Slots
        PROVE  /\ conn'[s] = IF s \in gone THEN "offline"
                             ELSE IF s \in failed THEN "error" ELSE conn[s]
               /\ s \notin gone => /\ addr'[s] = addr[s] /\ protected'[s] = protected[s]
                                   /\ situation'[s] = Situation(T)[s]
    BY <2>1 DEF SetOn
  <2>3. ASSUME NEW s \in Slots, Counted(s)'
        PROVE  Counted(s) /\ addr'[s] = addr[s]
    <3>1. s \notin gone
      BY <2>2, <2>3 DEF Counted
    <3>2. Situation(T)[s] => conn[s] = "online" \/ (conn[s] = "error" /\ situation[s])
      BY DEF Situation
    <3>3. Counted(s)
      BY <2>2, <2>3, <3>1, <3>2 DEF Counted
    <3> QED
      BY <2>2, <3>1, <3>3
  <2>4. ASSUME NEW s \in Slots, conn'[s] = "online" PROVE conn[s] = "online"
    BY <2>2, <2>4
  <2> QED
    BY <2>3, <2>4, ShrinkKeepsLimit
<1>6. CASE Shutdown
  BY <1>2, <1>6 DEF Shutdown
<1>7. CASE MapReload \/ SetPassword \/ (\E n \in Limits : SetMaxPerIp(n)) \/ UNCHANGED vars
  BY <1>3, <1>7 DEF MapReload, SetPassword, SetMaxPerIp, vars
<1> QED
  BY <1>1, <1>4, <1>5, <1>6, <1>7 DEF Next

LEMMA SpecAddressOnce == Spec => [](IInv /\ AddressOnce)
<1>1. Init => AddressOnce
  BY DEF Init, AddressOnce
<1> QED
  BY <1>1, SpecIInv, NextKeepsLimit, PTL DEF Spec

\* No two connections share an address and port.
THEOREM AddressesCorrect == Spec => []AddressOnce
BY SpecAddressOnce, PTL

\* No step takes an address above the sv_max_clients_per_ip in force, or leaves
\* two connections with one address and port.
THEOREM LimitCorrect == Spec => AddressLimit
<1>1. IInv /\ AddressOnce /\ [Next]_vars => [AddressOnce' /\ WithinLimit]_vars
  BY NextKeepsLimit
<1>2. Spec => [][AddressOnce' /\ WithinLimit]_vars
  BY <1>1, SpecAddressOnce, PTL DEF Spec
<1> QED
  BY <1>2, PTL DEF AddressLimit, WithinLimit
=============================================================================

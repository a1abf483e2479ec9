------------------------------ MODULE Register ------------------------------
(***************************************************************************)
(* Registration at the master server: CRegister, its CProtocols and the    *)
(* jobs they give to the job pool of the engine (CJobPool).  Every         *)
(* protocol (0.6 and 0.7, over IPv4 and IPv6) registers on its own; they   *)
(* share the serial of the latest server info, so that only one of them    *)
(* needs to send it.  The main thread runs Update, OnNewInfo, OnConfig-    *)
(* Change, OnPacket and OnShutdown; worker threads run the requests, which *)
(* may end in any order.  The master server is not part of this program:   *)
(* it is modelled by the answers the code expects from it.                 *)
(*                                                                         *)
(* Time is abstract: a timer is over or not.  The numbers of the requests  *)
(* of a protocol are only compared, and counted here from the latest       *)
(* response: after is m_NumTotalRequests - 1 - m_LatestResponseIndex, and  *)
(* the age of a request is m_Index - m_LatestResponseIndex, or 0 when a    *)
(* later request has been answered.                                        *)
(***************************************************************************)
EXTENDS Integers, Sequences, FiniteSets, SequencesExt, FiniteSetsExt

CONSTANTS Protocol,    \* the protocols, as numbers: they are served in order
          Settings,    \* values of sv_register: sets of protocols
          Initial,     \* its value when the server starts
          Threads,     \* threads of the job pool
          MaxJobs,     \* bound: jobs that are not done
          MaxSerial,   \* bound: changes of the server info
          MaxChanges,  \* bound: changes of sv_register
          MaxFaults    \* bound: failed requests, lost and repeated
                       \* challenges, restarts of the master server

ASSUME RegisterAssumption ==
    /\ Protocol \subseteq Nat /\ IsFiniteSet(Protocol)
    /\ Settings \subseteq SUBSET Protocol
    /\ Initial \subseteq Protocol
    /\ Threads \in Nat \ {0} /\ MaxJobs \in Nat /\ MaxSerial \in Nat
    /\ MaxChanges \in Nat /\ MaxFaults \in Nat

VARIABLES
    running,     \* CServer::Run has not ended
    gotUpdate,   \* m_GotFirstUpdateCall
    enabled,     \* m_aProtocolEnabled
    infoSerial,  \* CGlobal::m_InfoSerial
    latestOk,    \* CGlobal::m_LatestSuccessfulInfoSerial
    status,      \* CShared::m_LatestResponseStatus
    after,       \* requests numbered after the latest response
    newToken,    \* m_NewChallengeToken
    haveToken,   \* m_HaveChallengeToken
    timer,       \* m_NextRegister: -1, in the future or over
    jobs,        \* the jobs that are not done, in the order of Add
    known,       \* master: serial of the info it has, or -1
    listed,      \* master: protocols it lists
    challenge,   \* a challenge is on its way to the server
    taken,       \* history: greatest serial the master ever got info for
    changes, faults  \* history: for the bounds

protocols == <<enabled, status, after, newToken, haveToken, timer>>
global == <<infoSerial, latestOk>>
master == <<known, listed, challenge, taken>>
vars == <<running, gotUpdate, protocols, global, jobs, master, changes, faults>>

Answers == {"success", "need_challenge", "need_info"}

Job == [kind : {"register", "delete"}, protocol : Protocol, age : Nat,
        serial : 0 .. MaxSerial, info : BOOLEAN, token : BOOLEAN,
        at : {"running"} \union Answers]

TypeOK ==
    /\ running \in BOOLEAN
    /\ gotUpdate \in BOOLEAN
    /\ enabled \in [Protocol -> BOOLEAN]
    /\ infoSerial \in 0 .. MaxSerial /\ latestOk \in -1 .. infoSerial
    /\ status \in [Protocol -> {"none"} \union Answers]
    /\ after \in [Protocol -> Nat]
    /\ newToken \in [Protocol -> BOOLEAN] /\ haveToken \in [Protocol -> BOOLEAN]
    /\ timer \in [Protocol -> {"never", "later", "over"}]
    /\ jobs \in Seq(Job)
    /\ known \in -1 .. infoSerial /\ taken \in known .. infoSerial
    /\ listed \in [Protocol -> BOOLEAN] /\ challenge \in [Protocol -> BOOLEAN]
    /\ changes \in 0 .. MaxChanges /\ faults \in 0 .. MaxFaults

(* The configuration has been read and the server has made its info before *)
(* the main loop starts.                                                   *)
Init ==
    /\ running = TRUE
    /\ gotUpdate = FALSE
    /\ enabled = [p \in Protocol |-> p \in Initial]
    /\ infoSerial = 0 /\ latestOk = -1
    /\ status = [p \in Protocol |-> "none"]
    /\ after = [p \in Protocol |-> 0]
    /\ newToken = [p \in Protocol |-> FALSE]
    /\ haveToken = [p \in Protocol |-> FALSE]
    /\ timer = [p \in Protocol |-> "never"]
    /\ jobs = <<>>
    /\ known = -1 /\ taken = -1
    /\ listed = [p \in Protocol |-> FALSE]
    /\ challenge = [p \in Protocol |-> FALSE]
    /\ changes = 0 /\ faults = 0

-----------------------------------------------------------------------------
(* Requests.                                                               *)

(* SendRegister: the info goes along unless a request with it succeeded.   *)
RegisterJob(p, serial, token) ==
    [kind |-> "register", protocol |-> p, age |-> after[p] + 1,
     serial |-> serial, info |-> serial > latestOk, token |-> token,
     at |-> "running"]

DeleteJob(p) ==
    [kind |-> "delete", protocol |-> p, age |-> 0, serial |-> 0,
     info |-> FALSE, token |-> FALSE, at |-> "running"]

(* The protocols of S in their order: there is one such sequence.          *)
InOrder(S) == {order \in [1 .. Cardinality(S) -> S] :
                  \A i, j \in DOMAIN order : i < j => order[i] < order[j]}

(* SendRegister for the protocols of R, SendDeleteIfRegistered for the     *)
(* others, in the order of the protocols.                                  *)
Requests(order, R, serial, token) ==
    [i \in DOMAIN order |-> IF order[i] \in R
                            THEN RegisterJob(order[i], serial, token[order[i]])
                            ELSE DeleteJob(order[i])]

IsRegistered(D) == {p \in D : status[p] = "success"}

Room == Len(jobs) + Cardinality(Protocol) <= MaxJobs

(* They are added to the job pool.                                         *)
Send(R, D, serial, token) ==
    /\ Room
    /\ \E order \in InOrder(R \union IsRegistered(D)) :
          jobs' = jobs \o Requests(order, R, serial, token)
    /\ after' = [p \in Protocol |-> IF p \in R THEN after[p] + 1 ELSE after[p]]
    /\ status' = [p \in Protocol |-> IF p \in D THEN "none" ELSE status[p]]

(* CheckChallengeStatus: when the last request has been answered, a new    *)
(* challenge token or a demand for the info is acted upon at once.         *)
Urgent(p, fresh) ==
    /\ after[p] = 0
    /\ \/ status[p] = "need_challenge" /\ fresh
       \/ status[p] = "need_info"

Due(p) == timer[p] \in {"never", "over"}

(* What SendRegister leaves in the protocols of R.                         *)
Sent(R, tokens) ==
    /\ newToken' = [p \in Protocol |-> tokens[p] /\ p \notin R]
    /\ timer' = [p \in Protocol |-> IF p \in R THEN "later" ELSE timer[p]]

-----------------------------------------------------------------------------
(* The main thread.                                                        *)

(* CRegister::Update, CProtocol::Update.                                   *)
Update ==
    LET R == {p \in Protocol : enabled[p] /\ (Due(p) \/ Urgent(p, newToken[p]))}
    IN  /\ running
        /\ gotUpdate' = TRUE
        /\ Send(R, {}, infoSerial, haveToken)
        /\ Sent(R, newToken)
        /\ UNCHANGED <<running, enabled, haveToken, global, master, changes, faults>>

(* Fifteen seconds pass until the next registration of p: by then its      *)
(* requests have been answered or have failed, which they do after as long.*)
TimeOver(p) ==
    /\ running /\ timer[p] = "later"
    /\ \A i \in DOMAIN jobs : jobs[i].protocol # p
    /\ timer' = [timer EXCEPT ![p] = "over"]
    /\ UNCHANGED <<running, gotUpdate, enabled, status, after, newToken, haveToken,
                   global, jobs, master, changes, faults>>

(* OnNewInfo, with an info that differs.  Everything that is due is sent;  *)
(* if nothing is, the protocol that comes next is brought forward, to now  *)
(* unless the last registration is less than a second ago.                 *)
OnNewInfo ==
    LET waiting == {p \in Protocol : enabled[p] /\ timer[p] = "later"}
        due == {p \in Protocol : enabled[p] /\ Due(p)}
    IN  /\ running /\ infoSerial < MaxSerial
        /\ infoSerial' = infoSerial + 1
        /\ \E next \in {{}} \union {{p} : p \in waiting} :
              /\ (\E p \in due : timer[p] = "over") => next = {}
              /\ LET R == IF gotUpdate THEN due \union next ELSE {}
                 IN  /\ Send(R, {}, infoSerial', haveToken)
                     /\ Sent(R, newToken)
        /\ UNCHANGED <<running, gotUpdate, enabled, haveToken, latestOk, master,
                       changes, faults>>

(* OnConfigChange: sv_register has been set to a list of protocols.        *)
OnConfigChange(to) ==
    LET on == {p \in to : ~ enabled[p]}
        off == {p \in Protocol \ to : enabled[p]}
    IN  /\ running /\ changes < MaxChanges /\ on \union off # {}
        /\ enabled' = [p \in Protocol |-> p \in to]
        /\ IF gotUpdate
           THEN Send(on, off, infoSerial, haveToken) /\ Sent(on, newToken)
           ELSE UNCHANGED <<jobs, after, status, newToken, timer>>
        /\ changes' = changes + 1
        /\ UNCHANGED <<running, gotUpdate, haveToken, global, master, faults>>

(* OnPacket with a challenge for p, OnToken: p registers again if it is    *)
(* due or waits for the token, enabled or not.  The packet may come again. *)
OnToken(p, again) ==
    LET R == IF Due(p) \/ Urgent(p, TRUE) THEN {p} ELSE {}
        have == [haveToken EXCEPT ![p] = TRUE]
    IN  /\ running /\ challenge[p]
        /\ haveToken' = have
        /\ Send(R, {}, infoSerial, have)
        /\ Sent(R, [newToken EXCEPT ![p] = TRUE])
        /\ challenge' = [challenge EXCEPT ![p] = again]
        /\ again => faults < MaxFaults
        /\ faults' = faults + (IF again THEN 1 ELSE 0)
        /\ UNCHANGED <<running, gotUpdate, enabled, global, known, listed, taken,
                       changes>>

(* OnShutdown, at the end of CServer::Run: what is registered is taken off *)
(* the list.  The server and the engine are destroyed soon after, and with *)
(* them CRegister, its protocols and the pool: the workers do some more    *)
(* jobs until they see that the pool is shut down, the first n of them,    *)
(* and the others are dropped.  The jobs hold what they need of a protocol.*)
(* Nobody reads packets any more.                                          *)
OnShutdown(n) ==
    LET on == {p \in Protocol : enabled[p]}
        none == [p \in Protocol |-> FALSE]
    IN  /\ running /\ running' = FALSE
        /\ Room
        /\ \E order \in InOrder(IsRegistered(on)) :
              LET all == jobs \o Requests(order, {}, infoSerial, haveToken)
              IN  /\ n <= Len(all)
                  /\ \A i \in DOMAIN all : all[i].at \in Answers => i <= n
                  /\ jobs' = SubSeq(all, 1, n)
        /\ status' = [p \in Protocol |-> IF p \in on THEN "none" ELSE status[p]]
        /\ gotUpdate' = FALSE
        /\ enabled' = none /\ newToken' = none /\ haveToken' = none
        /\ timer' = [p \in Protocol |-> "never"]
        /\ challenge' = none
        /\ UNCHANGED <<after, global, known, listed, taken, changes, faults>>

-----------------------------------------------------------------------------
(* The workers.                                                            *)

(* The workers take the jobs in the order of Add, and a worker that is     *)
(* done takes the next: these are the jobs they are doing.                 *)
Running == {i \in DOMAIN jobs : i <= Threads}

(* CJob::Run without a usable answer: the request failed on the way, or    *)
(* the answer did.                                                         *)
Fail(i) ==
    /\ faults < MaxFaults
    /\ jobs' = RemoveAt(jobs, i)
    /\ faults' = faults + 1
    /\ UNCHANGED <<running, gotUpdate, protocols, global, master, changes>>

(* The serial of the info the master is believed to have, after an answer  *)
(* to a request made for some serial.                                      *)
BelievedCurrent(answer, serial) ==
    IF answer = "success" THEN infoSerial
    ELSE IF answer = "need_info" /\ serial = latestOk THEN latestOk - 1
    ELSE latestOk

BelievedForever(answer, serial) ==
    IF answer = "success" THEN Max({latestOk, serial}) ELSE latestOk

BelievedLess(answer, serial) ==
    IF answer = "success" THEN Max({latestOk, serial})
    ELSE IF answer = "need_info" THEN latestOk - 1
    ELSE latestOk

Believed(answer, serial) ==
    IF answer = "success" THEN Max({latestOk, serial})
    ELSE IF answer = "need_info" /\ serial = latestOk THEN latestOk - 1
    ELSE latestOk

(* CJob::Run with an answer: it counts unless a later request has been     *)
(* answered already.  The protocol's state and the shared serial are       *)
(* changed under two locks, one after the other; a request that the main   *)
(* thread sends between decides by the old serial whether it needs the     *)
(* info, which costs one more request.                                     *)
Answered(i) ==
    LET p == jobs[i].protocol
        age == jobs[i].age
        Younger(j) == IF j.protocol = p
                      THEN [j EXCEPT !.age = Max({0, j.age - age})] ELSE j
    IN  /\ jobs[i].at \in Answers
        /\ jobs' = RemoveAt([k \in DOMAIN jobs |-> Younger(jobs[k])], i)
        /\ after' = [after EXCEPT ![p] = @ - age]
        /\ status' = IF age > 0 THEN [status EXCEPT ![p] = jobs[i].at]
                     ELSE status
        /\ latestOk' = Believed(jobs[i].at, jobs[i].serial)
        /\ UNCHANGED <<running, gotUpdate, enabled, newToken, haveToken, timer,
                       infoSerial, master, changes, faults>>

-----------------------------------------------------------------------------
(* The master server and the network.                                      *)

(* A registration needs a challenge token, and the info if the master does *)
(* not have it.  A delete succeeds, and nobody looks at the answer.        *)
Answer(j) ==
    IF j.kind = "delete" THEN "success"
    ELSE IF ~ j.token THEN "need_challenge"
    ELSE IF ~ j.info /\ known < j.serial THEN "need_info"
    ELSE "success"

Handle(i) ==
    LET j == jobs[i]
        p == j.protocol
        ok == Answer(j) = "success"
    IN  /\ j.at = "running"
        /\ jobs' = IF j.kind = "delete" THEN RemoveAt(jobs, i)
                   ELSE [jobs EXCEPT ![i].at = Answer(j)]
        /\ listed' = [listed EXCEPT ![p] =
                         IF ok THEN j.kind = "register" ELSE @]
        /\ known' = IF ok /\ j.info THEN Max({known, j.serial}) ELSE known
        /\ taken' = Max({taken, known'})
        /\ challenge' = [challenge EXCEPT ![p] =
                            @ \/ (running /\ Answer(j) = "need_challenge")]
        /\ UNCHANGED <<running, gotUpdate, protocols, global, changes, faults>>

(* The master server starts again and knows nothing.                       *)
Forget ==
    /\ faults < MaxFaults /\ faults' = faults + 1
    /\ known' = -1 /\ listed' = [p \in Protocol |-> FALSE]
    /\ UNCHANGED <<running, gotUpdate, protocols, global, jobs, challenge, taken,
                   changes>>

LoseChallenge(p) ==
    /\ challenge[p] /\ faults < MaxFaults
    /\ challenge' = [challenge EXCEPT ![p] = FALSE]
    /\ faults' = faults + 1
    /\ UNCHANGED <<running, gotUpdate, protocols, global, jobs, known, listed,
                   taken, changes>>

Next ==
    \/ Update \/ OnNewInfo \/ Forget
    \/ \E n \in 0 .. MaxJobs : OnShutdown(n)
    \/ \E to \in Settings : OnConfigChange(to)
    \/ \E p \in Protocol : \/ TimeOver(p) \/ LoseChallenge(p)
                           \/ \E again \in BOOLEAN : OnToken(p, again)
    \/ \E i \in Running : Handle(i) \/ Answered(i) \/ Fail(i)

Spec == Init /\ [][Next]_vars

(* The main loop keeps calling Update and reading packets, time passes,    *)
(* every worker goes on, so that the oldest job gets its answer and is     *)
(* done, and faults end some time.  Update and OnToken are never disabled  *)
(* in the program; strong fairness makes up for the bound on the jobs.     *)
FairSpec ==
    /\ Spec
    /\ SF_vars(Update)
    /\ \A p \in Protocol : /\ WF_vars(TimeOver(p))
                           /\ SF_vars(OnToken(p, FALSE))
    /\ WF_vars(jobs # <<>> /\ Handle(1))
    /\ WF_vars(jobs # <<>> /\ Answered(1))

-----------------------------------------------------------------------------
(* Properties.                                                             *)

(* The server never believes that the master has an info it never got,     *)
(* whatever the order in which the requests of the protocols are answered  *)
(* and the info changes: it would stop sending it.                         *)
KnownDelivered == latestOk <= taken

(* While the server runs, every enabled protocol is listed again and again *)
(* and the master has the latest info, after lost requests, challenges and *)
(* restarts of the master.                                                 *)
Registered ==
    \A p \in Protocol :
        []<>(~ running \/ ~ enabled[p] \/ (listed[p] /\ known = infoSerial))
=============================================================================

--------------------------- MODULE RegisterProofs ---------------------------
(***************************************************************************)
(* Theorems about Register, for every set of protocols, every number of    *)
(* workers and every bound.                                                *)
(***************************************************************************)
EXTENDS Register, NumberFacts, SequenceTheorems

LEMMA MaxOfTwo ==
    ASSUME NEW a \in Int, NEW b \in Int
    PROVE  Max({a, b}) = IF a >= b THEN a ELSE b
<1>1. CASE a >= b
  <2>1. a \in {a, b} /\ \A y \in {a, b} : a >= y
    BY <1>1
  <2>2. \A x \in {a, b} : (\A y \in {a, b} : x >= y) => x = a
    BY <1>1
  <2> QED
    BY <1>1, <2>1, <2>2 DEF Max
<1>2. CASE ~ (a >= b)
  <2>1. b \in {a, b} /\ \A y \in {a, b} : b >= y
    BY <1>2
  <2>2. \A x \in {a, b} : (\A y \in {a, b} : x >= y) => x = b
    BY <1>2
  <2> QED
    BY <1>2, <2>1, <2>2 DEF Max
<1> QED
  BY <1>1, <1>2

\* Jobs of which none is for a later info than s or younger than the requests
\* of its protocol that have no answer yet, and of which those that succeeded
\* were for an info that the master has got.
Fine(q, s, late, t) ==
    /\ q \in Seq(Job)
    /\ \A i \in 1..Len(q) : /\ q[i].serial <= s
                            /\ q[i].age <= late[q[i].protocol]
                            /\ q[i].at = "success" => q[i].serial <= t

LEMMA FineConcat ==
    ASSUME NEW s, NEW late, NEW t, NEW q, NEW r, Fine(q, s, late, t), Fine(r, s, late, t)
    PROVE  Fine(q \o r, s, late, t)
<1>1. q \in Seq(Job) /\ r \in Seq(Job)
  BY DEF Fine
<1>2. /\ q \o r \in Seq(Job) /\ Len(q) \in Nat /\ Len(r) \in Nat
      /\ Len(q \o r) = Len(q) + Len(r)
      /\ \A i \in 1..(Len(q) + Len(r)) :
            (q \o r)[i] = IF i <= Len(q) THEN q[i] ELSE r[i - Len(q)]
  BY <1>1, ConcatProperties, LenProperties
<1>3. ASSUME NEW i \in 1..Len(q \o r)
      PROVE  \/ \E j \in 1..Len(q) : (q \o r)[i] = q[j]
             \/ \E j \in 1..Len(r) : (q \o r)[i] = r[j]
  <2>1. CASE i <= Len(q)
    BY <1>2, <2>1
  <2>2. CASE i > Len(q)
    <3>1. i - Len(q) \in 1..Len(r) /\ (q \o r)[i] = r[i - Len(q)]
      BY <1>2, <2>2
    <3> QED
      BY <3>1
  <2> QED
    BY <1>2, <2>1, <2>2
<1> QED
  BY <1>2, <1>3 DEF Fine

LEMMA FineSubSeq ==
    ASSUME NEW s, NEW late, NEW t, NEW q, Fine(q, s, late, t), NEW m \in Nat \ {0}, NEW n \in Nat, n <= Len(q)
    PROVE  Fine(SubSeq(q, m, n), s, late, t)
<1>1. q \in Seq(Job) /\ Len(q) \in Nat
  BY LenProperties DEF Fine
<1>2. CASE m <= n
  <2>1. /\ SubSeq(q, m, n) \in Seq(Job) /\ Len(SubSeq(q, m, n)) = n - m + 1
        /\ \A i \in 1..(n - m + 1) : SubSeq(q, m, n)[i] = q[m + i - 1]
    BY <1>1, <1>2, SubSeqProperties
  <2>2. \A i \in 1..(n - m + 1) : m + i - 1 \in 1..Len(q)
    BY <1>1, <1>2
  <2> QED
    BY <2>1, <2>2 DEF Fine
<1>3. CASE m > n
  <2>1. SubSeq(q, m, n) = << >>
    BY <1>1, <1>3, SubSeqProperties
  <2> QED
    BY <2>1 DEF Fine
<1> QED
  BY <1>2, <1>3

LEMMA FineRemove ==
    ASSUME NEW s, NEW late, NEW t, NEW q, Fine(q, s, late, t), NEW k \in 1..Len(q)
    PROVE  Fine(RemoveAt(q, k), s, late, t)
<1>1. q \in Seq(Job) /\ Len(q) \in Nat
  BY LenProperties DEF Fine
<1>2. Fine(SubSeq(q, 1, k - 1), s, late, t)
  BY <1>1, FineSubSeq
<1>3. Fine(SubSeq(q, k + 1, Len(q)), s, late, t)
  BY <1>1, FineSubSeq
<1> QED
  BY <1>2, <1>3, FineConcat DEF RemoveAt

LEMMA FineLater ==
    ASSUME NEW s \in Int, NEW s2 \in Int, NEW t \in Int, NEW t2 \in Int,
           NEW late \in [Protocol -> Nat], NEW late2 \in [Protocol -> Nat],
           s <= s2, t <= t2, \A p \in Protocol : late[p] <= late2[p],
           NEW q, Fine(q, s, late, t)
    PROVE  Fine(q, s2, late2, t2)
<1>1. q \in Seq(Job) /\ \A i \in 1..Len(q) : q[i] \in Job
  BY ElementOfSeq DEF Fine
<1>2. ASSUME NEW i \in 1..Len(q)
      PROVE  /\ q[i].serial <= s2
             /\ q[i].age <= late2[q[i].protocol]
             /\ q[i].at = "success" => q[i].serial <= t2
  <2>1. q[i].serial \in Int /\ q[i].age \in Nat /\ q[i].protocol \in Protocol
    BY <1>1 DEF Job
  <2>2. /\ q[i].serial <= s /\ q[i].age <= late[q[i].protocol]
        /\ q[i].at = "success" => q[i].serial <= t
    BY DEF Fine
  <2>3. late[q[i].protocol] \in Nat /\ late2[q[i].protocol] \in Nat
        /\ late[q[i].protocol] <= late2[q[i].protocol]
    BY <2>1
  <2> QED
    BY <2>1, <2>2, <2>3
<1> QED
  BY <1>1, <1>2 DEF Fine
-----------------------------------------------------------------------------
IInv == /\ TypeOK
        /\ Fine(jobs, infoSerial, after, taken)
        /\ KnownDelivered

LEMMA Numbers ==
    ASSUME IInv
    PROVE  /\ MaxSerial \in Nat /\ infoSerial \in 0..MaxSerial
           /\ latestOk \in Int /\ -1 <= latestOk /\ latestOk <= infoSerial
           /\ known \in Int /\ taken \in Int /\ -1 <= known /\ known <= taken /\ taken <= infoSerial
           /\ latestOk <= taken /\ after \in [Protocol -> Nat]
           /\ jobs \in Seq(Job) /\ Len(jobs) \in Nat
           /\ \A i \in DOMAIN jobs : i \in 1..Len(jobs) /\ jobs[i] \in Job
BY RegisterAssumption, LenProperties, ElementOfSeq DEF IInv, TypeOK, KnownDelivered

\* The jobs of some requests, the ages of their protocols being one higher.
LEMMA RequestsFine ==
    ASSUME IInv, NEW R \in SUBSET Protocol, NEW S \in SUBSET Protocol, NEW order \in InOrder(S),
           NEW serial \in 0..MaxSerial, NEW token \in [Protocol -> BOOLEAN],
           NEW late \in [Protocol -> Nat],
           \A p \in Protocol : late[p] = IF p \in R THEN after[p] + 1 ELSE after[p]
    PROVE  Fine(Requests(order, R, serial, token), serial, late, taken)
<1> DEFINE n == Cardinality(S)
<1>1. n \in Nat /\ order \in [1..n -> S]
  <2>1. IsFiniteSet(S)
    BY RegisterAssumption, FS_Subset
  <2> QED
    BY <2>1, FS_CardinalityType DEF InOrder
<1>2. ASSUME NEW p \in Protocol
      PROVE  /\ RegisterJob(p, serial, token[p]) \in Job /\ DeleteJob(p) \in Job
  <2>0. (serial > latestOk) \in BOOLEAN
    OBVIOUS
  <2>1. (serial > latestOk) \in BOOLEAN /\ token[p] \in BOOLEAN
    BY <2>0
  <2>2. after[p] + 1 \in Nat /\ 0 \in 0..MaxSerial /\ 0 \in Nat
    BY Numbers
  <2>3. RegisterJob(p, serial, token[p]) \in Job
    BY <2>1, <2>2 DEF RegisterJob, Job
  <2>4. DeleteJob(p) \in Job
    BY <2>2 DEF DeleteJob, Job
  <2> QED
    BY <2>3, <2>4
<1>3. ASSUME NEW p \in Protocol
      PROVE  /\ RegisterJob(p, serial, token[p]).serial = serial
             /\ RegisterJob(p, serial, token[p]).age = after[p] + 1
             /\ RegisterJob(p, serial, token[p]).protocol = p
             /\ RegisterJob(p, serial, token[p]).at = "running"
             /\ DeleteJob(p).serial = 0 /\ DeleteJob(p).age = 0
             /\ DeleteJob(p).protocol = p /\ DeleteJob(p).at = "running"
  BY DEF RegisterJob, DeleteJob
<1> DEFINE r == [i \in 1..n |-> IF order[i] \in R
                                THEN RegisterJob(order[i], serial, token[order[i]])
                                ELSE DeleteJob(order[i])]
<1>4. Requests(order, R, serial, token) = r
  BY <1>1 DEF Requests
<1>5. \A i \in 1..n : order[i] \in Protocol
  BY <1>1
<1>6. r \in [1..n -> Job]
  BY <1>2, <1>5
<1>7. r \in Seq(Job) /\ Len(r) = n
  <2> HIDE DEF n, r
  <2>1. r \in Seq(Job)
    BY <1>1, <1>6, FunctionIsSeq
  <2>2. DOMAIN r = 1..n
    BY <1>6
  <2> QED
    BY <1>1, <2>1, <2>2, LenProperties
<1>8. ASSUME NEW i \in 1..n
      PROVE  /\ r[i].serial <= serial /\ r[i].age <= late[r[i].protocol]
             /\ r[i].at # "success"
  <2>1. serial \in Nat /\ 0 <= serial
    BY Numbers
  <2>2. CASE order[i] \in R
    <3>1. r[i] = RegisterJob(order[i], serial, token[order[i]])
      BY <2>2
    <3>2. late[order[i]] = after[order[i]] + 1 /\ late[order[i]] \in Nat
      BY <1>5, <2>2
    <3> HIDE DEF r
    <3> QED
      BY <1>3, <1>5, <2>1, <3>1, <3>2
  <2>3. CASE order[i] \notin R
    <3>1. r[i] = DeleteJob(order[i])
      BY <2>3
    <3>2. late[order[i]] \in Nat
      BY <1>5
    <3> HIDE DEF r
    <3> QED
      BY <1>3, <1>5, <2>1, <3>1, <3>2
  <2> QED
    BY <2>2, <2>3
<1> HIDE DEF r
<1> QED
  BY <1>4, <1>7, <1>8 DEF Fine

\* What Send leaves, whatever the serial of the info is by then.
LEMMA SendFine ==
    ASSUME IInv, NEW R \in SUBSET Protocol, NEW D \in SUBSET Protocol,
           NEW serial \in infoSerial..MaxSerial, NEW token \in [Protocol -> BOOLEAN],
           Send(R, D, serial, token)
    PROVE  /\ Fine(jobs', serial, after', taken)
           /\ after' \in [Protocol -> Nat]
           /\ status' \in [Protocol -> {"none"} \union Answers]
<1>1. after' \in [Protocol -> Nat] /\ \A p \in Protocol : after'[p] = IF p \in R THEN after[p] + 1 ELSE after[p]
  BY Numbers DEF Send
<1>2. status' \in [Protocol -> {"none"} \union Answers]
  BY DEF Send, IInv, TypeOK
<1>3. serial \in 0..MaxSerial /\ serial \in Int /\ infoSerial <= serial /\ infoSerial \in Int /\ taken \in Int
  BY Numbers
<1>4. Fine(jobs, serial, after', taken)
  <2>1. after \in [Protocol -> Nat] /\ Fine(jobs, infoSerial, after, taken)
    BY Numbers DEF IInv
  <2>2. \A p \in Protocol : after[p] <= after'[p]
    BY <1>1, <2>1
  <2>3. taken <= taken
    BY <1>3
  <2> QED
    BY <1>1, <1>3, <2>1, <2>2, <2>3, FineLater
<1>5. PICK order \in InOrder(R \union IsRegistered(D)) : jobs' = jobs \o Requests(order, R, serial, token)
  BY DEF Send
<1>6. Fine(Requests(order, R, serial, token), serial, after', taken)
  <2>1. R \union IsRegistered(D) \in SUBSET Protocol
    BY DEF IsRegistered
  <2> QED
    BY <1>1, <1>3, <1>5, <2>1, RequestsFine
<1> QED
  BY <1>1, <1>2, <1>4, <1>5, <1>6, FineConcat
-----------------------------------------------------------------------------
(* The steps.                                                              *)

\* Steps of the main thread that send requests and leave the master alone.
LEMMA SendKeepsIInv ==
    ASSUME IInv, NEW R \in SUBSET Protocol, NEW D \in SUBSET Protocol,
           NEW serial \in infoSerial..MaxSerial, NEW token \in [Protocol -> BOOLEAN],
           Send(R, D, serial, token), infoSerial' = serial,
           NEW tokens \in [Protocol -> BOOLEAN], Sent(R, tokens),
           running' \in BOOLEAN, gotUpdate' \in BOOLEAN,
           enabled' \in [Protocol -> BOOLEAN], haveToken' \in [Protocol -> BOOLEAN],
           challenge' \in [Protocol -> BOOLEAN],
           changes' \in 0..MaxChanges, faults' \in 0..MaxFaults,
           UNCHANGED <<latestOk, known, listed, taken>>
    PROVE  IInv'
<1>1. /\ Fine(jobs', infoSerial', after', taken') /\ jobs' \in Seq(Job)
      /\ after' \in [Protocol -> Nat] /\ status' \in [Protocol -> {"none"} \union Answers]
  BY SendFine DEF Fine
<1>2. /\ infoSerial' \in 0..MaxSerial /\ latestOk' \in -1..infoSerial'
      /\ known' \in -1..infoSerial' /\ taken' \in known'..infoSerial'
      /\ latestOk' <= taken'
  BY Numbers
<1>3. newToken' \in [Protocol -> BOOLEAN]
  <2>1. \A p \in Protocol : (tokens[p] /\ p \notin R) \in BOOLEAN
    BY Zenon
  <2> QED
    BY <2>1 DEF Sent
<1>4. timer' \in [Protocol -> {"never", "later", "over"}]
  BY DEF Sent, IInv, TypeOK
<1>5. listed' \in [Protocol -> BOOLEAN]
  BY DEF IInv, TypeOK
<1>6. TypeOK'
  BY <1>1, <1>2, <1>3, <1>4, <1>5, Zenon DEF TypeOK
<1> QED
  BY <1>1, <1>2, <1>6 DEF IInv, KnownDelivered

LEMMA UpdateKeepsIInv == ASSUME IInv, Update PROVE IInv'
<1> DEFINE R == {p \in Protocol : enabled[p] /\ (Due(p) \/ Urgent(p, newToken[p]))}
<1>1. /\ Send(R, {}, infoSerial, haveToken) /\ Sent(R, newToken)
      /\ UNCHANGED <<running, enabled, haveToken, global, master, changes, faults>>
  BY DEF Update
<1>2. R \in SUBSET Protocol /\ {} \in SUBSET Protocol /\ infoSerial \in infoSerial..MaxSerial
  BY Numbers
<1>3. gotUpdate' \in BOOLEAN
  BY Zenon DEF Update
<1> HIDE DEF R
<1>4. /\ newToken \in [Protocol -> BOOLEAN] /\ haveToken \in [Protocol -> BOOLEAN]
      /\ running' \in BOOLEAN /\ enabled' \in [Protocol -> BOOLEAN]
      /\ haveToken' \in [Protocol -> BOOLEAN] /\ challenge' \in [Protocol -> BOOLEAN]
      /\ changes' \in 0..MaxChanges /\ faults' \in 0..MaxFaults
      /\ infoSerial' = infoSerial /\ UNCHANGED <<latestOk, known, listed, taken>>
  BY <1>1, Zenon DEF IInv, TypeOK, global, master
<1> QED
  BY <1>1, <1>2, <1>3, <1>4, SendKeepsIInv

LEMMA OnNewInfoKeepsIInv == ASSUME IInv, OnNewInfo PROVE IInv'
<1> DEFINE waiting == {p \in Protocol : enabled[p] /\ timer[p] = "later"}
           due == {p \in Protocol : enabled[p] /\ Due(p)}
<1>1. PICK next \in {{}} \union {{p} : p \in waiting} :
         Send(IF gotUpdate THEN due \union next ELSE {}, {}, infoSerial', haveToken)
           /\ Sent(IF gotUpdate THEN due \union next ELSE {}, newToken)
  BY DEF OnNewInfo
<1> DEFINE R == IF gotUpdate THEN due \union next ELSE {}
<1>2. R \in SUBSET Protocol /\ {} \in SUBSET Protocol
  OBVIOUS
<1>3. infoSerial' \in infoSerial..MaxSerial
  BY Numbers DEF OnNewInfo
<1>4. Send(R, {}, infoSerial', haveToken) /\ Sent(R, newToken)
  BY <1>1
<1> HIDE DEF R
<1>5. /\ newToken \in [Protocol -> BOOLEAN] /\ haveToken \in [Protocol -> BOOLEAN]
      /\ running' \in BOOLEAN /\ enabled' \in [Protocol -> BOOLEAN] /\ gotUpdate' \in BOOLEAN
      /\ haveToken' \in [Protocol -> BOOLEAN] /\ challenge' \in [Protocol -> BOOLEAN]
      /\ changes' \in 0..MaxChanges /\ faults' \in 0..MaxFaults
      /\ UNCHANGED <<latestOk, known, listed, taken>>
  BY Zenon DEF OnNewInfo, IInv, TypeOK, master
<1> QED
  BY <1>2, <1>3, <1>4, <1>5, SendKeepsIInv

LEMMA OnConfigChangeKeepsIInv == ASSUME IInv, NEW to \in Settings, OnConfigChange(to) PROVE IInv'
<1> DEFINE on == {p \in to : ~ enabled[p]}
           off == {p \in Protocol \ to : enabled[p]}
<1>0. infoSerial \in infoSerial..MaxSerial
  BY Numbers
<1>1. on \in SUBSET Protocol /\ off \in SUBSET Protocol
  <2>1. to \in SUBSET Protocol
    BY RegisterAssumption
  <2> QED
    BY <2>1
<1>2. /\ enabled' = [p \in Protocol |-> p \in to]
      /\ changes' = changes + 1 /\ changes < MaxChanges
      /\ UNCHANGED <<running, gotUpdate, haveToken, global, master, faults>>
      /\ gotUpdate => Send(on, off, infoSerial, haveToken) /\ Sent(on, newToken)
      /\ ~gotUpdate => UNCHANGED <<jobs, after, status, newToken, timer>>
  BY DEF OnConfigChange
<1>3. enabled' \in [Protocol -> BOOLEAN]
  <2>1. \A p \in Protocol : (p \in to) \in BOOLEAN
    OBVIOUS
  <2> QED
    BY <1>2, <2>1
<1>4. changes' \in 0..MaxChanges
  BY <1>2, RegisterAssumption DEF IInv, TypeOK
<1> HIDE DEF on, off
<1>5. /\ newToken \in [Protocol -> BOOLEAN] /\ haveToken \in [Protocol -> BOOLEAN]
      /\ running' \in BOOLEAN /\ gotUpdate' \in BOOLEAN
      /\ haveToken' \in [Protocol -> BOOLEAN] /\ challenge' \in [Protocol -> BOOLEAN]
      /\ faults' \in 0..MaxFaults
      /\ infoSerial' = infoSerial /\ UNCHANGED <<latestOk, known, listed, taken>>
  BY <1>2, Zenon DEF IInv, TypeOK, global, master
<1>6. CASE gotUpdate
  <2>1. {} \in SUBSET Protocol
    OBVIOUS
  <2> QED
    BY <1>0, <1>1, <1>2, <1>3, <1>4, <1>5, <1>6, SendKeepsIInv
<1>7. CASE ~gotUpdate
  <2>1. TypeOK'
    BY <1>2, <1>3, <1>4, <1>5, <1>7, Zenon DEF IInv, TypeOK
  <2> QED
    BY <1>2, <1>5, <1>7, <2>1 DEF IInv, KnownDelivered
<1> QED
  BY <1>6, <1>7

LEMMA OnTokenKeepsIInv ==
    ASSUME IInv, NEW p \in Protocol, NEW again \in BOOLEAN, OnToken(p, again)
    PROVE  IInv'
<1> DEFINE R == IF Due(p) \/ Urgent(p, TRUE) THEN {p} ELSE {}
           have == [haveToken EXCEPT ![p] = TRUE]
           tokens == [newToken EXCEPT ![p] = TRUE]
<1>1. /\ haveToken' = have /\ Send(R, {}, infoSerial, have) /\ Sent(R, tokens)
      /\ challenge' = [challenge EXCEPT ![p] = again]
      /\ again => faults < MaxFaults
      /\ faults' = faults + (IF again THEN 1 ELSE 0)
      /\ UNCHANGED <<running, gotUpdate, enabled, global, known, listed, taken, changes>>
  BY DEF OnToken
<1>0. infoSerial \in infoSerial..MaxSerial
  BY Numbers
<1>2. R \in SUBSET Protocol /\ {} \in SUBSET Protocol
  OBVIOUS
<1>3. have \in [Protocol -> BOOLEAN] /\ tokens \in [Protocol -> BOOLEAN]
  BY DEF IInv, TypeOK
<1>4. challenge' \in [Protocol -> BOOLEAN]
  BY <1>1 DEF IInv, TypeOK
<1>5. faults' \in 0..MaxFaults
  BY <1>1, RegisterAssumption DEF IInv, TypeOK
<1> HIDE DEF R, have, tokens
<1>6. /\ running' \in BOOLEAN /\ gotUpdate' \in BOOLEAN /\ enabled' \in [Protocol -> BOOLEAN]
      /\ changes' \in 0..MaxChanges
      /\ infoSerial' = infoSerial /\ UNCHANGED <<latestOk, known, listed, taken>>
  BY <1>1, Zenon DEF IInv, TypeOK, global
<1> QED
  BY <1>0, <1>1, <1>2, <1>3, <1>4, <1>5, <1>6, SendKeepsIInv

LEMMA OnShutdownKeepsIInv == ASSUME IInv, NEW n \in 0..MaxJobs, OnShutdown(n) PROVE IInv'
<1> DEFINE on == {p \in Protocol : enabled[p]}
           none == [p \in Protocol |-> FALSE]
<1>1. PICK order \in InOrder(IsRegistered(on)) :
        LET all == jobs \o Requests(order, {}, infoSerial, haveToken)
        IN  n <= Len(all) /\ jobs' = SubSeq(all, 1, n)
  BY DEF OnShutdown
<1> DEFINE all == jobs \o Requests(order, {}, infoSerial, haveToken)
<1>2. n <= Len(all) /\ jobs' = SubSeq(all, 1, n)
  BY <1>1
<1>3. Fine(all, infoSerial, after, taken)
  <2>1. infoSerial \in 0..MaxSerial /\ after \in [Protocol -> Nat] /\ {} \in SUBSET Protocol
    BY Numbers
  <2>2. IsRegistered(on) \in SUBSET Protocol
    BY DEF IsRegistered
  <2>3. haveToken \in [Protocol -> BOOLEAN]
    BY DEF IInv, TypeOK
  <2>4. \A p \in Protocol : after[p] = IF p \in {} THEN after[p] + 1 ELSE after[p]
    OBVIOUS
  <2>5. Fine(Requests(order, {}, infoSerial, haveToken), infoSerial, after, taken)
    BY <2>1, <2>2, <2>3, <2>4, RequestsFine
  <2> QED
    BY <2>5, FineConcat DEF IInv
<1> HIDE DEF all
<1>4. Fine(jobs', infoSerial, after, taken)
  BY <1>2, <1>3, FineSubSeq
<1>5. none \in [Protocol -> BOOLEAN]
  BY Zenon
<1>6. /\ running' = FALSE /\ gotUpdate' = FALSE
      /\ status' = [p \in Protocol |-> IF p \in on THEN "none" ELSE status[p]]
      /\ enabled' = none /\ newToken' = none /\ haveToken' = none /\ challenge' = none
      /\ timer' = [p \in Protocol |-> "never"]
      /\ UNCHANGED <<after, global, known, listed, taken, changes, faults>>
  BY DEF OnShutdown
<1>7. running' \in BOOLEAN /\ gotUpdate' \in BOOLEAN
  BY <1>6, Zenon
<1>8. /\ status' \in [Protocol -> {"none"} \union Answers]
      /\ timer' \in [Protocol -> {"never", "later", "over"}]
  BY <1>6 DEF IInv, TypeOK
<1>9. jobs' \in Seq(Job)
  BY <1>4 DEF Fine
<1> HIDE DEF none, on
<1>10. TypeOK'
  BY <1>5, <1>6, <1>7, <1>8, <1>9, Zenon DEF IInv, TypeOK, global
<1> QED
  BY <1>4, <1>6, <1>10 DEF IInv, KnownDelivered, global

\* Steps that change neither the jobs nor what the server and the master know.
LEMMA AsideKeepsIInv ==
    ASSUME IInv, UNCHANGED <<running, gotUpdate, enabled, status, after, newToken, haveToken,
                             global, jobs, taken, changes>>,
           timer' \in [Protocol -> {"never", "later", "over"}],
           known' \in -1..infoSerial, known' <= taken,
           listed' \in [Protocol -> BOOLEAN], challenge' \in [Protocol -> BOOLEAN],
           faults' \in 0..MaxFaults
    PROVE  IInv'
<1>1. taken' \in known'..infoSerial'
  BY Numbers DEF global
<1>2. TypeOK'
  BY <1>1, Zenon DEF IInv, TypeOK, global
<1> QED
  BY <1>2 DEF IInv, KnownDelivered, global

LEMMA OtherKeepsIInv ==
    ASSUME IInv,
           Forget \/ \E p \in Protocol : TimeOver(p) \/ LoseChallenge(p)
    PROVE  IInv'
<1>1. CASE Forget
  <2>1. known' \in -1..infoSerial /\ known' <= taken
    BY <1>1, Numbers DEF Forget
  <2>2. listed' \in [Protocol -> BOOLEAN]
    BY <1>1 DEF Forget
  <2>3. faults' \in 0..MaxFaults
    BY <1>1, RegisterAssumption DEF Forget, IInv, TypeOK
  <2>4. timer' \in [Protocol -> {"never", "later", "over"}] /\ challenge' \in [Protocol -> BOOLEAN]
    BY <1>1 DEF Forget, protocols, IInv, TypeOK
  <2> QED
    BY <1>1, <2>1, <2>2, <2>3, <2>4, AsideKeepsIInv DEF Forget, protocols
<1>2. ASSUME NEW p \in Protocol, TimeOver(p) PROVE IInv'
  <2>1. timer' \in [Protocol -> {"never", "later", "over"}]
    BY <1>2 DEF TimeOver, IInv, TypeOK
  <2>2. known' \in -1..infoSerial /\ known' <= taken
    BY <1>2, Numbers DEF TimeOver, master
  <2>3. /\ listed' \in [Protocol -> BOOLEAN] /\ challenge' \in [Protocol -> BOOLEAN]
        /\ faults' \in 0..MaxFaults
    BY <1>2 DEF TimeOver, master, IInv, TypeOK
  <2> QED
    BY <1>2, <2>1, <2>2, <2>3, AsideKeepsIInv DEF TimeOver, master
<1>3. ASSUME NEW p \in Protocol, LoseChallenge(p) PROVE IInv'
  <2>1. challenge' \in [Protocol -> BOOLEAN]
    BY <1>3 DEF LoseChallenge, IInv, TypeOK
  <2>2. known' \in -1..infoSerial /\ known' <= taken
    BY <1>3, Numbers DEF LoseChallenge
  <2>3. faults' \in 0..MaxFaults
    BY <1>3, RegisterAssumption DEF LoseChallenge, IInv, TypeOK
  <2>4. listed' \in [Protocol -> BOOLEAN] /\ timer' \in [Protocol -> {"never", "later", "over"}]
    BY <1>3 DEF LoseChallenge, protocols, IInv, TypeOK
  <2> QED
    BY <1>3, <2>1, <2>2, <2>3, <2>4, AsideKeepsIInv DEF LoseChallenge, protocols
<1> QED
  BY <1>1, <1>2, <1>3

LEMMA FailKeepsIInv == ASSUME IInv, NEW i \in Running, Fail(i) PROVE IInv'
<1>1. i \in 1..Len(jobs)
  BY Numbers DEF Running
<1>2. Fine(jobs', infoSerial, after, taken)
  BY <1>1, FineRemove DEF Fail, IInv
<1>2b. jobs' \in Seq(Job)
  BY <1>2 DEF Fine
<1>3. faults' \in 0..MaxFaults
  BY RegisterAssumption DEF Fail, IInv, TypeOK
<1>4. TypeOK'
  BY <1>2b, <1>3, Zenon DEF Fail, IInv, TypeOK, protocols, global, master
<1> QED
  BY <1>2, <1>4 DEF Fail, IInv, KnownDelivered, protocols, global, master

LEMMA AnsweredKeepsIInv == ASSUME IInv, NEW i \in Running, Answered(i) PROVE IInv'
<1> DEFINE p == jobs[i].protocol
           age == jobs[i].age
           Younger(j) == IF j.protocol = p THEN [j EXCEPT !.age = Max({0, j.age - age})] ELSE j
           y == [k \in DOMAIN jobs |-> Younger(jobs[k])]
<1>1. /\ i \in 1..Len(jobs) /\ Len(jobs) \in Nat /\ jobs \in Seq(Job) /\ DOMAIN jobs = 1..Len(jobs)
      /\ \A k \in 1..Len(jobs) : jobs[k] \in Job
  BY Numbers, LenProperties, ElementOfSeq DEF Running
<1>2. /\ after \in [Protocol -> Nat] /\ p \in Protocol /\ age \in Nat /\ age <= after[p]
  BY <1>1, Numbers DEF IInv, Fine, Job
<1>3. /\ jobs[i].at \in Answers
      /\ jobs' = RemoveAt(y, i)
      /\ after' = [after EXCEPT ![p] = @ - age]
      /\ status' = IF age > 0 THEN [status EXCEPT ![p] = jobs[i].at] ELSE status
      /\ latestOk' = Believed(jobs[i].at, jobs[i].serial)
      /\ UNCHANGED <<running, gotUpdate, enabled, newToken, haveToken, timer,
                     infoSerial, master, changes, faults>>
  BY DEF Answered
<1>4. /\ after' \in [Protocol -> Nat]
      /\ \A q \in Protocol : after'[q] = IF q = p THEN after[q] - age ELSE after[q]
  <2> HIDE DEF p, age
  <2> QED
    BY <1>2, <1>3
<1>5. ASSUME NEW k \in 1..Len(jobs)
      PROVE  /\ y[k] \in Job /\ y[k].serial = jobs[k].serial /\ y[k].at = jobs[k].at
             /\ y[k].age <= after'[y[k].protocol]
  <2> DEFINE j == jobs[k]
  <2>1. /\ j \in Job /\ j.age \in Nat /\ j.protocol \in Protocol /\ j.age <= after[j.protocol]
    BY <1>1 DEF IInv, Fine, Job
  <2>2. y[k] = Younger(j)
    BY <1>1
  <2> HIDE DEF y, j, age, p
  <2>3. CASE j.protocol = p
    <3> DEFINE m == Max({0, j.age - age})
    <3>1. m \in Nat /\ m = IF 0 >= j.age - age THEN 0 ELSE j.age - age
      BY <1>2, <2>1, MaxOfTwo
    <3>2. y[k] = [j EXCEPT !.age = m]
      BY <2>2, <2>3
    <3> HIDE DEF m
    <3>3. /\ y[k] \in Job /\ y[k].serial = j.serial /\ y[k].at = j.at /\ y[k].age = m
          /\ y[k].protocol = p
      BY <2>1, <2>3, <3>1, <3>2 DEF Job
    <3>4. m <= after'[p]
      BY <1>2, <1>4, <2>1, <2>3, <3>1
    <3> QED
      BY <3>3, <3>4 DEF j
  <2>4. CASE j.protocol # p
    <3>1. y[k] = j
      BY <2>2, <2>4
    <3> QED
      BY <1>4, <2>1, <2>4, <3>1 DEF j
  <2> QED
    BY <2>3, <2>4
<1>6. y \in [1..Len(jobs) -> Job]
  BY <1>1, <1>5
<1> HIDE DEF y
<1>7. y \in Seq(Job) /\ Len(y) = Len(jobs)
  <2>1. y \in Seq(Job)
    BY <1>1, <1>6, FunctionIsSeq
  <2> QED
    BY <1>1, <1>6, <2>1, LenProperties
<1>8. Fine(y, infoSerial, after', taken)
  BY <1>5, <1>7 DEF IInv, Fine
<1>9. Fine(jobs', infoSerial, after', taken)
  BY <1>1, <1>3, <1>7, <1>8, FineRemove
<1>10. latestOk' \in -1..infoSerial /\ latestOk' <= taken
  <2>1. jobs[i].serial \in Nat /\ jobs[i].serial <= infoSerial
    BY <1>1 DEF IInv, Fine, Job
  <2>2. jobs[i].at = "success" => jobs[i].serial <= taken
    BY <1>1 DEF IInv, Fine
  <2>3. Max({latestOk, jobs[i].serial}) = IF latestOk >= jobs[i].serial THEN latestOk ELSE jobs[i].serial
    BY <2>1, Numbers, MaxOfTwo
  <2> QED
    BY <1>3, <2>1, <2>2, <2>3, Numbers DEF Believed
<1>11. status' \in [Protocol -> {"none"} \union Answers]
  <2> HIDE DEF p, age
  <2> QED
    BY <1>2, <1>3 DEF IInv, TypeOK
<1>12. jobs' \in Seq(Job)
  BY <1>9 DEF Fine
<1>13. latestOk' \in -1..infoSerial'
  BY <1>3, <1>10
<1>14. TypeOK'
  BY <1>3, <1>4, <1>11, <1>12, <1>13, Zenon DEF IInv, TypeOK, master
<1> QED
  BY <1>3, <1>9, <1>10, <1>14 DEF IInv, KnownDelivered, master

LEMMA HandleKeepsIInv == ASSUME IInv, NEW i \in Running, Handle(i) PROVE IInv'
<1> DEFINE j == jobs[i]
           p == j.protocol
           ok == Answer(j) = "success"
<1>1. /\ i \in 1..Len(jobs) /\ Len(jobs) \in Nat /\ jobs \in Seq(Job) /\ DOMAIN jobs = 1..Len(jobs)
      /\ \A k \in 1..Len(jobs) : jobs[k] \in Job
  BY Numbers, LenProperties, ElementOfSeq DEF Running
<1>2. /\ j.at = "running"
      /\ jobs' = IF j.kind = "delete" THEN RemoveAt(jobs, i) ELSE [jobs EXCEPT ![i].at = Answer(j)]
      /\ listed' = [listed EXCEPT ![p] = IF ok THEN j.kind = "register" ELSE @]
      /\ known' = IF ok /\ j.info THEN Max({known, j.serial}) ELSE known
      /\ taken' = Max({taken, known'})
      /\ challenge' = [challenge EXCEPT ![p] = @ \/ (running /\ Answer(j) = "need_challenge")]
      /\ UNCHANGED <<running, gotUpdate, protocols, global, changes, faults>>
  BY DEF Handle
<1>3. /\ j \in Job /\ j.serial \in Nat /\ j.serial <= infoSerial /\ p \in Protocol
      /\ Answer(j) \in Answers
  BY <1>1 DEF IInv, Fine, Job, Answer, Answers
<1>4. /\ known' \in Int /\ -1 <= known' /\ known' <= infoSerial
      /\ ok /\ j.info => j.serial <= known'
      /\ known <= known'
  <2>0. j.serial \in Int /\ known \in Int
    BY <1>3, Numbers
  <2> HIDE DEF j, ok
  <2>1. Max({known, j.serial}) = IF known >= j.serial THEN known ELSE j.serial
    BY <2>0, MaxOfTwo
  <2> QED
    BY <1>2, <1>3, <2>1, Numbers
<1>5. /\ taken' \in Int /\ taken <= taken' /\ known' <= taken' /\ taken' <= infoSerial
  <2>1. Max({taken, known'}) = IF taken >= known' THEN taken ELSE known'
    BY <1>4, Numbers, MaxOfTwo
  <2> QED
    BY <1>2, <1>4, <2>1, Numbers
<1>6. Answer(j) = "success" /\ j.kind = "register" => j.serial <= taken'
  <2>1. Answer(j) = "success" /\ j.kind = "register" => j.info \/ ~ (known < j.serial)
    BY DEF Answer
  <2>2. CASE j.info /\ Answer(j) = "success"
    <3> HIDE DEF j
    <3> QED
      BY <1>3, <1>4, <1>5, <2>2
  <2>3. CASE ~ (known < j.serial)
    <3> HIDE DEF j
    <3> QED
      BY <1>3, <1>4, <1>5, <2>3, Numbers
  <2> QED
    BY <2>1, <2>2, <2>3
<1>7. Fine(jobs', infoSerial, after, taken')
  <2>1. Fine(jobs, infoSerial, after, taken')
    <3>1. /\ infoSerial \in Int /\ taken \in Int /\ after \in [Protocol -> Nat]
          /\ Fine(jobs, infoSerial, after, taken) /\ infoSerial <= infoSerial
      BY Numbers DEF IInv
    <3>2. \A q \in Protocol : after[q] <= after[q]
      BY <3>1
    <3> QED
      BY <1>5, <3>1, <3>2, FineLater
  <2>2. CASE j.kind = "delete"
    BY <1>1, <1>2, <2>1, <2>2, FineRemove
  <2>3. CASE j.kind # "delete"
    <3> DEFINE e == [j EXCEPT !.at = Answer(j)]
    <3>1. /\ e \in Job /\ e.serial = j.serial /\ e.age = j.age /\ e.protocol = j.protocol
          /\ e.at = Answer(j)
      BY <1>3 DEF Job
    <3>2. jobs' = [jobs EXCEPT ![i] = e] /\ j.kind = "register"
      BY <1>2, <1>3, <2>3 DEF Job
    <3> HIDE DEF e, j
    <3>3. jobs' \in [1..Len(jobs) -> Job] /\ jobs'[i] = e /\ \A k \in 1..Len(jobs) \ {i} : jobs'[k] = jobs[k]
      BY <1>1, <3>1, <3>2
    <3>4. jobs' \in Seq(Job)
      BY <1>1, <3>3, FunctionIsSeq
    <3>5. Len(jobs') = Len(jobs)
      BY <1>1, <3>3, <3>4, LenProperties
    <3>6. /\ e.serial <= infoSerial /\ e.age <= after[e.protocol]
          /\ e.at = "success" => e.serial <= taken'
      BY <1>1, <1>6, <2>1, <3>1, <3>2 DEF Fine, j
    <3> QED
      BY <2>1, <3>3, <3>4, <3>5, <3>6 DEF Fine
  <2> QED
    BY <2>2, <2>3
<1>8. listed' \in [Protocol -> BOOLEAN]
  <2>1. (j.kind = "register") \in BOOLEAN
    OBVIOUS
  <2>2. listed \in [Protocol -> BOOLEAN]
    BY DEF IInv, TypeOK
  <2> DEFINE v == IF ok THEN j.kind = "register" ELSE listed[p]
  <2>3. v \in BOOLEAN
    BY <1>3, <2>1, <2>2
  <2>4. listed' = [listed EXCEPT ![p] = v]
    BY <1>2
  <2> HIDE DEF v
  <2> QED
    BY <2>2, <2>3, <2>4
<1>9. challenge' \in [Protocol -> BOOLEAN]
  <2> DEFINE v == challenge[p] \/ (running /\ Answer(j) = "need_challenge")
  <2>1. v \in BOOLEAN
    OBVIOUS
  <2>2. challenge' = [challenge EXCEPT ![p] = v]
    BY <1>2
  <2> HIDE DEF v
  <2> QED
    BY <2>1, <2>2 DEF IInv, TypeOK
<1>10. /\ infoSerial' = infoSerial /\ after' = after /\ latestOk' = latestOk
  BY <1>2 DEF protocols, global
<1>11. known' \in -1..infoSerial' /\ taken' \in known'..infoSerial'
  BY <1>4, <1>5, <1>10, Numbers
<1>12. jobs' \in Seq(Job)
  BY <1>7 DEF Fine
<1> HIDE DEF j, p, ok
<1>13. TypeOK'
  BY <1>2, <1>8, <1>9, <1>11, <1>12, Zenon DEF IInv, TypeOK, protocols, global
<1>14. latestOk' <= taken'
  BY <1>5, <1>10, Numbers
<1> QED
  BY <1>7, <1>10, <1>13, <1>14 DEF IInv, KnownDelivered

LEMMA InitIInv == Init => IInv
<1> SUFFICES ASSUME Init PROVE IInv
  OBVIOUS
<1>1. running \in BOOLEAN /\ gotUpdate \in BOOLEAN
  BY Zenon DEF Init
<1>2. enabled \in [Protocol -> BOOLEAN]
  <2>1. \A p \in Protocol : (p \in Initial) \in BOOLEAN
    OBVIOUS
  <2> QED
    BY <2>1 DEF Init
<1>3. /\ newToken \in [Protocol -> BOOLEAN] /\ haveToken \in [Protocol -> BOOLEAN]
      /\ listed \in [Protocol -> BOOLEAN] /\ challenge \in [Protocol -> BOOLEAN]
  BY DEF Init
<1>4. /\ infoSerial \in 0..MaxSerial /\ latestOk \in -1..infoSerial
      /\ known \in -1..infoSerial /\ taken \in known..infoSerial
      /\ changes \in 0..MaxChanges /\ faults \in 0..MaxFaults
  BY RegisterAssumption DEF Init
<1>5. /\ status \in [Protocol -> {"none"} \union Answers] /\ after \in [Protocol -> Nat]
      /\ timer \in [Protocol -> {"never", "later", "over"}] /\ jobs \in Seq(Job)
  BY EmptySeq DEF Init
<1>6. TypeOK
  BY <1>1, <1>2, <1>3, <1>4, <1>5 DEF TypeOK
<1>7. Fine(jobs, infoSerial, after, taken)
  BY <1>5 DEF Init, Fine
<1> QED
  BY <1>6, <1>7 DEF Init, IInv, KnownDelivered

LEMMA NextKeepsIInv == IInv /\ [Next]_vars => IInv'
<1> SUFFICES ASSUME IInv, [Next]_vars PROVE IInv'
  OBVIOUS
<1>1. CASE UNCHANGED vars
  <2> USE <1>1 DEF vars, protocols, global, master
  <2>1. TypeOK'
    BY Zenon DEF IInv, TypeOK
  <2>2. Fine(jobs', infoSerial', after', taken')
    BY Zenon DEF IInv
  <2> QED
    BY <2>1, <2>2 DEF IInv, KnownDelivered
<1>2. CASE Update \/ OnNewInfo \/ Forget
  BY <1>2, UpdateKeepsIInv, OnNewInfoKeepsIInv, OtherKeepsIInv
<1>3. CASE \E n \in 0..MaxJobs : OnShutdown(n)
  BY <1>3, OnShutdownKeepsIInv
<1>4. CASE \E to \in Settings : OnConfigChange(to)
  BY <1>4, OnConfigChangeKeepsIInv
<1>5. CASE \E p \in Protocol : \/ TimeOver(p) \/ LoseChallenge(p)
                               \/ \E again \in BOOLEAN : OnToken(p, again)
  BY <1>5, OtherKeepsIInv, OnTokenKeepsIInv
<1>6. CASE \E i \in Running : Handle(i) \/ Answered(i) \/ Fail(i)
  BY <1>6, HandleKeepsIInv, AnsweredKeepsIInv, FailKeepsIInv
<1> QED
  BY <1>1, <1>2, <1>3, <1>4, <1>5, <1>6 DEF Next

LEMMA SpecIInv == Spec => []IInv
BY InitIInv, NextKeepsIInv, PTL DEF Spec

\* Type correctness; in particular no response is older than the requests of
\* its protocol that were counted.
THEOREM TypeCorrect == Spec => []TypeOK
<1>1. IInv => TypeOK
  BY DEF IInv
<1> QED
  BY <1>1, SpecIInv, PTL

\* The server never believes that the master has an info it never got.
THEOREM KnowledgeCorrect == Spec => []KnownDelivered
<1>1. IInv => KnownDelivered
  BY DEF IInv
<1> QED
  BY <1>1, SpecIInv, PTL
=============================================================================

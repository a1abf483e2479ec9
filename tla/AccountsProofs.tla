--------------------------- MODULE AccountsProofs ---------------------------
(***************************************************************************)
(* Theorems about Accounts, for every number of slots, every set of names  *)
(* and items and every bound, with faults, impatient clients and changes   *)
(* of the map or without, where a theorem does not exclude them.           *)
(***************************************************************************)
EXTENDS Accounts, NumberFacts, SequenceTheorems

\* The registrations in a queue.
Regs(q) == {k \in 1..Len(q) : q[k].kind = "register"}

LEMMA RegsFinite ==
    ASSUME NEW q \in Seq(Job)
    PROVE  IsFiniteSet(Regs(q)) /\ Cardinality(Regs(q)) \in Nat
<1>1. Len(q) \in Nat
  BY LenProperties
<1>2. IsFiniteSet(1..Len(q))
  BY <1>1, FS_Interval
<1>3. Regs(q) \in SUBSET (1..Len(q))
  BY DEF Regs
<1>4. IsFiniteSet(Regs(q))
  BY <1>2, <1>3, FS_Subset
<1> QED
  BY <1>4, FS_CardinalityType

\* Taking the oldest job from the queue adds no registration, and takes one
\* away if the job was one.
LEMMA RegsTail ==
    ASSUME NEW q \in Seq(Job), q # << >>
    PROVE  /\ Cardinality(Regs(Tail(q))) <= Cardinality(Regs(q))
           /\ Head(q).kind = "register" => Cardinality(Regs(Tail(q))) < Cardinality(Regs(q))
<1> DEFINE K == Regs(q) \ {1}
           L == Regs(Tail(q))
           up == [k \in L |-> k + 1]
<1>1. /\ Len(q) \in Nat /\ Tail(q) \in Seq(Job) /\ Len(Tail(q)) = Len(q) - 1
      /\ Head(q) = q[1] /\ Len(q) >= 1
      /\ \A k \in 1..Len(Tail(q)) : Tail(q)[k] = q[k + 1]
  BY HeadTailProperties, LenProperties, EmptySeq
<1>2. up \in [L -> K]
  BY <1>1 DEF Regs
<1>3. \A i, j \in L : up[i] = up[j] => i = j
  BY <1>1 DEF Regs
<1>4. up \in Injection(L, K)
  BY <1>2, <1>3 DEF Injection, IsInjective
<1>5. IsFiniteSet(Regs(q)) /\ Cardinality(Regs(q)) \in Nat /\ Cardinality(L) \in Nat
  BY <1>1, RegsFinite
<1>6. /\ IsFiniteSet(K)
      /\ Cardinality(K) = IF 1 \in Regs(q) THEN Cardinality(Regs(q)) - 1
                          ELSE Cardinality(Regs(q))
  BY <1>5, FS_RemoveElement
<1>7. Cardinality(L) <= Cardinality(K)
  BY <1>4, <1>6, FS_Injection
<1>8. Head(q).kind = "register" => 1 \in Regs(q)
  BY <1>1 DEF Regs
<1> HIDE DEF K, L
<1> QED
  BY <1>5, <1>6, <1>7, <1>8 DEF L

LEMMA RegsAppend ==
    ASSUME NEW q \in Seq(Job), NEW job \in Job
    PROVE  Cardinality(Regs(Append(q, job)))
             <= Cardinality(Regs(q)) + (IF job.kind = "register" THEN 1 ELSE 0)
<1>1. /\ Len(q) \in Nat /\ Len(Append(q, job)) = Len(q) + 1
      /\ \A k \in 1..Len(q) : Append(q, job)[k] = q[k]
      /\ Append(q, job)[Len(q) + 1] = job
  BY AppendProperties, LenProperties
<1>2. Regs(Append(q, job)) = IF job.kind = "register" THEN Regs(q) \cup {Len(q) + 1}
                             ELSE Regs(q)
  BY <1>1 DEF Regs
<1>3. Len(q) + 1 \notin Regs(q)
  BY <1>1 DEF Regs
<1>4. IsFiniteSet(Regs(q)) /\ Cardinality(Regs(q)) \in Nat
  BY RegsFinite
<1>5. Cardinality(Regs(q) \cup {Len(q) + 1}) = Cardinality(Regs(q)) + 1
  BY <1>3, <1>4, FS_AddElement
<1> QED
  BY <1>2, <1>4, <1>5

LEMMA RegsConcat ==
    ASSUME NEW q \in Seq(Job), NEW r \in Seq(Job),
           \A k \in 1..Len(r) : r[k].kind # "register"
    PROVE  Regs(q \o r) = Regs(q)
<1>1. /\ Len(q) \in Nat /\ Len(r) \in Nat /\ Len(q \o r) = Len(q) + Len(r)
      /\ \A k \in 1..(Len(q) + Len(r)) :
            (q \o r)[k] = IF k <= Len(q) THEN q[k] ELSE r[k - Len(q)]
  BY ConcatProperties, LenProperties
<1> QED
  BY <1>1 DEF Regs
-----------------------------------------------------------------------------
\* The bound on the accounts counts those that are still to be registered.
UsersInv == Len(users) + Registering <= MaxUsers

\* Constants and records without data.
LEMMA Basics ==
    /\ Blank \in Account
    /\ Nobody \in Player
    /\ 0 \in Id /\ 0 \in Value
    /\ \A acc \in Account : SaveJob(acc) \in Job /\ SaveJob(acc).kind = "save"
<1>1. MaxUsers \in Nat /\ MaxValue \in Nat
  BY AccountsAssumption
<1>2. 0 \in Id /\ 0 \in Value
  BY <1>1 DEF Id, Value
<1>3. Blank \in Account
  BY <1>2 DEF Blank, Account
<1>4. Nobody \in Player
  BY <1>3 DEF Nobody, Player
<1>5. \A acc \in Account : SaveJob(acc) \in Job /\ SaveJob(acc).kind = "save"
  BY DEF SaveJob, Job, Account
<1> QED
  BY <1>2, <1>3, <1>4, <1>5

\* What str_copy leaves of a login fits the buffer.
LEMMA CutNames == \A n \in Login : Cut[n] \in Name
BY AccountsAssumption

Inv == TypeOK /\ UsersInv

\* Steps of the main thread that put one job, or none, into the queue and leave
\* the tables alone.
LEMMA SubmitKeepsInv ==
    ASSUME Inv, UNCHANGED <<tables, failMode, shutdown>>,
           players' \in [Slot -> Player], logins' \in Seq(LoginResult),
           \/ queue' = queue
           \/ \E job \in Job :
                /\ queue' = Append(queue, job)
                /\ Room(1)
                /\ job.kind = "register" => Len(users) + Registering < MaxUsers
    PROVE  Inv'
<1> DEFINE R == Cardinality(Regs(queue))
           Goal == /\ queue' \in Seq(Job) /\ Len(queue') <= MaxJobs
                   /\ Len(users) + Cardinality(Regs(queue')) <= MaxUsers
<1>1. /\ queue \in Seq(Job) /\ Len(queue) <= MaxJobs /\ Len(users) \in Nat
      /\ Len(queue) \in Nat /\ MaxJobs \in Nat /\ MaxUsers \in Nat
  BY AccountsAssumption, LenProperties DEF Inv, TypeOK
<1>2. Registering = R /\ Registering' = Cardinality(Regs(queue'))
  BY DEF Registering, Kinds, Regs
<1>3. R \in Nat
  BY <1>1, RegsFinite
<1>4. Goal
  <2>1. CASE queue' = queue
    BY <1>1, <1>2, <2>1 DEF Inv, UsersInv
  <2>2. ASSUME NEW job \in Job, queue' = Append(queue, job), Room(1),
               job.kind = "register" => Len(users) + Registering < MaxUsers
        PROVE  Goal
    <3>1. queue' \in Seq(Job) /\ Len(queue') = Len(queue) + 1
      BY <1>1, <2>2, AppendProperties
    <3>2. Cardinality(Regs(queue')) <= R + (IF job.kind = "register" THEN 1 ELSE 0)
      BY <1>1, <2>2, RegsAppend
    <3>3. Cardinality(Regs(queue')) \in Nat
      BY <3>1, RegsFinite
    <3>4. Len(users) + R <= MaxUsers
      BY <1>2 DEF Inv, UsersInv
    <3> HIDE DEF R
    <3>5. Len(users) + Cardinality(Regs(queue')) <= MaxUsers
      BY <1>1, <1>2, <1>3, <2>2, <3>2, <3>3, <3>4
    <3> QED
      BY <1>1, <2>2, <3>1, <3>5 DEF Room
  <2> HIDE DEF Goal
  <2> QED
    BY <2>1, <2>2
<1>5. UsersInv'
  BY <1>2, <1>4 DEF UsersInv, tables
<1>6. TypeOK'
  BY <1>4 DEF Inv, TypeOK, tables
<1> QED
  BY <1>5, <1>6 DEF Inv

LEMMA PlayKeepsInv ==
    ASSUME Inv, NEW s \in Slot, NEW acc \in Account, NEW save \in BOOLEAN, Play(s, acc, save)
    PROVE  Inv'
<1>1. players' \in [Slot -> Player]
  BY DEF Inv, TypeOK, Play, Player
<1>2. SaveJob(acc) \in Job /\ SaveJob(acc).kind = "save"
  BY Basics
<1>3. \/ queue' = queue
      \/ queue' = Append(queue, SaveJob(acc)) /\ Room(1)
  BY DEF Play
<1>4. UNCHANGED <<tables, failMode, shutdown>> /\ logins' \in Seq(LoginResult)
  BY DEF Play, Inv, TypeOK
<1> QED
  BY <1>1, <1>2, <1>3, <1>4, SubmitKeepsInv

LEMMA GameplayKeepsInv ==
    ASSUME Inv, Gameplay
    PROVE  Inv'
<1>0. /\ MaxUsers \in Nat /\ MaxValue \in Nat
      /\ \A s \in Slot : players[s].acc \in Account
  BY AccountsAssumption DEF Inv, TypeOK, Player
<1>1. ASSUME NEW s \in Slot, NEW it \in Item, GiveItem(s, it) \/ RemItem(s, it)
      PROVE  Inv'
  <2>1. /\ [players[s].acc EXCEPT !.inv = @ \cup {it}] \in Account
        /\ [players[s].acc EXCEPT !.inv = @ \ {it}] \in Account
    BY <1>0 DEF Account
  <2> QED
    BY <1>1, <2>1, PlayKeepsInv DEF GiveItem, RemItem
<1>2. ASSUME NEW s \in Slot, NEW levelUp \in BOOLEAN, AddWorkEXP(s, levelUp)
      PROVE  Inv'
  <2> DEFINE acc == players[s].acc
  <2>1. acc.work \in Value /\ acc.work < MaxValue
    BY <1>0, <1>2 DEF AddWorkEXP, Account
  <2>2. acc.work + 1 \in Value
    BY <1>0, <2>1 DEF Value
  <2>3. [acc EXCEPT !.work = acc.work + 1] \in Account
    BY <1>0, <2>2 DEF Account
  <2> QED
    BY <1>2, <2>3, PlayKeepsInv DEF AddWorkEXP
<1>3. ASSUME NEW s \in Slot, AddMoney(s)
      PROVE  Inv'
  <2> DEFINE acc == players[s].acc
  <2>1. acc.money \in Value /\ acc.money < MaxValue
    BY <1>0, <1>3 DEF AddMoney, Account
  <2>2. acc.money + 1 \in Value
    BY <1>0, <2>1 DEF Value
  <2>3. [acc EXCEPT !.money = acc.money + 1] \in Account
    BY <1>0, <2>2 DEF Account
  <2> QED
    BY <1>3, <2>3, PlayKeepsInv DEF AddMoney
<1>4. ASSUME NEW s \in Slot, AddEXP(s)
      PROVE  Inv'
  <2> DEFINE acc == players[s].acc
  <2>1. acc.upg \in Value /\ acc.upg < MaxValue
    BY <1>0, <1>4 DEF AddEXP, Account
  <2>2. acc.upg + 1 \in Value
    BY <1>0, <2>1 DEF Value
  <2>3. [acc EXCEPT !.upg = acc.upg + 1] \in Account
    BY <1>0, <2>2 DEF Account
  <2> QED
    BY <1>4, <2>3, PlayKeepsInv DEF AddEXP
<1>5. ASSUME NEW s \in Slot, NEW lang \in Id, ChatLang(s, lang)
      PROVE  Inv'
  <2>1. [players[s].acc EXCEPT !.lang = lang] \in Account
    BY <1>0 DEF Account
  <2> QED
    BY <1>5, <2>1, PlayKeepsInv DEF ChatLang
<1>6. ASSUME NEW s \in Slot, NEW clan \in Id, AcceptInvite(s, clan)
      PROVE  Inv'
  <2>1. [players[s].acc EXCEPT !.clan = clan] \in Account
    BY <1>0 DEF Account
  <2> QED
    BY <1>6, <2>1, PlayKeepsInv DEF AcceptInvite
<1> QED
  BY <1>1, <1>2, <1>3, <1>4, <1>5, <1>6 DEF Gameplay, ItemPlay

LEMMA PlayersKeepInv ==
    ASSUME Inv, Players
    PROVE  Inv'
<1>1. ASSUME NEW s \in Slot, Connect(s)
      PROVE  Inv'
  <2>1. players' \in [Slot -> Player]
    BY <1>1, Basics DEF Inv, TypeOK, Connect, Player
  <2> QED
    BY <1>1, <2>1, SubmitKeepsInv DEF Inv, TypeOK, Connect
<1>2. ASSUME NEW s \in Slot, Drop(s)
      PROVE  Inv'
  <2>1. players' \in [Slot -> Player]
    BY <1>2, Basics DEF Inv, TypeOK, Drop
  <2>2. SaveJob(players[s].acc) \in Job /\ SaveJob(players[s].acc).kind = "save"
    BY Basics DEF Inv, TypeOK, Player
  <2>3. /\ queue' = Append(queue, SaveJob(players[s].acc)) /\ Room(1)
        /\ UNCHANGED <<tables, failMode, shutdown>> /\ logins' \in Seq(LoginResult)
    BY <1>2 DEF Drop, Inv, TypeOK
  <2> QED
    BY <2>1, <2>2, <2>3, SubmitKeepsInv
<1>3. ASSUME NEW s \in Slot, NEW n \in Login, ChatRegister(s, n)
      PROVE  Inv'
  <2>1. [kind |-> "register", name |-> Cut[n], right |-> TRUE, acc |-> Blank] \in Job
    BY Basics, CutNames DEF Job
  <2>2. UNCHANGED <<tables, failMode, shutdown>> /\ players' \in [Slot -> Player]
        /\ logins' \in Seq(LoginResult) /\ Room(1)
        /\ Len(users) + Registering < MaxUsers
        /\ queue' = Append(queue, [kind |-> "register", name |-> Cut[n], right |-> TRUE, acc |-> Blank])
    BY <1>3 DEF ChatRegister, Inv, TypeOK
  <2> QED
    BY <2>1, <2>2, SubmitKeepsInv
<1>4. ASSUME NEW s \in Slot, NEW n \in Login, NEW right \in BOOLEAN, ChatLogin(s, n, right)
      PROVE  Inv'
  <2> DEFINE job == [kind |-> "login", name |-> Cut[n], right |-> right, acc |-> Blank]
             result == [slot |-> s, name |-> Cut[n], state |-> "pending", acc |-> Blank]
  <2>1. job \in Job /\ job.kind # "register"
    BY Basics, CutNames DEF Job
  <2>2. result \in LoginResult
    BY Basics, CutNames DEF LoginResult
  <2>3. /\ UNCHANGED <<tables, failMode, shutdown>> /\ players' \in [Slot -> Player]
        /\ logins' = Append(logins, result) /\ Room(1)
        /\ queue' = Append(queue, job)
    BY <1>4 DEF ChatLogin, Inv, TypeOK
  <2>4. logins' \in Seq(LoginResult)
    BY <2>2, <2>3, AppendProperties DEF Inv, TypeOK
  <2> HIDE DEF job, result
  <2> QED
    BY <2>1, <2>3, <2>4, SubmitKeepsInv
<1> QED
  BY <1>1, <1>2, <1>3, <1>4 DEF Players
-----------------------------------------------------------------------------
\* The end of a job keeps the types and leaves room for the registrations.
LEMMA FinishFacts ==
    ASSUME TypeOK, queue # << >>, NEW ok \in BOOLEAN, NEW acc \in Account,
           NEW state \in {"failed", "successful"}, Finish(ok, state, acc)
    PROVE  /\ players' \in [Slot -> Player]
           /\ queue' \in Seq(Job) /\ Len(queue') <= MaxJobs
           /\ logins' \in Seq(LoginResult)
           /\ failMode' \in BOOLEAN /\ shutdown' \in BOOLEAN
           /\ Registering \in Nat /\ Registering' \in Nat
           /\ Registering' <= Registering
           /\ Head(queue).kind = "register" => Registering' < Registering
<1>1. players' \in [Slot -> Player] /\ shutdown' \in BOOLEAN
  BY DEF Finish, TypeOK
<1>2. failMode' \in BOOLEAN
  BY Zenon DEF Finish, TypeOK
<1>3. queue \in Seq(Job) /\ queue' = Tail(queue) /\ Len(queue) <= MaxJobs
  BY DEF Finish, TypeOK
<1>4. queue' \in Seq(Job) /\ Len(queue') = Len(queue) - 1 /\ Len(queue) \in Nat
  BY <1>3, HeadTailProperties, LenProperties, EmptySeq
<1>5. Len(queue') <= MaxJobs
  <2>1. MaxJobs \in Nat
    BY AccountsAssumption
  <2> QED
    BY <1>3, <1>4, <2>1
<1>6. Registering = Cardinality(Regs(queue)) /\ Registering' = Cardinality(Regs(queue'))
  BY DEF Registering, Kinds, Regs
<1>7. Registering \in Nat /\ Registering' \in Nat
  BY <1>3, <1>4, <1>6, RegsFinite
<1>8. /\ Registering' <= Registering
      /\ Head(queue).kind = "register" => Registering' < Registering
  BY <1>3, <1>6, RegsTail
<1>9. logins' \in Seq(LoginResult)
  <2>1. logins \in Seq(LoginResult) /\ logins' = Answer(state, acc)
    BY DEF Finish, TypeOK
  <2>2. ASSUME NEW first
        PROVE  [logins EXCEPT ![first].state = state, ![first].acc = acc] \in Seq(LoginResult)
    <3> DEFINE new == [logins EXCEPT ![first].state = state, ![first].acc = acc]
    <3>1. Len(logins) \in Nat /\ logins \in [1..Len(logins) -> LoginResult]
      BY <2>1, LenProperties
    <3>2. \A r \in LoginResult : [r EXCEPT !.state = state, !.acc = acc] \in LoginResult
      BY DEF LoginResult
    <3>3. ASSUME NEW k \in 1..Len(logins)
          PROVE  new[k] = IF k = first THEN [logins[k] EXCEPT !.state = state, !.acc = acc]
                          ELSE logins[k]
      BY <3>1
    <3>4. new \in [1..Len(logins) -> LoginResult]
      BY <3>1, <3>2, <3>3
    <3> HIDE DEF new
    <3>5. new \in Seq(LoginResult)
      BY <3>1, <3>4, FunctionIsSeq, Zenon
    <3> QED
      BY <3>5 DEF new
  <2> QED
    BY <2>1, <2>2 DEF Answer, Completed
<1> QED
  BY <1>1, <1>2, <1>3, <1>4, <1>5, <1>7, <1>8, <1>9

\* A job that adds no row to users.
LEMMA JobKeepsInv ==
    ASSUME Inv, queue # << >>, NEW ok \in BOOLEAN, NEW acc \in Account,
           NEW state \in {"failed", "successful"}, Finish(ok, state, acc),
           users' \in Seq([name : Name, money : Value, clan : Id, lang : Id]),
           Len(users') = Len(users),
           inv' \in [Id -> SUBSET Item], works' \in [Id -> Value],
           upgr' \in [Id -> Value \cup {NoRow}]
    PROVE  Inv'
<1>1. /\ players' \in [Slot -> Player]
      /\ queue' \in Seq(Job) /\ Len(queue') <= MaxJobs
      /\ logins' \in Seq(LoginResult)
      /\ failMode' \in BOOLEAN /\ shutdown' \in BOOLEAN
      /\ Registering \in Nat /\ Registering' \in Nat
      /\ Registering' <= Registering
  BY FinishFacts DEF Inv
<1>2. Len(users) \in Nat /\ Len(users) <= MaxUsers /\ Len(users) + Registering <= MaxUsers
  BY LenProperties DEF Inv, TypeOK, UsersInv
<1>3. UsersInv'
  <2>1. MaxUsers \in Nat
    BY AccountsAssumption
  <2> QED
    BY <1>1, <1>2, <2>1 DEF UsersInv
<1>4. TypeOK'
  BY <1>1, <1>2 DEF TypeOK
<1> QED
  BY <1>3, <1>4 DEF Inv

LEMMA DismissKeepsInv ==
    ASSUME Inv, Dismiss
    PROVE  Inv'
<1>1. Finish(FALSE, "failed", Blank) /\ queue # << >> /\ UNCHANGED tables
  BY DEF Dismiss
<1> QED
  BY <1>1, Basics, JobKeepsInv DEF tables, Inv, TypeOK

LEMMA RegisterKeepsInv ==
    ASSUME Inv, NEW stop \in 0..4, RunRegister(stop)
    PROVE  Inv'
<1> DEFINE n == Head(queue).name
           row == [name |-> n, money |-> 0, clan |-> 0, lang |-> 0]
           Row == [name : Name, money : Value, clan : Id, lang : Id]
           ok == stop = 4 \/ (Registered(n) # {} /\ stop = 1)
<1>1. /\ queue # << >> /\ Head(queue).kind = "register"
      /\ users' = IF stop >= 2 THEN Append(users, row) ELSE users
      /\ upgr' = IF stop >= 4 THEN [upgr EXCEPT ![Len(users) + 1] = 0] ELSE upgr
      /\ Finish(ok, "failed", Blank)
      /\ UNCHANGED <<inv, works>>
  BY DEF RunRegister, Running
<1>2. ok \in BOOLEAN
  BY Zenon
<1> HIDE DEF ok
<1>3. Head(queue) \in Job
  BY <1>1, HeadTailProperties DEF Inv, TypeOK
<1>4. row \in Row
  <2>1. n \in Name
    BY <1>1, <1>3 DEF Job
  <2> QED
    BY <2>1, Basics
<1> HIDE DEF row
<1>5. /\ users' \in Seq(Row)
      /\ Len(users) \in Nat
      /\ Len(users') = IF stop >= 2 THEN Len(users) + 1 ELSE Len(users)
  BY <1>1, <1>4, AppendProperties, LenProperties DEF Inv, TypeOK
<1>6. /\ players' \in [Slot -> Player]
      /\ queue' \in Seq(Job) /\ Len(queue') <= MaxJobs
      /\ logins' \in Seq(LoginResult)
      /\ failMode' \in BOOLEAN /\ shutdown' \in BOOLEAN
      /\ Registering \in Nat /\ Registering' \in Nat
      /\ Registering' < Registering
  BY <1>1, <1>2, Basics, FinishFacts DEF Inv
<1>7. Len(users') + Registering' <= MaxUsers /\ Len(users') <= MaxUsers
  <2>1. MaxUsers \in Nat /\ Len(users) + Registering <= MaxUsers
    BY AccountsAssumption DEF Inv, UsersInv
  <2> QED
    BY <1>5, <1>6, <2>1
<1>8. inv' \in [Id -> SUBSET Item] /\ works' \in [Id -> Value] /\ upgr' \in [Id -> Value \cup {NoRow}]
  BY <1>1, Basics DEF Inv, TypeOK
<1> QED
  BY <1>5, <1>6, <1>7, <1>8 DEF Inv, TypeOK, UsersInv

LEMMA LoginKeepsInv ==
    ASSUME Inv, NEW stop \in 0..4, NEW items \in SUBSET Item, NEW work \in Value,
           RunLogin(stop, items, work)
    PROVE  Inv'
<1> DEFINE job == Head(queue)
           found == {i \in Registered(job.name) : job.right}
           id == CHOOSE i \in found : TRUE
           acc == [name |-> job.name, id |-> id, money |-> users[id].money,
                   clan |-> users[id].clan, lang |-> users[id].lang,
                   inv |-> items, work |-> work, upg |-> upgr[id]]
<1>1. queue # << >> /\ job.kind = "login" /\ UNCHANGED tables
  BY DEF RunLogin, Running
<1>2. \/ \E ok \in BOOLEAN : Finish(ok, "failed", Blank)
      \/ Finish(TRUE, "successful", acc) /\ found # {} /\ Loadable(id)
  BY Zenon DEF RunLogin
<1>3. ASSUME found # {}, Loadable(id)
      PROVE  acc \in Account
  <2>0. Head(queue) \in Job
    BY <1>1, HeadTailProperties DEF Inv, TypeOK
  <2>1. job.name \in Name
    BY <1>1, <2>0 DEF Job
  <2>2. id \in found /\ found \subseteq 1..Len(users)
    BY <1>3 DEF Registered
  <2>3. id \in Id
    <3>1. Len(users) \in Nat /\ Len(users) <= MaxUsers /\ MaxUsers \in Nat
      BY LenProperties, AccountsAssumption DEF Inv, TypeOK
    <3> QED
      BY <2>2, <3>1 DEF Id
  <2>4. users[id] \in [name : Name, money : Value, clan : Id, lang : Id]
    BY <2>2, ElementOfSeq DEF Inv, TypeOK
  <2>5. upgr[id] \in Value
    BY <1>3, <2>3 DEF Loadable, Inv, TypeOK
  <2> HIDE DEF id, job
  <2> QED
    BY <2>1, <2>3, <2>4, <2>5 DEF Account
<1> HIDE DEF acc, id, job
<1> QED
  BY <1>1, <1>2, <1>3, Basics, JobKeepsInv DEF tables, Inv, TypeOK

LEMMA SaveKeepsInv ==
    ASSUME Inv, NEW stop \in 0..6, NEW items \in SUBSET Item, RunSave(stop, items)
    PROVE  Inv'
<1> DEFINE acc == Head(queue).acc
           row == [users[acc.lang] EXCEPT !.money = acc.money, !.clan = acc.id, !.lang = acc.clan]
           Row == [name : Name, money : Value, clan : Id, lang : Id]
<1>1. /\ queue # << >>
      /\ users' = IF stop >= 1 /\ acc.lang \in 1..Len(users)
                  THEN [users EXCEPT ![acc.lang] = row] ELSE users
      /\ inv' = IF stop >= 2 THEN [inv EXCEPT ![acc.id] = items] ELSE inv
      /\ works' = IF stop >= 4
                  THEN [works EXCEPT ![acc.id] = IF stop = 4 THEN 0 ELSE acc.work] ELSE works
      /\ upgr' = IF stop >= 6 /\ upgr[acc.id] # NoRow
                 THEN [upgr EXCEPT ![acc.id] = acc.upg] ELSE upgr
      /\ \E ok \in BOOLEAN : Finish(ok, "failed", Blank)
  <2>1. (stop = 6) \in BOOLEAN
    OBVIOUS
  <2> QED
    BY <2>1 DEF RunSave, Running
<1>2. Head(queue) \in Job
  BY <1>1, HeadTailProperties DEF Inv, TypeOK
<1>3. acc \in Account
  BY <1>2 DEF Job
<1> HIDE DEF acc
<1>4. acc.lang \in 1..Len(users) => row \in Row
  <2> SUFFICES ASSUME acc.lang \in 1..Len(users) PROVE row \in Row
    OBVIOUS
  <2>1. users[acc.lang] \in Row
    BY ElementOfSeq DEF Inv, TypeOK
  <2> QED
    BY <1>3, <2>1 DEF Account
<1> HIDE DEF row
<1>5. users' \in Seq(Row) /\ Len(users') = Len(users)
  <2>1. users \in Seq(Row)
    BY DEF Inv, TypeOK
  <2> QED
    BY <1>1, <1>4, <2>1, ExceptSeq
<1>6. /\ inv' \in [Id -> SUBSET Item]
      /\ works' \in [Id -> Value]
      /\ upgr' \in [Id -> Value \cup {NoRow}]
  BY <1>1, <1>3, Basics DEF Inv, TypeOK, Account
<1> QED
  BY <1>1, <1>5, <1>6, Basics, JobKeepsInv
-----------------------------------------------------------------------------
\* What OnTick leaves a player with: what it had, or the last of its results,
\* which OnTick erases.
LEMMA DeliveredFacts ==
    ASSUME TypeOK, NEW s \in Slot
    PROVE  \/ Delivered(s) = players[s]
           \/ \E k \in 1..Len(logins) :
                 /\ k \in Handled /\ logins[k].slot = s /\ logins[k].state = "successful"
                 /\ Delivered(s) = [here |-> TRUE, loggedIn |-> TRUE, acc |-> logins[k].acc]
<1> DEFINE mine == {k \in Handled : logins[k].slot = s /\ logins[k].state = "successful"}
           last == CHOOSE k \in mine : \A j \in mine : j <= k
<1>1. CASE mine = {}
  BY <1>1 DEF Delivered
<1>2. CASE mine # {}
  <2>1. mine \in SUBSET (1..Len(logins)) /\ Len(logins) \in Nat
    BY LenProperties DEF Handled, TypeOK
  <2>2. last \in mine
    <3> HIDE DEF mine
    <3> QED
      BY <1>2, <2>1, Largest
  <2>3. Delivered(s) = [here |-> TRUE, loggedIn |-> TRUE, acc |-> logins[last].acc]
    BY <1>2 DEF Delivered
  <2> QED
    BY <2>1, <2>2, <2>3
<1> QED
  BY <1>1, <1>2

LEMMA DeliveredType ==
    ASSUME TypeOK, NEW s \in Slot
    PROVE  Delivered(s) \in Player
<1>1. CASE Delivered(s) = players[s]
  BY <1>1 DEF TypeOK
<1>2. ASSUME NEW k \in 1..Len(logins),
             Delivered(s) = [here |-> TRUE, loggedIn |-> TRUE, acc |-> logins[k].acc]
      PROVE  Delivered(s) \in Player
  <2>1. logins[k] \in LoginResult
    BY ElementOfSeq DEF TypeOK
  <2>2. logins[k].acc \in Account
    BY <2>1 DEF LoginResult
  <2> QED
    BY <1>2, <2>2 DEF Player
<1> QED
  BY <1>1, <1>2, DeliveredFacts

\* Picking elements of a sequence upwards gives a sequence of such elements.
LEMMA PickedSeq ==
    ASSUME NEW n \in Nat, NEW S \in SUBSET (0..n), NEW f \in Upwards(S), NEW T,
           NEW r \in [DOMAIN f -> T]
    PROVE  /\ r \in Seq(T) /\ Len(r) = Cardinality(S) /\ Cardinality(S) \in Nat
           /\ DOMAIN f = 1..Len(r)
<1> DEFINE c == Cardinality(S)
<1>1. c \in Nat
  <2>1. IsFiniteSet(0..n)
    BY FS_Interval
  <2>2. IsFiniteSet(S)
    BY <2>1, FS_Subset
  <2> QED
    BY <2>2, FS_CardinalityType
<1>2. f \in [1..c -> S]
  BY DEF Upwards
<1> HIDE DEF c
<1>3. r \in [1..c -> T]
  BY <1>2
<1>4. r \in Seq(T)
  BY <1>1, <1>3, FunctionIsSeq, Zenon
<1>5. Len(r) = c
  BY <1>1, <1>3, <1>4, LenProperties
<1> QED
  BY <1>1, <1>2, <1>4, <1>5 DEF c

LEMMA TickKeepsInv ==
    ASSUME Inv, NEW autosave \in BOOLEAN, OnTick(autosave)
    PROVE  Inv'
<1> DEFINE now == [s \in Slot |-> Delivered(s)]
           present == {s \in Slot : autosave /\ now[s].here}
<1>1. now \in [Slot -> Player] /\ \A s \in Slot : now[s].acc \in Account
  BY DeliveredType DEF Inv, Player
<1>2. players' = now /\ UNCHANGED <<tables, failMode, shutdown>> /\ Room(Cardinality(present))
  BY DEF OnTick
<1>3. logins' \in Seq(LoginResult)
  <2> DEFINE S == (1..Len(logins)) \ Handled
  <2>1. PICK kept \in Upwards(S) : logins' = [i \in DOMAIN kept |-> logins[kept[i]]]
    BY DEF OnTick
  <2>2. Len(logins) \in Nat /\ \A k \in S : logins[k] \in LoginResult
    BY LenProperties, ElementOfSeq DEF Inv, TypeOK
  <2>4. \A i \in DOMAIN kept : kept[i] \in S
    BY DEF Upwards
  <2>5. logins' \in [DOMAIN kept -> LoginResult]
    BY <2>1, <2>2, <2>4
  <2>3. S \in SUBSET (0..Len(logins))
    BY <2>2
  <2> HIDE DEF S
  <2> QED
    BY <2>2, <2>3, <2>5, PickedSeq
<1>4. \E r \in Seq(Job) : /\ queue' = queue \o r /\ Len(r) = Cardinality(present)
                          /\ Cardinality(present) \in Nat
                          /\ \A i \in 1..Len(r) : r[i].kind = "save"
  <2>1. PICK saved \in Upwards(present) :
            queue' = queue \o [i \in DOMAIN saved |-> SaveJob(now[saved[i]].acc)]
    BY DEF OnTick
  <2>3. NumSlots \in Nat
    BY AccountsAssumption
  <2>6. present \in SUBSET (0..NumSlots)
    BY <2>3 DEF Slot
  <2>4. \A i \in DOMAIN saved : saved[i] \in Slot
    BY DEF Upwards
  <2> DEFINE r == [i \in DOMAIN saved |-> SaveJob(now[saved[i]].acc)]
  <2>5. r \in [DOMAIN saved -> Job] /\ \A i \in DOMAIN saved : r[i].kind = "save"
    BY <1>1, <2>4, Basics
  <2> HIDE DEF present, r
  <2>7. /\ r \in Seq(Job) /\ Len(r) = Cardinality(present) /\ Cardinality(present) \in Nat
        /\ DOMAIN saved = 1..Len(r)
    BY <2>3, <2>5, <2>6, PickedSeq
  <2>8. queue' = queue \o r
    BY <2>1 DEF r
  <2> QED
    BY <2>5, <2>7, <2>8
<1> HIDE DEF now, present
<1>5. queue' \in Seq(Job) /\ Len(queue') <= MaxJobs /\ Registering' = Registering
  <2>1. PICK r \in Seq(Job) : /\ queue' = queue \o r /\ Len(r) = Cardinality(present)
                              /\ Cardinality(present) \in Nat
                              /\ \A i \in 1..Len(r) : r[i].kind = "save"
    BY <1>4
  <2>2. queue \in Seq(Job)
    BY DEF Inv, TypeOK
  <2>3. queue' \in Seq(Job) /\ Len(queue') = Len(queue) + Len(r)
    BY <2>1, <2>2, ConcatProperties
  <2>4. Regs(queue') = Regs(queue)
    BY <2>1, <2>2, RegsConcat
  <2>5. Registering' = Registering
    BY <2>4 DEF Registering, Kinds, Regs
  <2> QED
    BY <1>2, <2>1, <2>3, <2>5 DEF Room
<1>6. UsersInv'
  BY <1>2, <1>5 DEF Inv, UsersInv, tables
<1>7. TypeOK'
  BY <1>1, <1>2, <1>3, <1>5 DEF Inv, TypeOK, tables
<1> QED
  BY <1>6, <1>7 DEF Inv

LEMMA OthersKeepInv ==
    ASSUME Inv, Reload \/ Shutdown \/ Recover
    PROVE  Inv'
<1>1. /\ UNCHANGED <<queue, tables>>
      /\ players' \in [Slot -> Player] /\ logins' \in Seq(LoginResult)
      /\ failMode' \in BOOLEAN /\ shutdown' \in BOOLEAN
  <2>1. CASE Reload
    BY <2>1, Basics, EmptySeq DEF Reload, Inv, TypeOK
  <2>2. CASE Shutdown
    BY <2>2 DEF Shutdown, Inv, TypeOK
  <2>3. CASE Recover
    BY <2>3 DEF Recover, Inv, TypeOK
  <2> QED
    BY <2>1, <2>2, <2>3
<1>2. Registering' = Registering
  BY <1>1 DEF Registering, Kinds
<1> QED
  BY <1>1, <1>2 DEF Inv, TypeOK, UsersInv, tables

LEMMA InvInit == Init => Inv
<1> SUFFICES ASSUME Init PROVE Inv
  OBVIOUS
<1>1. MaxUsers \in Nat /\ MaxJobs \in Nat
  BY AccountsAssumption
<1>2. Registering = 0
  <2>1. Regs(queue) = {}
    BY EmptySeq DEF Init, Regs
  <2> QED
    BY <2>1, FS_EmptySet DEF Registering, Kinds, Regs
<1>3. TypeOK
  <2>1. queue \in Seq(Job) /\ Len(queue) = 0 /\ logins \in Seq(LoginResult)
    BY EmptySeq DEF Init
  <2>2. users \in Seq([name : Name, money : Value, clan : Id, lang : Id]) /\ Len(users) = 0
    BY EmptySeq DEF Init
  <2> QED
    BY <1>1, <2>1, <2>2, Basics DEF Init, TypeOK
<1>4. Len(users) = 0
  BY EmptySeq DEF Init
<1> QED
  BY <1>1, <1>2, <1>3, <1>4 DEF Inv, UsersInv

LEMMA RunJobKeepsInv ==
    ASSUME Inv, RunJob
    PROVE  Inv'
BY DismissKeepsInv, RegisterKeepsInv, LoginKeepsInv, SaveKeepsInv DEF RunJob

LEMMA InvNext == Inv /\ [Next]_vars => Inv'
<1> SUFFICES ASSUME Inv, [Next]_vars PROVE Inv'
  OBVIOUS
<1>1. CASE Players
  BY <1>1, PlayersKeepInv
<1>2. CASE Gameplay
  BY <1>2, GameplayKeepsInv
<1>3. CASE \E autosave \in BOOLEAN : OnTick(autosave)
  BY <1>3, TickKeepsInv
<1>4. CASE Reload \/ Shutdown \/ Recover
  BY <1>4, OthersKeepInv
<1>5. CASE RunJob
  BY <1>5, RunJobKeepsInv
<1>6. CASE UNCHANGED vars
  BY <1>6 DEF vars, tables, Inv, TypeOK, UsersInv, Registering, Kinds
<1> QED
  BY <1>1, <1>2, <1>3, <1>4, <1>5, <1>6 DEF Next

\* The state of CAccountManager and of the tables has its types in every
\* behaviour, and no more accounts appear than were asked for.
THEOREM TypeCorrect == SafeSpec => []TypeOK
<1>1. Init => Inv
  BY InvInit
<1>2. Inv /\ [Next]_vars => Inv'
  BY InvNext
<1>3. Inv => TypeOK
  BY DEF Inv
<1> QED
  BY <1>1, <1>2, <1>3, PTL DEF SafeSpec
-----------------------------------------------------------------------------
\* Rows of users keep their names, and rows of upgrades stay.
Grows ==
    /\ Len(users) \in Nat /\ Len(users') \in Nat /\ Len(users) <= Len(users')
    /\ \A i \in 1..Len(users) :
          /\ users'[i].name = users[i].name
          /\ upgr[i] # NoRow => upgr'[i] # NoRow

\* The only rows that appear are those that RegisterThread inserts.
Inserts ==
    \/ Len(users') = Len(users)
    \/ /\ Len(users') = Len(users) + 1
       /\ \A i \in 1..Len(users) : users[i].name # users'[Len(users')].name

LEMMA TablesGrow ==
    ASSUME Inv, [Next]_vars
    PROVE  Grows /\ Inserts
<1>1. Len(users) \in Nat /\ upgr \in [Id -> Value \cup {NoRow}] /\ MaxUsers \in Nat /\ Len(users) <= MaxUsers
  BY LenProperties, AccountsAssumption DEF Inv, TypeOK
<1>2. CASE UNCHANGED <<users, upgr>>
  BY <1>1, <1>2 DEF Grows, Inserts
<1>3. ASSUME NEW stop \in 0..4, RunRegister(stop)
      PROVE  Grows /\ Inserts
  <2> DEFINE n == Head(queue).name
             row == [name |-> n, money |-> 0, clan |-> 0, lang |-> 0]
  <2>1. /\ Registered(n) # {} => stop <= 1
        /\ users' = IF stop >= 2 THEN Append(users, row) ELSE users
        /\ upgr' = IF stop >= 4 THEN [upgr EXCEPT ![Len(users) + 1] = 0] ELSE upgr
    BY <1>3 DEF RunRegister
  <2>2. CASE stop < 2
    BY <1>1, <2>1, <2>2 DEF Grows, Inserts
  <2>3. CASE stop >= 2
    <3>1. /\ Len(users') = Len(users) + 1 /\ users'[Len(users) + 1] = row
          /\ \A i \in 1..Len(users) : users'[i] = users[i]
      BY <2>1, <2>3, AppendProperties DEF Inv, TypeOK
    <3>2. \A i \in 1..Len(users) : users[i].name # n
      BY <2>1, <2>3 DEF Registered
    <3>3. row.name = n
      OBVIOUS
    <3> HIDE DEF row, n
    <3>4. \A i \in 1..Len(users) : upgr'[i] = upgr[i]
      BY <1>1, <2>1
    <3> QED
      BY <1>1, <3>1, <3>2, <3>3, <3>4 DEF Grows, Inserts
  <2> QED
    BY <2>2, <2>3
<1>4. ASSUME NEW stop \in 0..6, NEW items \in SUBSET Item, RunSave(stop, items)
      PROVE  Grows /\ Inserts
  <2> DEFINE acc == Head(queue).acc
             row == [users[acc.lang] EXCEPT !.money = acc.money, !.clan = acc.id, !.lang = acc.clan]
  <2>1. /\ queue # << >>
        /\ users' = IF stop >= 1 /\ acc.lang \in 1..Len(users)
                    THEN [users EXCEPT ![acc.lang] = row] ELSE users
        /\ upgr' = IF stop >= 6 /\ upgr[acc.id] # NoRow
                   THEN [upgr EXCEPT ![acc.id] = acc.upg] ELSE upgr
    BY <1>4 DEF RunSave, Running
  <2>2. acc \in Account
    <3>1. Head(queue) \in Job
      BY <2>1, HeadTailProperties DEF Inv, TypeOK
    <3> QED
      BY <3>1 DEF Job
  <2>3. acc.upg # NoRow
    <3>1. acc.upg \in 0..MaxValue
      BY <2>2 DEF Account, Value
    <3> QED
      BY <3>1 DEF NoRow
  <2> HIDE DEF acc
  <2>4. \A i \in 1..Len(users) : users[i] \in [name : Name, money : Value, clan : Id, lang : Id]
    BY ElementOfSeq DEF Inv, TypeOK
  <2>5. acc.lang \in 1..Len(users) => row.name = users[acc.lang].name
    BY <2>4
  <2> HIDE DEF row
  <2>6. users \in Seq([name : Name, money : Value, clan : Id, lang : Id])
    BY DEF Inv, TypeOK
  <2>7. /\ Len(users') = Len(users)
        /\ \A i \in 1..Len(users) : users'[i].name = users[i].name
    BY <2>1, <2>5, <2>6, LenProperties
  <2>8. \A i \in 1..Len(users) : upgr[i] # NoRow => upgr'[i] # NoRow
    BY <1>1, <2>1, <2>3
  <2> QED
    BY <1>1, <2>7, <2>8 DEF Grows, Inserts
<1>5. ASSUME Dismiss \/ \E stop \in 0..4, items \in SUBSET Item, work \in Value : RunLogin(stop, items, work)
      PROVE  UNCHANGED <<users, upgr>>
  BY <1>5 DEF Dismiss, RunLogin, tables
<1>6. Players \/ Gameplay => UNCHANGED <<users, upgr>>
  BY DEF Players, Connect, Drop, ChatRegister, ChatLogin, Gameplay, ItemPlay, GiveItem, RemItem,
         AddMoney, AddWorkEXP, AddEXP, ChatLang, AcceptInvite, Play, tables
<1>7. (\E autosave \in BOOLEAN : OnTick(autosave)) => UNCHANGED <<users, upgr>>
  BY DEF OnTick, tables
<1>8. Reload \/ Shutdown \/ Recover \/ UNCHANGED vars => UNCHANGED <<users, upgr>>
  BY DEF Reload, Shutdown, Recover, vars, tables
<1> QED
  BY <1>2, <1>3, <1>4, <1>5, <1>6, <1>7, <1>8 DEF Next, RunJob

LEMMA UniqueNext ==
    ASSUME Inv, UniqueNames, [Next]_vars
    PROVE  UniqueNames'
<1>1. Grows /\ Inserts
  BY TablesGrow
<1> SUFFICES ASSUME NEW i \in 1..Len(users'), NEW j \in 1..Len(users'), users'[i].name = users'[j].name
             PROVE  i = j
  BY DEF UniqueNames
<1>2. CASE i \in 1..Len(users) /\ j \in 1..Len(users)
  BY <1>1, <1>2 DEF Grows, UniqueNames
<1>3. CASE ~(i \in 1..Len(users) /\ j \in 1..Len(users))
  BY <1>1, <1>3 DEF Grows, Inserts
<1> QED
  BY <1>2, <1>3

\* UniqueNames: no two rows of users ever have the same name, whatever fails.
THEOREM NamesCorrect == SafeSpec => []UniqueNames
<1>1. Init => Inv /\ UniqueNames
  <2>1. Init => Len(users) = 0
    BY EmptySeq DEF Init
  <2> QED
    BY <2>1, InvInit DEF UniqueNames
<1>2. (Inv /\ UniqueNames) /\ [Next]_vars => (Inv /\ UniqueNames)'
  BY InvNext, UniqueNext
<1> QED
  BY <1>1, <1>2, PTL DEF SafeSpec
-----------------------------------------------------------------------------
\* Account data as LoginThread gives it out: of a stored account with its row
\* of upgrades.
Complete(acc) ==
    /\ acc.id \in 1..Len(users)
    /\ users[acc.id].name = acc.name
    /\ upgr[acc.id] # NoRow

\* The data of players, and of results that OnTick has yet to deliver.
SessionsInv ==
    /\ \A s \in Slot : players[s].loggedIn => Complete(players[s].acc)
    /\ \A k \in 1..Len(logins) : logins[k].state = "successful" => Complete(logins[k].acc)

LEMMA CompleteStays ==
    ASSUME Grows, NEW acc, Complete(acc)
    PROVE  Complete(acc)'
BY DEF Grows, Complete

\* Steps that make nobody logged in and complete no result.
LEMMA QuietKeepsSessions ==
    ASSUME Grows, SessionsInv,
           \A s \in Slot : players'[s].loggedIn =>
               /\ players[s].loggedIn
               /\ players'[s].acc.id = players[s].acc.id
               /\ players'[s].acc.name = players[s].acc.name,
           \A k \in 1..Len(logins') : logins'[k].state = "successful" =>
               k \in 1..Len(logins) /\ logins'[k] = logins[k]
    PROVE  SessionsInv'
<1>1. ASSUME NEW s \in Slot, players'[s].loggedIn
      PROVE  Complete(players[s].acc)'
  BY <1>1 DEF Grows, SessionsInv, Complete
<1>2. ASSUME NEW k \in 1..Len(logins'), logins'[k].state = "successful"
      PROVE  Complete(logins[k].acc)'
  <2>1. k \in 1..Len(logins) /\ logins'[k] = logins[k]
    BY <1>2
  <2>2. Complete(logins[k].acc)
    BY <1>2, <2>1 DEF SessionsInv
  <2> QED
    BY <2>1, <2>2 DEF Grows, Complete
<1> QED
  BY <1>1, <1>2 DEF SessionsInv, Complete

\* Gameplay: nobody logs in or changes his account, and at most a save follows.
KeepsWho ==
    /\ logins' = logins
    /\ queue' = queue \/ \E s \in Slot : queue' = Append(queue, SaveJob(players'[s].acc))
    /\ \A s \in Slot : players'[s].loggedIn =>
          /\ players[s].loggedIn
          /\ players'[s].acc.id = players[s].acc.id
          /\ players'[s].acc.name = players[s].acc.name

LEMMA PlayKeepsWho ==
    ASSUME Inv, NEW s \in Slot, NEW acc, NEW save \in BOOLEAN, Play(s, acc, save),
           acc.id = players[s].acc.id, acc.name = players[s].acc.name
    PROVE  KeepsWho
<1>1. /\ players[s].loggedIn
      /\ players' = [players EXCEPT ![s].acc = acc]
      /\ logins' = logins
      /\ queue' = queue \/ queue' = Append(queue, SaveJob(acc))
  BY DEF Play
<1>2. \A t \in Slot : players[t] \in Player
  BY DEF Inv, TypeOK
<1>3. \A t \in Slot : players'[t] = IF t = s THEN [players[s] EXCEPT !.acc = acc] ELSE players[t]
  BY <1>1 DEF Inv, TypeOK
<1>4. players'[s].acc = acc
  BY <1>2, <1>3 DEF Player
<1>5. \A t \in Slot : players'[t].loggedIn =>
          /\ players[t].loggedIn
          /\ players'[t].acc.id = players[t].acc.id
          /\ players'[t].acc.name = players[t].acc.name
  BY <1>1, <1>2, <1>3 DEF Player
<1> QED
  BY <1>1, <1>4, <1>5 DEF KeepsWho

LEMMA GameplayKeepsWho ==
    ASSUME Inv, Gameplay
    PROVE  KeepsWho
<1>0. \A s \in Slot : players[s].acc \in Account
  BY DEF Inv, TypeOK, Player
<1>1. ASSUME NEW s \in Slot, NEW it \in Item, GiveItem(s, it) \/ RemItem(s, it)
      PROVE  KeepsWho
  <2>1. /\ [players[s].acc EXCEPT !.inv = @ \cup {it}].id = players[s].acc.id
        /\ [players[s].acc EXCEPT !.inv = @ \cup {it}].name = players[s].acc.name
        /\ [players[s].acc EXCEPT !.inv = @ \ {it}].id = players[s].acc.id
        /\ [players[s].acc EXCEPT !.inv = @ \ {it}].name = players[s].acc.name
    BY <1>0 DEF Account
  <2> QED
    BY <1>1, <2>1, PlayKeepsWho DEF GiveItem, RemItem
<1>2. ASSUME NEW s \in Slot, NEW levelUp \in BOOLEAN, AddWorkEXP(s, levelUp)
      PROVE  KeepsWho
  <2>1. /\ [players[s].acc EXCEPT !.work = @ + 1].id = players[s].acc.id
        /\ [players[s].acc EXCEPT !.work = @ + 1].name = players[s].acc.name
    BY <1>0 DEF Account
  <2> QED
    BY <1>2, <2>1, PlayKeepsWho DEF AddWorkEXP
<1>3. ASSUME NEW s \in Slot, AddMoney(s)
      PROVE  KeepsWho
  <2>1. /\ [players[s].acc EXCEPT !.money = @ + 1].id = players[s].acc.id
        /\ [players[s].acc EXCEPT !.money = @ + 1].name = players[s].acc.name
    BY <1>0 DEF Account
  <2> QED
    BY <1>3, <2>1, PlayKeepsWho DEF AddMoney
<1>4. ASSUME NEW s \in Slot, AddEXP(s)
      PROVE  KeepsWho
  <2>1. /\ [players[s].acc EXCEPT !.upg = @ + 1].id = players[s].acc.id
        /\ [players[s].acc EXCEPT !.upg = @ + 1].name = players[s].acc.name
    BY <1>0 DEF Account
  <2> QED
    BY <1>4, <2>1, PlayKeepsWho DEF AddEXP
<1>5. ASSUME NEW s \in Slot, NEW lang, ChatLang(s, lang)
      PROVE  KeepsWho
  <2>1. /\ [players[s].acc EXCEPT !.lang = lang].id = players[s].acc.id
        /\ [players[s].acc EXCEPT !.lang = lang].name = players[s].acc.name
    BY <1>0 DEF Account
  <2> QED
    BY <1>5, <2>1, PlayKeepsWho DEF ChatLang
<1>6. ASSUME NEW s \in Slot, NEW clan, AcceptInvite(s, clan)
      PROVE  KeepsWho
  <2>1. /\ [players[s].acc EXCEPT !.clan = clan].id = players[s].acc.id
        /\ [players[s].acc EXCEPT !.clan = clan].name = players[s].acc.name
    BY <1>0 DEF Account
  <2> QED
    BY <1>6, <2>1, PlayKeepsWho DEF AcceptInvite
<1> QED
  BY <1>1, <1>2, <1>3, <1>4, <1>5, <1>6 DEF Gameplay, ItemPlay

LEMMA GameplayKeepsSessions ==
    ASSUME Inv, Grows, SessionsInv, Gameplay
    PROVE  SessionsInv'
BY GameplayKeepsWho, QuietKeepsSessions DEF KeepsWho

LEMMA PlayersKeepSessions ==
    ASSUME Inv, Grows, SessionsInv, Players
    PROVE  SessionsInv'
<1>1. ASSUME NEW s \in Slot, Connect(s) \/ Drop(s)
      PROVE  SessionsInv'
  <2>1. \A t \in Slot : players'[t].loggedIn => players'[t] = players[t]
    BY <1>1 DEF Connect, Drop, Nobody, Inv, TypeOK
  <2>2. logins' = logins
    BY <1>1 DEF Connect, Drop
  <2>3. \A t \in Slot : players[t] \in Player
    BY DEF Inv, TypeOK
  <2> QED
    BY <2>1, <2>2, <2>3, QuietKeepsSessions
<1>2. ASSUME NEW s \in Slot, NEW n \in Login, ChatRegister(s, n)
      PROVE  SessionsInv'
  BY <1>2, QuietKeepsSessions DEF ChatRegister
<1>3. ASSUME NEW s \in Slot, NEW n \in Login, NEW right \in BOOLEAN, ChatLogin(s, n, right)
      PROVE  SessionsInv'
  <2> DEFINE result == [slot |-> s, name |-> Cut[n], state |-> "pending", acc |-> Blank]
  <2>1. players' = players /\ logins' = Append(logins, result) /\ logins \in Seq(LoginResult)
    BY <1>3 DEF ChatLogin, Inv, TypeOK
  <2>2. result.state = "pending" /\ result \in LoginResult
    BY Basics, CutNames DEF LoginResult
  <2> HIDE DEF result
  <2>3. /\ Len(logins) \in Nat /\ Len(logins') = Len(logins) + 1
        /\ logins'[Len(logins) + 1] = result
        /\ \A k \in 1..Len(logins) : logins'[k] = logins[k]
    BY <2>1, <2>2, AppendProperties, LenProperties
  <2>4. \A k \in 1..Len(logins') : logins'[k].state = "successful" =>
            k \in 1..Len(logins) /\ logins'[k] = logins[k]
    BY <2>2, <2>3
  <2> QED
    BY <2>1, <2>4, QuietKeepsSessions
<1> QED
  BY <1>1, <1>2, <1>3 DEF Players

LEMMA TickKeepsSessions ==
    ASSUME Inv, Grows, SessionsInv, NEW autosave \in BOOLEAN, OnTick(autosave)
    PROVE  SessionsInv'
<1>1. ASSUME NEW s \in Slot, players'[s].loggedIn
      PROVE  Complete(players'[s].acc)
  <2>1. players'[s] = Delivered(s)
    BY DEF OnTick
  <2> QED
    BY <1>1, <2>1, DeliveredFacts DEF Inv, SessionsInv
<1>2. ASSUME NEW k \in 1..Len(logins'), logins'[k].state = "successful"
      PROVE  Complete(logins'[k].acc)
  <2> DEFINE S == (1..Len(logins)) \ Handled
  <2>1. PICK kept \in Upwards(S) : logins' = [i \in DOMAIN kept |-> logins[kept[i]]]
    BY DEF OnTick
  <2>2. Len(logins) \in Nat /\ \A j \in S : logins[j] \in LoginResult
    BY LenProperties, ElementOfSeq DEF Inv, TypeOK
  <2>3. \A i \in DOMAIN kept : kept[i] \in S
    BY DEF Upwards
  <2>4. S \in SUBSET (0..Len(logins)) /\ S \subseteq 1..Len(logins)
    BY <2>2
  <2>5. logins' \in [DOMAIN kept -> LoginResult]
    BY <2>1, <2>2, <2>3
  <2> HIDE DEF S
  <2>6. k \in DOMAIN kept
    BY <2>2, <2>4, <2>5, PickedSeq
  <2> QED
    BY <1>2, <2>1, <2>3, <2>4, <2>6 DEF SessionsInv
<1>3. UNCHANGED <<users, upgr>>
  BY DEF OnTick, tables
<1> QED
  BY <1>1, <1>2, <1>3 DEF SessionsInv, Complete

\* The end of a job: each result is what it was, or is the one of the job.
LEMMA FinishAnswers ==
    ASSUME TypeOK, NEW ok, NEW state, NEW acc, Finish(ok, state, acc)
    PROVE  /\ players' = players /\ Len(logins') = Len(logins)
           /\ \A k \in 1..Len(logins) :
                 \/ logins'[k] = logins[k]
                 \/ logins'[k].state = state /\ logins'[k].acc = acc
<1>1. players' = players /\ logins' = Answer(state, acc)
  BY DEF Finish
<1>2. Len(logins) \in Nat /\ \A k \in 1..Len(logins) : logins[k] \in LoginResult
  BY LenProperties, ElementOfSeq DEF TypeOK
<1>3. ASSUME NEW first, logins' = [logins EXCEPT ![first].state = state, ![first].acc = acc]
      PROVE  /\ Len(logins') = Len(logins)
             /\ \A k \in 1..Len(logins) :
                   logins'[k] = IF k = first THEN [logins[k] EXCEPT !.state = state, !.acc = acc]
                                ELSE logins[k]
  <2>1. logins \in [1..Len(logins) -> LoginResult]
    BY LenProperties DEF TypeOK
  <2>2. DOMAIN logins' = 1..Len(logins) /\ Len(logins) \in Nat
    BY <1>2, <1>3, <2>1
  <2>3. \A k \in 1..Len(logins) :
            logins'[k] = IF k = first THEN [logins[k] EXCEPT !.state = state, !.acc = acc]
                         ELSE logins[k]
    BY <1>3, <2>1
  <2>4. Len(logins') = Len(logins)
    <3>1. Len([k \in 1..Len(logins) |-> logins'[k]]) = Len(logins)
      BY <2>2
    <3>2. logins' = [k \in 1..Len(logins) |-> logins'[k]]
      BY <1>3, <2>1
    <3> QED
      BY <3>1, <3>2, Zenon
  <2> QED
    BY <2>3, <2>4
<1>4. \A r \in LoginResult :
          /\ [r EXCEPT !.state = state, !.acc = acc].state = state
          /\ [r EXCEPT !.state = state, !.acc = acc].acc = acc
  BY DEF LoginResult
<1>5. \/ logins' = logins
      \/ \E first : logins' = [logins EXCEPT ![first].state = state, ![first].acc = acc]
  BY <1>1 DEF Answer, Completed
<1> QED
  BY <1>1, <1>2, <1>3, <1>4, <1>5

LEMMA RunJobKeepsSessions ==
    ASSUME Inv, Grows, SessionsInv, RunJob
    PROVE  SessionsInv'
<1>0. TypeOK
  BY DEF Inv
<1>1. ASSUME NEW ok, NEW acc, Finish(ok, "failed", acc)
      PROVE  SessionsInv'
  BY <1>0, <1>1, FinishAnswers, QuietKeepsSessions
<1>2. ASSUME NEW stop, NEW items, NEW work, RunLogin(stop, items, work)
      PROVE  SessionsInv'
  <2> DEFINE job == Head(queue)
             found == {i \in Registered(job.name) : job.right}
             id == CHOOSE i \in found : TRUE
             acc == [name |-> job.name, id |-> id, money |-> users[id].money,
                     clan |-> users[id].clan, lang |-> users[id].lang,
                     inv |-> items, work |-> work, upg |-> upgr[id]]
  <2>1. UNCHANGED tables
    BY <1>2 DEF RunLogin
  <2>2. \/ \E ok \in BOOLEAN : Finish(ok, "failed", Blank)
        \/ Finish(TRUE, "successful", acc) /\ found # {} /\ Loadable(id)
    BY <1>2, Zenon DEF RunLogin
  <2>3. CASE Finish(TRUE, "successful", acc) /\ found # {} /\ Loadable(id)
    <3>1. id \in Registered(job.name)
      BY <2>3
    <3>2. id \in 1..Len(users) /\ users[id].name = job.name /\ upgr[id] # NoRow
      BY <2>3, <3>1 DEF Registered, Loadable
    <3> HIDE DEF id, job
    <3>3. Complete(acc)
      BY <3>2 DEF Complete
    <3> HIDE DEF acc
    <3>4. \A s \in Slot : players'[s].loggedIn => Complete(players'[s].acc)
      BY <1>0, <2>3, FinishAnswers DEF SessionsInv
    <3>5. \A k \in 1..Len(logins') : logins'[k].state = "successful" => Complete(logins'[k].acc)
      <4> SUFFICES ASSUME NEW k \in 1..Len(logins'), logins'[k].state = "successful"
                   PROVE  Complete(logins'[k].acc)
        OBVIOUS
      <4>1. k \in 1..Len(logins)
        BY <1>0, <2>3, FinishAnswers
      <4>2. logins'[k] = logins[k] \/ logins'[k].acc = acc
        BY <1>0, <2>3, <4>1, FinishAnswers
      <4> QED
        BY <3>3, <4>1, <4>2 DEF SessionsInv
    <3> QED
      BY <2>1, <3>4, <3>5 DEF SessionsInv, Complete, tables
  <2> QED
    BY <1>1, <2>2, <2>3
<1>3. CASE Dismiss
  BY <1>1, <1>3 DEF Dismiss
<1>4. ASSUME NEW stop, RunRegister(stop)
      PROVE  SessionsInv'
  BY <1>1, <1>4 DEF RunRegister
<1>5. ASSUME NEW stop, NEW items, RunSave(stop, items)
      PROVE  SessionsInv'
  BY <1>1, <1>5 DEF RunSave
<1> QED
  BY <1>2, <1>3, <1>4, <1>5 DEF RunJob

LEMMA SessionsInit == Init => SessionsInv
BY EmptySeq DEF Init, SessionsInv, Nobody

LEMMA SessionsNext ==
    ASSUME Inv, SessionsInv, [Next]_vars
    PROVE  SessionsInv'
<1>0. Grows
  BY TablesGrow
<1>1. CASE Players
  BY <1>0, <1>1, PlayersKeepSessions
<1>2. CASE Gameplay
  BY <1>0, <1>2, GameplayKeepsSessions
<1>3. CASE \E autosave \in BOOLEAN : OnTick(autosave)
  BY <1>0, <1>3, TickKeepsSessions
<1>4. CASE Reload
  BY <1>4, EmptySeq DEF Reload, SessionsInv, Nobody
<1>5. CASE RunJob
  BY <1>0, <1>5, RunJobKeepsSessions
<1>6. CASE Shutdown \/ Recover \/ UNCHANGED vars
  BY <1>6 DEF Shutdown, Recover, vars, tables, SessionsInv, Complete
<1> QED
  BY <1>1, <1>2, <1>3, <1>4, <1>5, <1>6 DEF Next

\* SessionsComplete: a logged-in player always has a complete account behind
\* him, through lost statements, stale results and reused slots.
THEOREM SessionsCorrect == SafeSpec => []SessionsComplete
<1>1. Init => Inv /\ SessionsInv
  BY InvInit, SessionsInit
<1>2. (Inv /\ SessionsInv) /\ [Next]_vars => (Inv /\ SessionsInv)'
  BY InvNext, SessionsNext
<1>3. SessionsInv => SessionsComplete
  BY DEF SessionsInv, SessionsComplete, Complete
<1> QED
  BY <1>1, <1>2, <1>3, PTL DEF SafeSpec
-----------------------------------------------------------------------------
\* The results that wait for their jobs, and the login jobs of a queue.
Open(rs) == {k \in 1..Len(rs) : rs[k].state = "pending"}
Asks(q) == {k \in 1..Len(q) : q[k].kind = "login"}

\* The place of an element of a set of numbers, counted from the end.
FromEnd(T, k) == Cardinality({x \in T : x >= k})

\* Counted from the end, the pending results and the login jobs agree in their
\* names.  The jobs that come before these belong to results thrown away with a
\* map: while there is one, Answerable keeps every result as it is.
AlignedIn(rs, q) ==
    /\ Cardinality(Open(rs)) <= Cardinality(Asks(q))
    /\ \A k \in Open(rs), j \in Asks(q) :
          FromEnd(Open(rs), k) = FromEnd(Asks(q), j) => rs[k].name = q[j].name

LEMMA PlacesFinite ==
    ASSUME NEW n \in Nat, NEW T \in SUBSET (1..n)
    PROVE  /\ IsFiniteSet(T) /\ Cardinality(T) \in Nat
           /\ \A k \in Nat : IsFiniteSet({x \in T : x >= k}) /\ FromEnd(T, k) \in Nat
<1>1. IsFiniteSet(1..n)
  BY FS_Interval
<1>2. IsFiniteSet(T)
  BY <1>1, FS_Subset
<1>3. ASSUME NEW k \in Nat
      PROVE  IsFiniteSet({x \in T : x >= k})
  BY <1>2, FS_Subset
<1> QED
  BY <1>2, <1>3, FS_CardinalityType DEF FromEnd

\* f numbers the elements of T anew, in the same order.
Renumbers(f, U, T) ==
    /\ f \in [U -> T]
    /\ \A i, j \in U : i < j => f[i] < f[j]
    /\ \A x \in T : \E i \in U : f[i] = x

\* Numbering the elements of a set anew keeps their places.
LEMMA Renumbered ==
    ASSUME NEW T \in SUBSET Nat, NEW U \in SUBSET Nat, IsFiniteSet(U),
           NEW f, Renumbers(f, U, T)
    PROVE  /\ Cardinality(U) = Cardinality(T)
           /\ \A i \in U : FromEnd(U, i) = FromEnd(T, f[i])
<1> USE DEF Renumbers
<1>0. /\ \A i \in U : i \in Nat /\ f[i] \in T
      /\ \A x \in T : x \in Nat
  OBVIOUS
<1>1. \A i, j \in U : f[i] = f[j] => i = j
  <2> SUFFICES ASSUME NEW i \in U, NEW j \in U, f[i] = f[j]
               PROVE  i = j
    OBVIOUS
  <2>1. i \in Nat /\ j \in Nat /\ f[i] \in Nat
    BY <1>0
  <2>2. ~(i < j) /\ ~(j < i)
    BY <2>1
  <2> QED
    BY <2>1, <2>2
<1>2. f \in Bijection(U, T)
  BY <1>1 DEF Bijection, Injection, Surjection, IsInjective
<1>4. Cardinality(U) = Cardinality(T)
  BY <1>2, FS_Bijection DEF ExistsBijection
<1>5. ASSUME NEW i \in U
      PROVE  FromEnd(U, i) = FromEnd(T, f[i])
  <2> DEFINE V == {x \in U : x >= i}
             W == {x \in T : x >= f[i]}
             g == [j \in V |-> f[j]]
  <2>1. ASSUME NEW j \in V
        PROVE  f[j] \in W
    <3>1. j \in U /\ j \in Nat /\ i \in Nat /\ f[j] \in Nat /\ f[i] \in Nat /\ j >= i
      BY <1>0
    <3>2. j = i \/ i < j
      BY <3>1
    <3>3. f[j] = f[i] \/ f[i] < f[j]
      BY <3>1, <3>2
    <3>4. f[j] >= f[i]
      BY <3>1, <3>3
    <3> QED
      BY <1>0, <3>1, <3>4
  <2>2. g \in [V -> W]
    BY <2>1
  <2>3. \A j, k \in V : g[j] = g[k] => j = k
    BY <1>1
  <2>4. \A x \in W : \E j \in V : g[j] = x
    <3> SUFFICES ASSUME NEW x \in W PROVE \E j \in V : f[j] = x
      OBVIOUS
    <3>1. PICK j \in U : f[j] = x
      OBVIOUS
    <3>2. j \in Nat /\ i \in Nat /\ f[j] \in Nat /\ f[i] \in Nat /\ x >= f[i]
      BY <1>0
    <3>3. ~(j < i)
      BY <3>1, <3>2
    <3> QED
      BY <3>1, <3>2, <3>3
  <2>5. IsFiniteSet(V)
    BY FS_Subset
  <2> HIDE DEF V, W, g
  <2>6. g \in Bijection(V, W)
    BY <2>2, <2>3, <2>4 DEF Bijection, Injection, Surjection, IsInjective
  <2>7. Cardinality(V) = Cardinality(W)
    BY <2>5, <2>6, FS_Bijection DEF ExistsBijection
  <2> QED
    BY <2>7 DEF FromEnd, V, W
<1> QED
  BY <1>4, <1>5

\* A new last element moves the others one place from the end.
LEMMA AddedLast ==
    ASSUME NEW n \in Nat, NEW T \in SUBSET (1..n)
    PROVE  /\ Cardinality(T \cup {n + 1}) = Cardinality(T) + 1
           /\ FromEnd(T \cup {n + 1}, n + 1) = 1
           /\ \A k \in T : /\ FromEnd(T \cup {n + 1}, k) = FromEnd(T, k) + 1
                           /\ FromEnd(T, k) >= 1
<1>0. \A x \in T : x \in Nat /\ x <= n /\ x # n + 1 /\ ~(x >= n + 1)
  OBVIOUS
<1>1. IsFiniteSet(T) /\ n + 1 \notin T
  <2>1. IsFiniteSet(T)
    BY PlacesFinite
  <2> QED
    BY <1>0, <2>1
<1>2. Cardinality(T \cup {n + 1}) = Cardinality(T) + 1
  BY <1>1, FS_AddElement
<1>3. FromEnd(T \cup {n + 1}, n + 1) = 1
  <2>1. {x \in T \cup {n + 1} : x >= n + 1} = {n + 1}
    <3>1. n + 1 >= n + 1
      OBVIOUS
    <3> HIDE <1>1
    <3> QED
      BY <1>0, <3>1, Zenon
  <2> QED
    BY <2>1, FS_Singleton DEF FromEnd
<1>4. ASSUME NEW k \in T
      PROVE  /\ FromEnd(T \cup {n + 1}, k) = FromEnd(T, k) + 1
             /\ FromEnd(T, k) >= 1
  <2> DEFINE V == {x \in T : x >= k}
  <2>1. {x \in T \cup {n + 1} : x >= k} = V \cup {n + 1}
    BY <1>0
  <2>2. IsFiniteSet(V) /\ n + 1 \notin V /\ k \in V /\ Cardinality(V) \in Nat
    <3>1. k \in Nat /\ k >= k /\ n + 1 \notin T
      BY <1>0, <1>1
    <3> QED
      BY <3>1, PlacesFinite DEF FromEnd
  <2>3. Cardinality(V \cup {n + 1}) = Cardinality(V) + 1
    BY <2>2, FS_AddElement
  <2>4. Cardinality(V) # 0
    BY <2>2, FS_EmptySet
  <2> HIDE DEF V
  <2>5. Cardinality(V) >= 1
    BY <2>2, <2>4
  <2> QED
    BY <2>1, <2>3, <2>5 DEF FromEnd, V
<1> QED
  BY <1>2, <1>3, <1>4

\* Jobs that are not logins, behind the others.
LEMMA WorkAligned ==
    ASSUME NEW rs, NEW q \in Seq(Job), NEW r \in Seq(Job),
           \A k \in 1..Len(r) : r[k].kind # "login", AlignedIn(rs, q)
    PROVE  AlignedIn(rs, q \o r)
<1>1. /\ Len(q) \in Nat /\ Len(r) \in Nat /\ Len(q \o r) = Len(q) + Len(r)
      /\ \A k \in 1..(Len(q) + Len(r)) :
            (q \o r)[k] = IF k <= Len(q) THEN q[k] ELSE r[k - Len(q)]
  BY ConcatProperties, LenProperties
<1>2. Asks(q \o r) = Asks(q)
  BY <1>1 DEF Asks
<1>3. \A j \in Asks(q) : (q \o r)[j] = q[j]
  BY <1>1 DEF Asks
<1> QED
  BY <1>2, <1>3 DEF AlignedIn

\* A request: a pending result and a login job under one name.
LEMMA RequestAligned ==
    ASSUME NEW rs \in Seq(LoginResult), NEW q \in Seq(Job),
           NEW result \in LoginResult, NEW job \in Job,
           result.state = "pending", job.kind = "login", result.name = job.name,
           AlignedIn(rs, q)
    PROVE  AlignedIn(Append(rs, result), Append(q, job))
<1> DEFINE rs2 == Append(rs, result)
           q2 == Append(q, job)
           m == Len(rs)
           n == Len(q)
<1>1. /\ m \in Nat /\ n \in Nat /\ Len(rs2) = m + 1 /\ Len(q2) = n + 1
      /\ \A k \in 1..m : rs2[k] = rs[k]
      /\ \A k \in 1..n : q2[k] = q[k]
      /\ rs2[m + 1] = result /\ q2[n + 1] = job
  BY AppendProperties, LenProperties
<1> HIDE DEF rs2, q2, m, n
<1>2. Open(rs) \in SUBSET (1..m) /\ Asks(q) \in SUBSET (1..n)
  BY DEF Open, Asks, m, n
<1>3. Open(rs2) = Open(rs) \cup {m + 1} /\ Asks(q2) = Asks(q) \cup {n + 1}
  BY <1>1 DEF Open, Asks, m, n
<1>4. /\ Cardinality(Open(rs2)) = Cardinality(Open(rs)) + 1
      /\ FromEnd(Open(rs2), m + 1) = 1
      /\ \A k \in Open(rs) : FromEnd(Open(rs2), k) = FromEnd(Open(rs), k) + 1 /\ FromEnd(Open(rs), k) >= 1
  BY <1>1, <1>2, <1>3, AddedLast
<1>5. /\ Cardinality(Asks(q2)) = Cardinality(Asks(q)) + 1
      /\ FromEnd(Asks(q2), n + 1) = 1
      /\ \A j \in Asks(q) : FromEnd(Asks(q2), j) = FromEnd(Asks(q), j) + 1 /\ FromEnd(Asks(q), j) >= 1
  BY <1>1, <1>2, <1>3, AddedLast
<1>6. Cardinality(Open(rs)) \in Nat /\ Cardinality(Asks(q)) \in Nat
  BY <1>1, <1>2, PlacesFinite
<1>7. /\ \A k \in Open(rs) : FromEnd(Open(rs), k) \in Nat
      /\ \A j \in Asks(q) : FromEnd(Asks(q), j) \in Nat
  <2>1. \A k \in Nat : FromEnd(Open(rs), k) \in Nat
    BY <1>1, <1>2, PlacesFinite
  <2>2. \A j \in Nat : FromEnd(Asks(q), j) \in Nat
    BY <1>1, <1>2, PlacesFinite
  <2>3. (\A k \in Open(rs) : k \in Nat) /\ \A j \in Asks(q) : j \in Nat
    BY <1>1, <1>2
  <2> QED
    BY <2>1, <2>2, <2>3
<1>8. Cardinality(Open(rs2)) <= Cardinality(Asks(q2))
  BY <1>4, <1>5, <1>6 DEF AlignedIn
<1>9. ASSUME NEW k \in Open(rs2), NEW j \in Asks(q2), FromEnd(Open(rs2), k) = FromEnd(Asks(q2), j)
      PROVE  rs2[k].name = q2[j].name
  <2>1. CASE k = m + 1 /\ j = n + 1
    BY <1>1, <2>1
  <2>2. CASE k \in Open(rs) /\ j \in Asks(q)
    <3>1. FromEnd(Open(rs), k) = FromEnd(Asks(q), j)
      BY <1>4, <1>5, <1>7, <1>9, <2>2
    <3>2. rs[k].name = q[j].name
      BY <2>2, <3>1 DEF AlignedIn
    <3>3. rs2[k] = rs[k] /\ q2[j] = q[j]
      BY <1>1, <1>2, <2>2
    <3> QED
      BY <3>2, <3>3
  <2>3. ~(k = m + 1 /\ j \in Asks(q)) /\ ~(k \in Open(rs) /\ j = n + 1)
    BY <1>4, <1>5, <1>7, <1>9
  <2> QED
    BY <1>3, <2>1, <2>2, <2>3
<1> QED
  BY <1>8, <1>9 DEF AlignedIn, rs2, q2

\* The oldest job leaves: the login jobs behind it keep their places.
LEMMA TailPlaces ==
    ASSUME NEW q \in Seq(Job), q # << >>
    PROVE  /\ Cardinality(Asks(Tail(q))) = Cardinality(Asks(q) \ {1})
           /\ \A j \in Asks(Tail(q)) :
                 /\ j + 1 \in Asks(q) /\ Tail(q)[j] = q[j + 1]
                 /\ FromEnd(Asks(Tail(q)), j) = FromEnd(Asks(q), j + 1)
<1> DEFINE t == Tail(q)
           J == Asks(q) \ {1}
           U == Asks(t)
           f == [j \in U |-> j + 1]
<1>1. /\ Len(q) \in Nat /\ t \in Seq(Job) /\ Len(t) = Len(q) - 1 /\ Len(q) >= 1
      /\ \A k \in 1..Len(t) : t[k] = q[k + 1]
  BY HeadTailProperties, LenProperties, EmptySeq
<1>2. /\ J \in SUBSET (1..Len(q)) /\ U \in SUBSET (1..Len(t)) /\ Len(t) \in Nat
      /\ Len(q) \in Nat
  BY <1>1 DEF Asks
<1>3. f \in [U -> J]
  BY <1>1 DEF Asks
<1>4. \A i, j \in U : i < j => f[i] < f[j]
  BY <1>1 DEF Asks
<1>5. \A x \in J : \E i \in U : f[i] = x
  <2> SUFFICES ASSUME NEW x \in J PROVE x - 1 \in U /\ f[x - 1] = x
    OBVIOUS
  <2>1. x - 1 \in 1..Len(t) /\ (x - 1) + 1 = x
    BY <1>1 DEF Asks
  <2>2. x - 1 \in U
    BY <1>1, <2>1 DEF Asks
  <2> QED
    BY <2>1, <2>2
<1>6. \A j \in U : f[j] = j + 1 /\ j + 1 \in J /\ t[j] = q[j + 1] /\ j + 1 >= 1 /\ j + 1 > 1
  BY <1>1, <1>3 DEF Asks
<1> HIDE DEF f, J, U, t
<1>7. Cardinality(U) = Cardinality(J) /\ \A j \in U : FromEnd(U, j) = FromEnd(J, f[j])
  <2>1. Renumbers(f, U, J)
    BY <1>3, <1>4, <1>5, Zenon DEF Renumbers
  <2>2. J \in SUBSET Nat /\ U \in SUBSET Nat /\ IsFiniteSet(U)
    <3>1. J \in SUBSET Nat /\ U \in SUBSET Nat
      BY <1>2
    <3>2. IsFiniteSet(1..Len(t))
      BY <1>2, FS_Interval
    <3>3. IsFiniteSet(U)
      BY <1>2, <3>2, FS_Subset
    <3> QED
      BY <3>1, <3>3
  <2> QED
    BY <2>1, <2>2, Renumbered
<1>8. \A j \in U : FromEnd(J, j + 1) = FromEnd(Asks(q), j + 1)
  <2> SUFFICES ASSUME NEW j \in U
               PROVE  {x \in J : x >= j + 1} = {x \in Asks(q) : x >= j + 1}
    BY DEF FromEnd
  <2>1. j + 1 \in Nat /\ j + 1 > 1
    BY <1>2, <1>6
  <2>2. ~(1 >= j + 1)
    BY <2>1
  <2> QED
    BY <2>2 DEF J
<1>9. \A j \in J : j \in Asks(q)
  BY DEF J
<1> QED
  BY <1>6, <1>7, <1>8, <1>9 DEF J, U, t

LEMMA TailAligned ==
    ASSUME NEW rs, NEW q \in Seq(Job), q # << >>,
           Cardinality(Open(rs)) <= Cardinality(Asks(Tail(q))), AlignedIn(rs, q)
    PROVE  AlignedIn(rs, Tail(q))
<1> SUFFICES ASSUME NEW k \in Open(rs), NEW j \in Asks(Tail(q)),
                    FromEnd(Open(rs), k) = FromEnd(Asks(Tail(q)), j)
             PROVE  rs[k].name = Tail(q)[j].name
  BY DEF AlignedIn
<1>1. /\ j + 1 \in Asks(q) /\ Tail(q)[j] = q[j + 1]
      /\ FromEnd(Asks(Tail(q)), j) = FromEnd(Asks(q), j + 1)
  BY TailPlaces
<1> QED
  BY <1>1 DEF AlignedIn

\* The first pending result is answered.
LEMMA AnsweredAligned ==
    ASSUME NEW rs \in Seq(LoginResult), NEW rs2, NEW q \in Seq(Job), NEW first \in Open(rs),
           \A k \in Open(rs) : first <= k,
           Len(rs2) = Len(rs), rs2[first].state # "pending",
           \A k \in 1..Len(rs) : k # first => rs2[k] = rs[k],
           AlignedIn(rs, q)
    PROVE  /\ Cardinality(Open(rs2)) = Cardinality(Open(rs)) - 1
           /\ AlignedIn(rs2, q)
<1>1. Len(rs) \in Nat
  BY LenProperties
<1>2. Open(rs) \in SUBSET (1..Len(rs)) /\ \A k \in Open(rs) : k \in Nat
  BY <1>1 DEF Open
<1>3. Open(rs2) = Open(rs) \ {first}
  BY <1>2 DEF Open
<1>4. IsFiniteSet(Open(rs)) /\ Cardinality(Open(rs)) \in Nat
  BY <1>1, <1>2, PlacesFinite
<1>5. Cardinality(Open(rs2)) = Cardinality(Open(rs)) - 1
  BY <1>3, <1>4, FS_RemoveElement
<1>6. ASSUME NEW k \in Open(rs2)
      PROVE  k \in Open(rs) /\ rs2[k] = rs[k] /\ FromEnd(Open(rs2), k) = FromEnd(Open(rs), k)
  <2>1. k \in Open(rs) /\ k # first /\ k \in 1..Len(rs) /\ first \in Nat /\ k \in Nat
    BY <1>2, <1>3
  <2>2. ~(first >= k)
    BY <2>1
  <2>3. {x \in Open(rs2) : x >= k} = {x \in Open(rs) : x >= k}
    BY <1>3, <2>2
  <2> QED
    BY <2>1, <2>3 DEF FromEnd
<1>7. Cardinality(Open(rs)) - 1 <= Cardinality(Asks(q))
  <2>1. Asks(q) \in SUBSET (1..Len(q)) /\ Len(q) \in Nat
    BY LenProperties DEF Asks
  <2>2. Cardinality(Asks(q)) \in Nat
    BY <2>1, PlacesFinite
  <2> QED
    BY <1>4, <2>2 DEF AlignedIn
<1> QED
  BY <1>5, <1>6, <1>7 DEF AlignedIn

\* Such a sequence of numbers goes through all of them, and through each once.
LEMMA PickedAll ==
    ASSUME NEW n \in Nat, NEW S \in SUBSET (1..n), NEW f \in Upwards(S)
    PROVE  /\ Cardinality(S) \in Nat /\ DOMAIN f = 1..Cardinality(S)
           /\ \A i \in DOMAIN f : f[i] \in S /\ f[i] \in Nat
           /\ \A i, j \in DOMAIN f : i < j => f[i] < f[j]
           /\ \A i, j \in DOMAIN f : f[i] = f[j] => i = j
           /\ \A x \in S : \E i \in DOMAIN f : f[i] = x
<1> DEFINE c == Cardinality(S)
<1>1. IsFiniteSet(S) /\ c \in Nat
  <2>1. IsFiniteSet(1..n)
    BY FS_Interval
  <2>2. IsFiniteSet(S)
    BY <2>1, FS_Subset
  <2> QED
    BY <2>2, FS_CardinalityType
<1>2. /\ f \in [1..c -> S]
      /\ \A i, j \in 1..c : i < j => f[i] < f[j]
  BY DEF Upwards
<1> HIDE DEF c
<1>3. \A i \in 1..c : f[i] \in S /\ f[i] \in Nat
  <2>1. \A x \in S : x \in Nat
    OBVIOUS
  <2> QED
    BY <1>2, <2>1
<1>4. \A i, j \in 1..c : f[i] = f[j] => i = j
  <2> SUFFICES ASSUME NEW i \in 1..c, NEW j \in 1..c, f[i] = f[j] PROVE i = j
    OBVIOUS
  <2>1. ~(i < j) /\ ~(j < i)
    BY <1>2, <1>3
  <2> QED
    BY <1>1, <2>1
<1>5. f \in Injection(1..c, S)
  BY <1>2, <1>4 DEF Injection, IsInjective
<1>6. \A x \in S : \E i \in 1..c : f[i] = x
  <2>1. Cardinality(1..c) = c
    BY <1>1, FS_Interval
  <2>2. f \in Surjection(1..c, S)
    BY <1>1, <1>5, <2>1, FS_Injection DEF c
  <2> QED
    BY <2>2 DEF Surjection
<1>7. DOMAIN f = 1..c
  BY <1>2
<1> QED
  BY <1>1, <1>2, <1>3, <1>4, <1>6, <1>7 DEF c

\* OnTick throws away results that are not pending.
LEMMA ErasedAligned ==
    ASSUME NEW rs \in Seq(LoginResult), NEW S, S \subseteq 1..Len(rs), Open(rs) \subseteq S,
           NEW kept \in Upwards(S), NEW q, AlignedIn(rs, q)
    PROVE  AlignedIn([i \in DOMAIN kept |-> rs[kept[i]]], q)
<1> DEFINE c == Cardinality(S)
           rs2 == [i \in DOMAIN kept |-> rs[kept[i]]]
           U == Open(rs2)
           f == [i \in U |-> kept[i]]
<1>1. Len(rs) \in Nat /\ S \in SUBSET (1..Len(rs))
  BY LenProperties
<1>2. /\ c \in Nat /\ DOMAIN kept = 1..c
      /\ \A i \in DOMAIN kept : kept[i] \in S /\ kept[i] \in Nat
      /\ \A i, j \in DOMAIN kept : i < j => kept[i] < kept[j]
      /\ \A x \in S : \E i \in DOMAIN kept : kept[i] = x
  <2> HIDE DEF rs2, U, f
  <2> QED
    BY <1>1, PickedAll
<1> HIDE DEF c
<1>3. \A i, j \in 1..c : i < j => kept[i] < kept[j]
  BY <1>2
<1>4. \A i \in 1..c : kept[i] \in S /\ kept[i] \in Nat
  BY <1>2
<1>6. \A x \in S : \E i \in 1..c : kept[i] = x
  BY <1>2
<1>7. /\ DOMAIN rs2 = 1..c /\ Len(rs2) = c
      /\ \A i \in 1..c : rs2[i] = rs[kept[i]]
  <2>1. DOMAIN kept = 1..c
    BY <1>2
  <2>2. rs2 = [i \in 1..c |-> rs[kept[i]]]
    BY <2>1
  <2>3. Len([i \in 1..c |-> rs[kept[i]]]) = c
    BY <1>2
  <2> QED
    BY <2>2, <2>3, Zenon
<1> HIDE DEF rs2
<1>8. U \in SUBSET (1..c) /\ f \in [U -> Open(rs)]
  BY <1>1, <1>4, <1>7 DEF Open
<1>9. \A i, j \in U : i < j => f[i] < f[j]
  BY <1>3, <1>8
<1>10. \A x \in Open(rs) : \E i \in U : f[i] = x
  <2> SUFFICES ASSUME NEW x \in Open(rs) PROVE \E i \in U : f[i] = x
    OBVIOUS
  <2>1. PICK i \in 1..c : kept[i] = x
    BY <1>6
  <2>2. i \in U
    BY <1>7, <2>1 DEF Open
  <2> QED
    BY <2>1, <2>2
<1>11. /\ Open(rs) \in SUBSET (1..Len(rs)) /\ Len(rs) \in Nat /\ c \in Nat
       /\ \A i \in U : f[i] = kept[i] /\ i \in 1..c /\ f[i] \in Open(rs)
  BY <1>1, <1>2, <1>8 DEF Open
<1> HIDE DEF U, f
<1>12. Cardinality(U) = Cardinality(Open(rs)) /\ \A i \in U : FromEnd(U, i) = FromEnd(Open(rs), f[i])
  <2>1. Renumbers(f, U, Open(rs))
    BY <1>8, <1>9, <1>10, Zenon DEF Renumbers
  <2>2. Open(rs) \in SUBSET Nat /\ U \in SUBSET Nat /\ IsFiniteSet(U)
    <3>1. Open(rs) \in SUBSET Nat /\ U \in SUBSET Nat
      BY <1>8, <1>11
    <3>2. IsFiniteSet(1..c)
      BY <1>11, FS_Interval
    <3>3. IsFiniteSet(U)
      BY <1>8, <3>2, FS_Subset
    <3> QED
      BY <3>1, <3>3
  <2> QED
    BY <2>1, <2>2, Renumbered
<1>13. ASSUME NEW i \in U, NEW j \in Asks(q), FromEnd(U, i) = FromEnd(Asks(q), j)
       PROVE  rs2[i].name = q[j].name
  BY <1>7, <1>11, <1>12, <1>13 DEF AlignedIn
<1> QED
  BY <1>12, <1>13 DEF AlignedIn, U, rs2
-----------------------------------------------------------------------------
Aligned == AlignedIn(logins, queue)

\* The result that the end of the oldest job completes.
First == CHOOSE k \in Pending : \A j \in Pending : k <= j

LEMMA FirstPending ==
    ASSUME Inv, Aligned, queue # << >>, Answerable
    PROVE  /\ First \in Open(logins) /\ \A k \in Open(logins) : First <= k
           /\ logins[First].name = Head(queue).name
<1>1. /\ queue \in Seq(Job) /\ Len(queue) \in Nat /\ Len(queue) >= 1 /\ Head(queue) = queue[1]
      /\ logins \in Seq(LoginResult) /\ Len(logins) \in Nat
  BY HeadTailProperties, LenProperties, EmptySeq DEF Inv, TypeOK
<1>2. Pending = Open(logins) /\ Kinds("login") = Asks(queue)
  BY DEF Pending, Open, Kinds, Asks
<1>3. Cardinality(Asks(queue)) = Cardinality(Open(logins)) /\ 1 \in Asks(queue)
  <2>1. 1 \in Asks(queue)
    BY <1>1 DEF Answerable, Asks
  <2> QED
    BY <1>2, <2>1 DEF Answerable
<1>4. /\ Open(logins) \in SUBSET (1..Len(logins)) /\ Asks(queue) \in SUBSET (1..Len(queue))
      /\ Open(logins) \in SUBSET Nat /\ Asks(queue) \in SUBSET Nat
  BY <1>1 DEF Open, Asks
<1>5. Open(logins) # {}
  <2>1. IsFiniteSet(Asks(queue))
    BY <1>1, <1>4, PlacesFinite
  <2>2. Cardinality(Asks(queue)) # 0
    BY <1>3, <2>1, FS_EmptySet
  <2> QED
    BY <1>3, <2>2, FS_EmptySet
<1>6. First \in Open(logins) /\ \A k \in Open(logins) : First <= k
  BY <1>2, <1>4, <1>5, Smallest DEF First
<1>7. FromEnd(Open(logins), First) = Cardinality(Open(logins))
  <2>1. \A k \in Open(logins) : k >= First
    BY <1>4, <1>6
  <2>2. {x \in Open(logins) : x >= First} = Open(logins)
    BY <2>1
  <2> QED
    BY <2>2 DEF FromEnd
<1>8. FromEnd(Asks(queue), 1) = Cardinality(Asks(queue))
  <2>1. \A k \in Asks(queue) : k >= 1
    BY <1>4
  <2>2. {x \in Asks(queue) : x >= 1} = Asks(queue)
    BY <2>1
  <2> QED
    BY <2>2 DEF FromEnd
<1> QED
  BY <1>1, <1>3, <1>6, <1>7, <1>8 DEF Aligned, AlignedIn

\* The end of a job: nothing happens to the results but that, if this was a
\* login whose result is still held, the first pending one is completed.
LEMMA FinishCompletes ==
    ASSUME Inv, Aligned, queue # << >>, NEW ok, NEW state \in {"failed", "successful"}, NEW acc,
           Finish(ok, state, acc)
    PROVE  /\ ~Answerable => logins' = logins
           /\ Answerable =>
                 /\ Len(logins') = Len(logins)
                 /\ logins'[First] = [logins[First] EXCEPT !.state = state, !.acc = acc]
                 /\ \A k \in 1..Len(logins) : k # First => logins'[k] = logins[k]
<1>1. logins' = IF Answerable THEN [logins EXCEPT ![First].state = state, ![First].acc = acc]
                ELSE logins
  BY DEF Finish, Answer, Completed, First
<1>2. logins \in [1..Len(logins) -> LoginResult] /\ Len(logins) \in Nat
  BY LenProperties DEF Inv, TypeOK
<1>3. ASSUME Answerable
      PROVE  /\ Len(logins') = Len(logins)
             /\ logins'[First] = [logins[First] EXCEPT !.state = state, !.acc = acc]
             /\ \A k \in 1..Len(logins) : k # First => logins'[k] = logins[k]
  <2>1. First \in 1..Len(logins)
    BY <1>3, FirstPending DEF Open
  <2>2. Len(logins') = Len(logins)
    BY <1>3, FinishAnswers DEF Inv
  <2> HIDE DEF First
  <2> QED
    BY <1>1, <1>2, <1>3, <2>1, <2>2
<1> QED
  BY <1>1, <1>3

LEMMA FinishAligned ==
    ASSUME Inv, Aligned, queue # << >>, NEW ok, NEW state \in {"failed", "successful"}, NEW acc,
           Finish(ok, state, acc)
    PROVE  Aligned'
<1> DEFINE O == Cardinality(Open(logins))
           A == Cardinality(Asks(queue))
           B == Cardinality(Asks(Tail(queue)))
<1>1. /\ queue \in Seq(Job) /\ Len(queue) \in Nat /\ Len(queue) >= 1 /\ Head(queue) = queue[1]
      /\ logins \in Seq(LoginResult) /\ Len(logins) \in Nat /\ queue' = Tail(queue)
  BY HeadTailProperties, LenProperties, EmptySeq DEF Inv, TypeOK, Finish
<1>2. IsFiniteSet(Asks(queue)) /\ A \in Nat
  <2>1. Asks(queue) \in SUBSET (1..Len(queue))
    BY DEF Asks
  <2> QED
    BY <1>1, <2>1, PlacesFinite
<1>3. O \in Nat /\ O <= A
  <2>1. Open(logins) \in SUBSET (1..Len(logins))
    BY DEF Open
  <2>2. O \in Nat
    BY <1>1, <2>1, PlacesFinite
  <2> QED
    BY <2>2 DEF Aligned, AlignedIn
<1>4. B = IF Head(queue).kind = "login" THEN A - 1 ELSE A
  <2>1. B = Cardinality(Asks(queue) \ {1})
    BY <1>1, TailPlaces
  <2>2. 1 \in Asks(queue) <=> Head(queue).kind = "login"
    BY <1>1 DEF Asks
  <2> QED
    BY <1>2, <2>1, <2>2, FS_RemoveElement
<1>5. Answerable <=> Head(queue).kind = "login" /\ A = O
  BY DEF Answerable, Pending, Kinds, Open, Asks
<1> HIDE DEF O, A, B
<1>6. CASE ~Answerable
  <2>1. logins' = logins
    BY <1>6, FinishCompletes
  <2>2. O <= B
    BY <1>2, <1>3, <1>4, <1>5, <1>6
  <2> QED
    BY <1>1, <2>1, <2>2, TailAligned DEF Aligned, O, B
<1>7. CASE Answerable
  <2>1. /\ First \in Open(logins) /\ \A k \in Open(logins) : First <= k
        /\ First \in 1..Len(logins)
    BY <1>7, FirstPending DEF Open
  <2>2. /\ Len(logins') = Len(logins)
        /\ logins'[First] = [logins[First] EXCEPT !.state = state, !.acc = acc]
        /\ \A k \in 1..Len(logins) : k # First => logins'[k] = logins[k]
    BY <1>7, FinishCompletes
  <2>3. logins'[First].state # "pending"
    <3>1. logins[First] \in LoginResult
      BY <1>1, <2>1, ElementOfSeq
    <3>2. logins'[First].state = state
      BY <2>2, <3>1 DEF LoginResult
    <3> QED
      BY <3>2
  <2>4. Cardinality(Open(logins')) = O - 1 /\ AlignedIn(logins', queue)
    BY <1>1, <2>1, <2>2, <2>3, AnsweredAligned DEF Aligned, O
  <2>5. Cardinality(Open(logins')) <= B
    BY <1>2, <1>3, <1>4, <1>5, <1>7, <2>4
  <2> QED
    BY <1>1, <2>4, <2>5, TailAligned DEF Aligned, B
<1> QED
  BY <1>6, <1>7

\* What a job leaves for OnTick: failure, or the data of the account asked for.
LEMMA RunJobFinishes ==
    ASSUME RunJob
    PROVE  /\ queue # << >>
           /\ \/ \E ok : Finish(ok, "failed", Blank)
              \/ \E acc : acc.name = Head(queue).name /\ Finish(TRUE, "successful", acc)
<1>1. CASE Dismiss
  BY <1>1 DEF Dismiss
<1>2. ASSUME NEW stop, RunRegister(stop)
      PROVE  queue # << >> /\ \E ok : Finish(ok, "failed", Blank)
  BY <1>2 DEF RunRegister, Running
<1>3. ASSUME NEW stop, NEW items, RunSave(stop, items)
      PROVE  queue # << >> /\ \E ok : Finish(ok, "failed", Blank)
  BY <1>3 DEF RunSave, Running
<1>4. ASSUME NEW stop, NEW items, NEW work, RunLogin(stop, items, work)
      PROVE  /\ queue # << >>
             /\ \/ \E ok : Finish(ok, "failed", Blank)
                \/ \E acc : acc.name = Head(queue).name /\ Finish(TRUE, "successful", acc)
  <2> DEFINE job == Head(queue)
             found == {i \in Registered(job.name) : job.right}
             id == CHOOSE i \in found : TRUE
             acc == [name |-> job.name, id |-> id, money |-> users[id].money,
                     clan |-> users[id].clan, lang |-> users[id].lang,
                     inv |-> items, work |-> work, upg |-> upgr[id]]
  <2>1. queue # << >>
    BY <1>4 DEF RunLogin, Running
  <2>2. (\E ok : Finish(ok, "failed", Blank)) \/ Finish(TRUE, "successful", acc)
    BY <1>4, Zenon DEF RunLogin
  <2>3. acc.name = Head(queue).name
    OBVIOUS
  <2> HIDE DEF acc
  <2> QED
    BY <2>1, <2>2, <2>3, Zenon
<1> QED
  BY <1>1, <1>2, <1>3, <1>4 DEF RunJob

\* A job that asks nothing, or none.
LEMMA SubmitAligned ==
    ASSUME Inv, Aligned, logins' = logins,
           queue' = queue \/ \E job \in Job : job.kind # "login" /\ queue' = Append(queue, job)
    PROVE  Aligned'
<1>1. CASE queue' = queue
  BY <1>1 DEF Aligned
<1>2. ASSUME NEW job \in Job, job.kind # "login", queue' = Append(queue, job)
      PROVE  Aligned'
  <2>1. queue \in Seq(Job)
    BY DEF Inv, TypeOK
  <2>2. <<job>> \in Seq(Job) /\ Len(<<job>>) = 1 /\ <<job>>[1] = job
    OBVIOUS
  <2>3. queue' = queue \o <<job>>
    BY <1>2, <2>1, AppendIsConcat
  <2>4. \A k \in 1..Len(<<job>>) : <<job>>[k].kind # "login"
    BY <1>2, <2>2
  <2>5. AlignedIn(logins, queue \o <<job>>)
    BY <2>1, <2>2, <2>4, WorkAligned DEF Aligned
  <2> QED
    BY <2>3, <2>5 DEF Aligned
<1> QED
  BY <1>1, <1>2

LEMMA LoginAligned ==
    ASSUME Inv, Aligned, NEW s \in Slot, NEW n \in Login, NEW right \in BOOLEAN, ChatLogin(s, n, right)
    PROVE  Aligned'
<1> DEFINE job == [kind |-> "login", name |-> Cut[n], right |-> right, acc |-> Blank]
           result == [slot |-> s, name |-> Cut[n], state |-> "pending", acc |-> Blank]
<1>1. queue' = Append(queue, job) /\ logins' = Append(logins, result)
  BY DEF ChatLogin
<1>2. job \in Job /\ job.kind = "login" /\ job.name = Cut[n]
  BY Basics, CutNames DEF Job
<1>3. result \in LoginResult /\ result.state = "pending" /\ result.name = Cut[n]
  BY Basics, CutNames DEF LoginResult
<1>4. queue \in Seq(Job) /\ logins \in Seq(LoginResult)
  BY DEF Inv, TypeOK
<1> HIDE DEF job, result
<1> QED
  BY <1>1, <1>2, <1>3, <1>4, RequestAligned DEF Aligned

\* The recursion behind Handled has a solution: a shortest stretch of results
\* without one would continue a stretch that has one.
LEMMA RunExists ==
    ASSUME NEW n \in Nat, NEW D
    PROVE  \E h : h = [k \in 0..n |-> IF k = 0 THEN FALSE ELSE k \in D /\ ~h[k - 1]]
<1> DEFINE Run(m, h) == h = [k \in 0..m |-> IF k = 0 THEN FALSE ELSE k \in D /\ ~h[k - 1]]
           T == {m \in Nat : ~\E h : Run(m, h)}
<1> SUFFICES ASSUME T # {} PROVE FALSE
  OBVIOUS
<1>1. PICK m \in T : \A y \in T : m <= y
  BY Smallest
<1>2. m \in Nat /\ ~\E h : Run(m, h)
  BY <1>1
<1>3. CASE m = 0
  <2> DEFINE h == [k \in 0..0 |-> FALSE]
  <2>1. Run(0, h)
    OBVIOUS
  <2> QED
    BY <1>2, <1>3, <2>1
<1>4. CASE m # 0
  <2>1. m - 1 \in Nat /\ ~(m <= m - 1)
    BY <1>2, <1>4
  <2>2. PICK h : Run(m - 1, h)
    BY <1>1, <2>1
  <2> DEFINE g == [k \in 0..m |-> IF k = m THEN m \in D /\ ~h[m - 1] ELSE h[k]]
  <2>3. \A k \in 0..(m - 1) : /\ h[k] = IF k = 0 THEN FALSE ELSE k \in D /\ ~h[k - 1]
                              /\ g[k] = h[k]
    <3> SUFFICES ASSUME NEW k \in 0..(m - 1)
                 PROVE  /\ h[k] = IF k = 0 THEN FALSE ELSE k \in D /\ ~h[k - 1]
                        /\ g[k] = h[k]
      OBVIOUS
    <3>1. k \in 0..m /\ k # m
      BY <1>2
    <3>2. g[k] = h[k]
      BY <3>1, Zenon
    <3>3. [j \in 0..(m - 1) |-> IF j = 0 THEN FALSE ELSE j \in D /\ ~h[j - 1]][k]
            = IF k = 0 THEN FALSE ELSE k \in D /\ ~h[k - 1]
      BY Zenon
    <3>4. h[k] = [j \in 0..(m - 1) |-> IF j = 0 THEN FALSE ELSE j \in D /\ ~h[j - 1]][k]
      BY <2>2, Zenon
    <3> QED
      BY <3>2, <3>3, <3>4, Zenon
  <2>4. g[m] = (m \in D /\ ~h[m - 1]) /\ g[m - 1] = h[m - 1]
    BY <1>2, <2>1
  <2>5. ASSUME NEW k \in 0..m
        PROVE  g[k] = IF k = 0 THEN FALSE ELSE k \in D /\ ~g[k - 1]
    <3>1. CASE k = m
      BY <1>4, <2>4, <3>1, Zenon
    <3>2. CASE k # m
      <4>1. k \in 0..(m - 1) /\ (k # 0 => k - 1 \in 0..(m - 1))
        BY <1>2, <3>2
      <4> QED
        BY <2>3, <4>1, Zenon
    <3> QED
      BY <3>1, <3>2
  <2>6. Run(m, g)
    BY <2>5, Zenon
  <2> QED
    BY <1>2, <2>6
<1> QED
  BY <1>3, <1>4

\* OnTick hands out completed results only, and those of present players.
LEMMA HandledDeliverable ==
    ASSUME TypeOK, NEW k \in Handled
    PROVE  k \in 1..Len(logins) /\ Deliverable(k)
<1> DEFINE n == Len(logins)
           D == {j \in 1..n : Deliverable(j)}
           h == CHOOSE h : h = [j \in 0..n |-> IF j = 0 THEN FALSE ELSE Deliverable(j) /\ ~h[j - 1]]
<1>1. n \in Nat
  BY LenProperties DEF TypeOK
<1>2. PICK g : g = [j \in 0..n |-> IF j = 0 THEN FALSE ELSE j \in D /\ ~g[j - 1]]
  BY <1>1, RunExists
<1>3. [j \in 0..n |-> IF j = 0 THEN FALSE ELSE j \in D /\ ~g[j - 1]]
        = [j \in 0..n |-> IF j = 0 THEN FALSE ELSE Deliverable(j) /\ ~g[j - 1]]
  <2> SUFFICES ASSUME NEW j \in 0..n
               PROVE  (IF j = 0 THEN FALSE ELSE j \in D /\ ~g[j - 1])
                        = IF j = 0 THEN FALSE ELSE Deliverable(j) /\ ~g[j - 1]
    BY Zenon
  <2>1. j # 0 => j \in 1..n
    BY <1>1
  <2> QED
    BY <2>1, Zenon
<1>4. h = [j \in 0..n |-> IF j = 0 THEN FALSE ELSE Deliverable(j) /\ ~h[j - 1]]
  BY <1>2, <1>3
<1>5. k \in 1..n /\ h[k]
  BY DEF Handled
<1>6. k \in 0..n /\ k # 0
  BY <1>1, <1>5
<1>7. h[k] = [j \in 0..n |-> IF j = 0 THEN FALSE ELSE Deliverable(j) /\ ~h[j - 1]][k]
  BY <1>4, Zenon
<1> HIDE DEF h
<1>8. h[k] = (Deliverable(k) /\ ~h[k - 1])
  BY <1>6, <1>7, Zenon
<1> QED
  BY <1>5, <1>8, Zenon

\* OnTick keeps the results that it does not handle, in their order.
LEMMA TickErases ==
    ASSUME Inv, NEW autosave \in BOOLEAN, OnTick(autosave)
    PROVE  \E kept \in Upwards((1..Len(logins)) \ Handled) :
              /\ logins' = [i \in DOMAIN kept |-> logins[kept[i]]]
              /\ DOMAIN kept = 1..Len(logins')
              /\ \A i \in 1..Len(logins') :
                    /\ logins'[i] = logins[kept[i]]
                    /\ kept[i] \in 1..Len(logins) /\ kept[i] \notin Handled
              /\ \A i, j \in 1..Len(logins') : kept[i] = kept[j] => i = j
              /\ \A k \in 1..Len(logins) :
                    k \notin Handled => \E i \in 1..Len(logins') : logins'[i] = logins[k]
<1> DEFINE S == (1..Len(logins)) \ Handled
<1>1. PICK kept \in Upwards(S) : logins' = [i \in DOMAIN kept |-> logins[kept[i]]]
  BY DEF OnTick
<1>2. /\ Len(logins) \in Nat /\ S \in SUBSET (0..Len(logins)) /\ S \in SUBSET (1..Len(logins))
      /\ \A k \in S : k \in 1..Len(logins) /\ k \notin Handled /\ logins[k] \in LoginResult
  BY LenProperties, ElementOfSeq DEF Inv, TypeOK
<1>3. \A k \in 1..Len(logins) : k \notin Handled => k \in S
  OBVIOUS
<1> HIDE DEF S
<1>4. /\ \A i \in DOMAIN kept : kept[i] \in S
      /\ \A i, j \in DOMAIN kept : kept[i] = kept[j] => i = j
      /\ \A x \in S : \E i \in DOMAIN kept : kept[i] = x
  <2> DEFINE n == Len(logins)
  <2>1. n \in Nat /\ S \in SUBSET (1..n) /\ kept \in Upwards(S)
    BY <1>2
  <2> HIDE DEF n
  <2> QED
    BY ONLY <2>1, PickedAll
<1>5. logins' \in [DOMAIN kept -> LoginResult]
  BY <1>1, <1>2, <1>4
<1>6. DOMAIN kept = 1..Len(logins')
  BY <1>2, <1>5, PickedSeq
<1>7. \A i \in DOMAIN kept : logins'[i] = logins[kept[i]]
  BY <1>1
<1>8. \A k \in 1..Len(logins) :
          k \notin Handled => \E i \in 1..Len(logins') : logins'[i] = logins[k]
  BY <1>3, <1>4, <1>6, <1>7
<1> QED
  BY <1>1, <1>2, <1>4, <1>6, <1>7, <1>8 DEF S

\* What OnTick submits are saves of players.
LEMMA TickSaves ==
    ASSUME Inv, NEW autosave \in BOOLEAN, OnTick(autosave)
    PROVE  \E r \in Seq(Job) :
              /\ queue' = queue \o r
              /\ \A i \in 1..Len(r) : r[i].kind = "save" /\ \E s \in Slot : r[i].acc = players'[s].acc
<1> DEFINE now == [s \in Slot |-> Delivered(s)]
           present == {s \in Slot : autosave /\ now[s].here}
<1>1. PICK saved \in Upwards(present) :
          queue' = queue \o [i \in DOMAIN saved |-> SaveJob(now[saved[i]].acc)]
  BY DEF OnTick
<1>2. NumSlots \in Nat
  BY AccountsAssumption
<1>3. present \in SUBSET (0..NumSlots)
  BY <1>2 DEF Slot
<1>4. \A i \in DOMAIN saved : saved[i] \in Slot
  BY DEF Upwards
<1>5. \A s \in Slot : now[s].acc \in Account
  BY DeliveredType DEF Inv, Player
<1>6. players' = now
  BY DEF OnTick
<1> DEFINE r == [i \in DOMAIN saved |-> SaveJob(now[saved[i]].acc)]
<1> HIDE DEF now
<1>7. /\ r \in [DOMAIN saved -> Job]
      /\ \A i \in DOMAIN saved : r[i].kind = "save" /\ r[i].acc = now[saved[i]].acc
  BY <1>4, <1>5, Basics DEF SaveJob
<1> HIDE DEF present, r
<1>8. r \in Seq(Job) /\ DOMAIN saved = 1..Len(r)
  BY <1>2, <1>3, <1>7, PickedSeq
<1>9. queue' = queue \o r
  BY <1>1 DEF r
<1>10. \A i \in 1..Len(r) : r[i].kind = "save" /\ \E s \in Slot : r[i].acc = players'[s].acc
  BY <1>4, <1>6, <1>7, <1>8
<1> QED
  BY <1>8, <1>9, <1>10

LEMMA TickAligned ==
    ASSUME Inv, Aligned, NEW autosave \in BOOLEAN, OnTick(autosave)
    PROVE  Aligned'
<1> DEFINE S == (1..Len(logins)) \ Handled
<1>1. PICK kept \in Upwards(S) : logins' = [i \in DOMAIN kept |-> logins[kept[i]]]
  BY DEF OnTick
<1>2. Open(logins) \subseteq S
  <2> SUFFICES ASSUME NEW k \in Open(logins), k \in Handled PROVE FALSE
    BY DEF Open
  <2>1. Deliverable(k)
    BY HandledDeliverable DEF Inv
  <2> QED
    BY <2>1 DEF Deliverable, Open
<1>3. logins \in Seq(LoginResult)
  BY DEF Inv, TypeOK
<1>4. AlignedIn(logins', queue)
  <2>1. S \subseteq 1..Len(logins)
    OBVIOUS
  <2> HIDE DEF S
  <2> QED
    BY <1>1, <1>2, <1>3, <2>1, ErasedAligned DEF Aligned
<1>6. PICK r \in Seq(Job) : queue' = queue \o r /\ \A i \in 1..Len(r) : r[i].kind = "save"
  BY TickSaves
<1>7. queue \in Seq(Job) /\ \A i \in 1..Len(r) : r[i].kind # "login"
  BY <1>6 DEF Inv, TypeOK
<1>8. AlignedIn(logins', queue \o r)
  BY <1>4, <1>7, WorkAligned
<1> QED
  BY <1>6, <1>8 DEF Aligned

LEMMA AlignedNext ==
    ASSUME Inv, Aligned, [Next]_vars
    PROVE  Aligned'
<1>1. ASSUME NEW s \in Slot, Drop(s)
      PROVE  Aligned'
  <2>1. SaveJob(players[s].acc) \in Job /\ SaveJob(players[s].acc).kind # "login"
    BY Basics DEF Inv, TypeOK, Player
  <2> QED
    BY <1>1, <2>1, SubmitAligned DEF Drop
<1>2. ASSUME NEW s \in Slot, NEW n \in Login, ChatRegister(s, n)
      PROVE  Aligned'
  <2> DEFINE job == [kind |-> "register", name |-> Cut[n], right |-> TRUE, acc |-> Blank]
  <2>1. job \in Job /\ job.kind # "login"
    BY Basics, CutNames DEF Job
  <2>2. queue' = Append(queue, job) /\ logins' = logins
    BY <1>2 DEF ChatRegister
  <2> HIDE DEF job
  <2> QED
    BY <2>1, <2>2, SubmitAligned
<1>3. CASE Gameplay
  <2>1. KeepsWho
    BY <1>3, GameplayKeepsWho
  <2>2. players' \in [Slot -> Player]
    BY <1>3, GameplayKeepsInv DEF Inv, TypeOK
  <2>3. \A s \in Slot : SaveJob(players'[s].acc) \in Job /\ SaveJob(players'[s].acc).kind # "login"
    BY <2>2, Basics DEF Player
  <2> QED
    BY <2>1, <2>3, SubmitAligned DEF KeepsWho
<1>4. CASE Reload
  <2>1. Open(logins') = {} /\ Cardinality(Open(logins')) = 0
    BY <1>4, EmptySeq, FS_EmptySet DEF Reload, Open
  <2>2. Asks(queue) \in SUBSET (1..Len(queue)) /\ Len(queue) \in Nat
    BY LenProperties DEF Asks, Inv, TypeOK
  <2>3. Cardinality(Asks(queue)) \in Nat
    BY <2>2, PlacesFinite
  <2> QED
    BY <1>4, <2>1, <2>3 DEF Reload, Aligned, AlignedIn
<1>5. CASE RunJob
  BY <1>5, RunJobFinishes, FinishAligned
<1>6. (\E s \in Slot : Connect(s)) \/ Shutdown \/ Recover \/ UNCHANGED vars => Aligned'
  BY DEF Connect, Shutdown, Recover, vars, Aligned
<1>7. (\E autosave \in BOOLEAN : OnTick(autosave)) => Aligned'
  BY TickAligned
<1>8. (\E s \in Slot, n \in Login, right \in BOOLEAN : ChatLogin(s, n, right)) => Aligned'
  BY LoginAligned
<1> QED
  BY <1>1, <1>2, <1>3, <1>4, <1>5, <1>6, <1>7, <1>8 DEF Next, Players
-----------------------------------------------------------------------------
\* One name, and one that no longer login is cut to.
Clash(a, b) == a = b /\ Short(a)

\* Every account is asked for at most once at a time and never while somebody
\* plays it, unless a longer login is cut to its name, and an answer gives out the
\* account that was asked for.
NamesKept ==
    /\ \A k \in 1..Len(logins) : logins[k].state = "successful" => logins[k].acc.name = logins[k].name
    /\ \A k, j \in 1..Len(logins) : Clash(logins[k].name, logins[j].name) => k = j
    /\ \A s \in Slot : players[s].loggedIn =>
          \A k \in 1..Len(logins) : ~Clash(logins[k].name, players[s].acc.name)
    /\ OneShortSession

\* Steps that add neither a request nor a session.
LEMMA QuietKeepsNames ==
    ASSUME NamesKept,
           \A s \in Slot : players'[s].loggedIn =>
               players[s].loggedIn /\ players'[s].acc.name = players[s].acc.name,
           Len(logins') = Len(logins),
           \A k \in 1..Len(logins) :
               /\ logins'[k].name = logins[k].name
               /\ logins'[k].state = "successful" => logins'[k].acc.name = logins'[k].name
    PROVE  NamesKept'
<1>1. /\ \A k \in 1..Len(logins') :
            logins'[k].state = "successful" => logins'[k].acc.name = logins'[k].name
      /\ \A k, j \in 1..Len(logins') : Clash(logins'[k].name, logins'[j].name) => k = j
  BY DEF NamesKept
<1>2. \A s \in Slot : players'[s].loggedIn =>
          \A k \in 1..Len(logins') : ~Clash(logins'[k].name, players'[s].acc.name)
  BY DEF NamesKept
<1>3. OneShortSession'
  BY DEF NamesKept, OneShortSession, Short
<1> QED
  BY <1>1, <1>2, <1>3 DEF NamesKept

LEMMA FinishKeepsNames ==
    ASSUME Inv, Aligned, NamesKept, RunJob
    PROVE  NamesKept'
<1>1. ASSUME queue # << >>, NEW ok, NEW state \in {"failed", "successful"}, NEW acc,
             Finish(ok, state, acc), state = "successful" => acc.name = Head(queue).name
      PROVE  NamesKept'
  <2>1. players' = players
    BY <1>1 DEF Finish
  <2>2. CASE ~Answerable
    <3>1. logins' = logins
      BY <1>1, <2>2, FinishCompletes
    <3> QED
      BY <2>1, <3>1 DEF NamesKept, OneShortSession, Short
  <2>3. CASE Answerable
    <3>1. /\ Len(logins') = Len(logins)
          /\ logins'[First] = [logins[First] EXCEPT !.state = state, !.acc = acc]
          /\ \A k \in 1..Len(logins) : k # First => logins'[k] = logins[k]
      BY <1>1, <2>3, FinishCompletes
    <3>2. First \in 1..Len(logins) /\ logins[First].name = Head(queue).name
      BY <1>1, <2>3, FirstPending DEF Open
    <3>3. logins[First] \in LoginResult
      BY <3>2, ElementOfSeq DEF Inv, TypeOK
    <3>4. /\ logins'[First].name = logins[First].name
          /\ logins'[First].state = state /\ logins'[First].acc = acc
      BY <3>1, <3>3 DEF LoginResult
    <3>5. ASSUME NEW k \in 1..Len(logins)
          PROVE  /\ logins'[k].name = logins[k].name
                 /\ logins'[k].state = "successful" => logins'[k].acc.name = logins'[k].name
      <4>1. CASE k = First
        BY <1>1, <3>2, <3>4, <4>1
      <4>2. CASE k # First
        BY <3>1, <4>2 DEF NamesKept
      <4> QED
        BY <4>1, <4>2
    <3> QED
      BY <2>1, <3>1, <3>5, QuietKeepsNames
  <2> QED
    BY <2>2, <2>3
<1>2. queue # << >>
  BY RunJobFinishes
<1>3. ASSUME NEW ok, Finish(ok, "failed", Blank)
      PROVE  NamesKept'
  BY <1>1, <1>2, <1>3
<1>4. ASSUME NEW acc, acc.name = Head(queue).name, Finish(TRUE, "successful", acc)
      PROVE  NamesKept'
  BY <1>1, <1>2, <1>4
<1> QED
  BY <1>3, <1>4, RunJobFinishes

\* A request of a patient client, whom the check of Login has let pass.
LEMMA LoginKeepsNames ==
    ASSUME Inv, NamesKept, Patient,
           NEW s \in Slot, NEW n \in Login, NEW right \in BOOLEAN, ChatLogin(s, n, right)
    PROVE  NamesKept'
<1> DEFINE result == [slot |-> s, name |-> Cut[n], state |-> "pending", acc |-> Blank]
<1>1. players' = players /\ logins' = Append(logins, result) /\ ~InUse(n) /\ ~AskedFor(Cut[n])
  BY DEF ChatLogin
<1>2. result \in LoginResult /\ result.state # "successful" /\ result.name = Cut[n]
  BY Basics, CutNames DEF LoginResult
<1>3. logins \in Seq(LoginResult)
  BY DEF Inv, TypeOK
<1> HIDE DEF result
<1>4. /\ Len(logins) \in Nat /\ Len(logins') = Len(logins) + 1
      /\ logins'[Len(logins) + 1] = result
      /\ \A k \in 1..Len(logins) : logins'[k] = logins[k]
  BY <1>1, <1>2, <1>3, AppendProperties, LenProperties
<1>5. \A k \in 1..Len(logins') : k \in 1..Len(logins) \/ k = Len(logins) + 1
  BY <1>4
<1>6. \A k \in 1..Len(logins) : logins[k].name # Cut[n]
  BY <1>1 DEF AskedFor
\* Only who writes the name itself reaches it, and that is what InUse has seen.
<1>7. \A t \in Slot : players[t].loggedIn => ~Clash(Cut[n], players[t].acc.name)
  BY <1>1 DEF InUse, Clash, Short
<1>8. \A k \in 1..Len(logins') :
          logins'[k].state = "successful" => logins'[k].acc.name = logins'[k].name
  BY <1>2, <1>4, <1>5 DEF NamesKept
<1>9. \A k, j \in 1..Len(logins') : Clash(logins'[k].name, logins'[j].name) => k = j
  BY <1>2, <1>4, <1>5, <1>6 DEF NamesKept, Clash
<1>10. \A t \in Slot : players'[t].loggedIn =>
           \A k \in 1..Len(logins') : ~Clash(logins'[k].name, players'[t].acc.name)
  BY <1>1, <1>2, <1>4, <1>5, <1>7 DEF NamesKept
<1>11. OneShortSession'
  BY <1>1 DEF NamesKept, OneShortSession, Short
<1> QED
  BY <1>8, <1>9, <1>10, <1>11 DEF NamesKept

LEMMA TickKeepsNames ==
    ASSUME Inv, NamesKept, NEW autosave \in BOOLEAN, OnTick(autosave)
    PROVE  NamesKept'
<1>1. PICK kept \in Upwards((1..Len(logins)) \ Handled) :
          /\ \A i \in 1..Len(logins') :
                /\ logins'[i] = logins[kept[i]]
                /\ kept[i] \in 1..Len(logins) /\ kept[i] \notin Handled
          /\ \A i, j \in 1..Len(logins') : kept[i] = kept[j] => i = j
  BY TickErases
<1>9. ASSUME NEW s \in Slot, players'[s].loggedIn
      PROVE  \/ players[s].loggedIn /\ players'[s].acc = players[s].acc
             \/ \E k \in Handled : /\ k \in 1..Len(logins) /\ logins[k].slot = s
                                   /\ players'[s].acc.name = logins[k].name
  <2>1. players'[s] = Delivered(s)
    BY DEF OnTick
  <2>2. CASE Delivered(s) = players[s]
    BY <1>9, <2>1, <2>2
  <2>3. ASSUME NEW k \in Handled, k \in 1..Len(logins), logins[k].slot = s,
               logins[k].state = "successful",
               Delivered(s) = [here |-> TRUE, loggedIn |-> TRUE, acc |-> logins[k].acc]
        PROVE  players'[s].acc.name = logins[k].name
    BY <2>1, <2>3 DEF NamesKept
  <2> QED
    BY <2>2, <2>3, DeliveredFacts DEF Inv
<1>10. \A k \in 1..Len(logins') :
           logins'[k].state = "successful" => logins'[k].acc.name = logins'[k].name
  BY <1>1 DEF NamesKept
<1>11. \A k, j \in 1..Len(logins') : Clash(logins'[k].name, logins'[j].name) => k = j
  <2> SUFFICES ASSUME NEW k \in 1..Len(logins'), NEW j \in 1..Len(logins'),
                      Clash(logins'[k].name, logins'[j].name)
               PROVE  k = j
    OBVIOUS
  <2>1. /\ logins'[k] = logins[kept[k]] /\ kept[k] \in 1..Len(logins)
        /\ logins'[j] = logins[kept[j]] /\ kept[j] \in 1..Len(logins)
    BY <1>1
  <2>2. kept[k] = kept[j]
    BY <2>1 DEF NamesKept
  <2> QED
    BY <1>1, <2>2
<1>12. ASSUME NEW s \in Slot, players'[s].loggedIn, NEW i \in 1..Len(logins')
       PROVE  ~Clash(logins'[i].name, players'[s].acc.name)
  <2>1. logins'[i] = logins[kept[i]] /\ kept[i] \in 1..Len(logins) /\ kept[i] \notin Handled
    BY <1>1
  <2> QED
    BY <1>9, <1>12, <2>1 DEF NamesKept, Clash
<1>13. ASSUME NEW s \in Slot, NEW t \in Slot, players'[s].loggedIn, players'[t].loggedIn,
              Clash(players'[s].acc.name, players'[t].acc.name)
       PROVE  s = t
  BY <1>9, <1>13 DEF NamesKept, OneShortSession, Clash
<1>14. OneShortSession'
  BY <1>13 DEF OneShortSession, Clash, Short
<1> QED
  BY <1>10, <1>11, <1>12, <1>14 DEF NamesKept

LEMMA NamesKeptNext ==
    ASSUME Inv, Aligned, NamesKept, Patient, [Next]_vars
    PROVE  NamesKept'
<1>1. ASSUME NEW s \in Slot, Connect(s) \/ Drop(s)
      PROVE  NamesKept'
  <2>1. \A t \in Slot : players'[t].loggedIn => players'[t] = players[t]
    BY <1>1 DEF Connect, Drop, Nobody, Inv, TypeOK
  <2>2. logins' = logins
    BY <1>1 DEF Connect, Drop
  <2> QED
    BY <2>1, <2>2, QuietKeepsNames DEF NamesKept
<1>2. (\E s \in Slot, n \in Login : ChatRegister(s, n)) => NamesKept'
  BY DEF ChatRegister, NamesKept, OneShortSession, Short
<1>3. (\E s \in Slot, n \in Login, right \in BOOLEAN : ChatLogin(s, n, right)) => NamesKept'
  BY LoginKeepsNames
<1>4. CASE Gameplay
  <2>1. KeepsWho
    BY <1>4, GameplayKeepsWho
  <2> QED
    BY <2>1, QuietKeepsNames DEF KeepsWho, NamesKept
<1>5. (\E autosave \in BOOLEAN : OnTick(autosave)) => NamesKept'
  BY TickKeepsNames
<1>6. Reload => NamesKept'
  BY EmptySeq DEF Reload, NamesKept, OneShortSession, Nobody
<1>7. RunJob => NamesKept'
  BY FinishKeepsNames
<1>8. Shutdown \/ Recover \/ UNCHANGED vars => NamesKept'
  BY DEF Shutdown, Recover, vars, NamesKept, OneShortSession, Short
<1> QED
  BY <1>1, <1>2, <1>3, <1>4, <1>5, <1>6, <1>7, <1>8 DEF Next, Players

LEMMA NamesKeptInit == Init => Aligned /\ NamesKept
<1>1. Init => Aligned
  BY EmptySeq, FS_EmptySet DEF Init, Aligned, AlignedIn, Open, Asks
<1>2. Init => NamesKept
  BY EmptySeq DEF Init, NamesKept, OneShortSession, Nobody
<1> QED
  BY <1>1, <1>2

\* OneShortSession: among patient clients no answer, however late, failed or asked
\* for before a change of the map, puts two players into one account, although
\* Login looks for a session only at the time of the request.  Without patience
\* that look is too early.  Where str_copy cuts a login it looks for the wrong
\* name, and the accounts such a login reaches are excepted.
THEOREM OneShortSessionCorrect ==
    ASSUME Patient
    PROVE  SafeSpec => []OneShortSession
<1>1. Init => Inv /\ Aligned /\ NamesKept
  BY InvInit, NamesKeptInit
<1>2. (Inv /\ Aligned /\ NamesKept) /\ [Next]_vars => (Inv /\ Aligned /\ NamesKept)'
  BY InvNext, AlignedNext, NamesKeptNext
<1>3. NamesKept => OneShortSession
  BY DEF NamesKept
<1> QED
  BY <1>1, <1>2, <1>3, PTL DEF SafeSpec
-----------------------------------------------------------------------------
\* The saves of a queue.
Saves(q) == {k \in 1..Len(q) : q[k].kind = "save"}

\* Nobody who is not logged in has data, and saves have none or that of an
\* account.
DataKnown ==
    /\ \A s \in Slot : ~players[s].loggedIn => players[s].acc = Blank
    /\ \A m \in Saves(queue) : queue[m].acc = Blank \/ Complete(queue[m].acc)

\* What an account has to store is stored before its data is read, which is what
\* its last login job does, and nothing is stored between that and the delivery.
SavedFirst ==
    /\ \A k \in Open(logins) : \A m \in Saves(queue) : Clash(queue[m].acc.name, logins[k].name) =>
          \E j \in Asks(queue) : j > m /\ queue[j].name = logins[k].name
    /\ \A k \in 1..Len(logins) : logins[k].state # "pending" =>
          \A m \in Saves(queue) : ~Clash(queue[m].acc.name, logins[k].name)

\* A successful result holds what is stored.
Fresh(acc) == acc.inv = inv[acc.id] /\ acc.work = works[acc.id] /\ acc.upg = upgr[acc.id]
ResultsFresh ==
    \A k \in 1..Len(logins) :
        logins[k].state = "successful" /\ Short(logins[k].acc.name) => Fresh(logins[k].acc)

\* A player has at most one request under way, and none when he is logged in.
OneRequest ==
    /\ \A k, j \in 1..Len(logins) : logins[k].slot = logins[j].slot => k = j
    /\ \A s \in Slot : players[s].loggedIn => \A k \in 1..Len(logins) : logins[k].slot # s

HandedOn ==
    /\ ~failMode
    /\ DataKnown
    /\ SavedFirst
    /\ ResultsFresh
    /\ OneRequest

\* What the proofs above have shown, and what holds while the server runs.
RunningInv ==
    /\ Inv /\ UniqueNames /\ SessionsInv /\ Aligned /\ NamesKept
    /\ ~shutdown => HandedOn

\* Jobs behind the others that ask for no account, and whose data is not that
\* of an account asked for; results only go away, and only completed ones.
LEMMA SubmitKeepsOn ==
    ASSUME Inv, HandedOn, UNCHANGED <<tables, failMode>>,
           NEW r \in Seq(Job), queue' = queue \o r,
           \A m \in 1..Len(r) : r[m].kind # "login",
           \A m \in Saves(r) : /\ r[m].acc = Blank \/ Complete(r[m].acc)
                               /\ \A k \in 1..Len(logins') : ~Clash(logins'[k].name, r[m].acc.name),
           \A k \in 1..Len(logins') : \E j \in 1..Len(logins) : logins'[k] = logins[j],
           \A k \in Open(logins) : \E j \in Open(logins') : logins'[j] = logins[k],
           \A s \in Slot : ~players'[s].loggedIn => players'[s].acc = Blank,
           OneRequest'
    PROVE  HandedOn'
<1>1. /\ queue \in Seq(Job) /\ Len(queue) \in Nat /\ Len(r) \in Nat
      /\ Len(queue') = Len(queue) + Len(r)
      /\ \A k \in 1..(Len(queue) + Len(r)) :
            queue'[k] = IF k <= Len(queue) THEN queue[k] ELSE r[k - Len(queue)]
  BY ConcatProperties, LenProperties DEF Inv, TypeOK
<1>2. Asks(queue') = Asks(queue)
  BY <1>1 DEF Asks
<1>3. \A j \in Asks(queue) : queue'[j] = queue[j] /\ j <= Len(queue) /\ j \in Nat
  BY <1>1 DEF Asks
<1>4. ASSUME NEW m \in Saves(queue')
      PROVE  \/ m \in Saves(queue) /\ queue'[m] = queue[m]
             \/ \E i \in Saves(r) : queue'[m] = r[i]
  <2>1. CASE m <= Len(queue)
    BY <1>1, <1>4, <2>1 DEF Saves
  <2>2. CASE ~(m <= Len(queue))
    <3>1. m - Len(queue) \in 1..Len(r) /\ queue'[m] = r[m - Len(queue)]
      BY <1>1, <1>4, <2>2 DEF Saves
    <3> QED
      BY <1>4, <3>1 DEF Saves
  <2> QED
    BY <2>1, <2>2
<1>5. \A acc : Complete(acc) => Complete(acc)'
  BY DEF Complete, tables
<1>6. DataKnown'
  <2>1. ASSUME NEW m \in Saves(queue')
        PROVE  queue'[m].acc = Blank \/ Complete(queue'[m].acc)
    <3>1. CASE m \in Saves(queue) /\ queue'[m] = queue[m]
      BY <3>1 DEF HandedOn, DataKnown
    <3>2. CASE \E i \in Saves(r) : queue'[m] = r[i]
      BY <3>2
    <3> QED
      BY <1>4, <2>1, <3>1, <3>2
  <2>2. \A m \in Saves(queue') : queue'[m].acc = Blank \/ Complete(queue[m].acc)'
    BY <2>1 DEF Complete, tables
  <2> QED
    BY <2>2 DEF DataKnown, Complete
<1>8. ASSUME NEW k \in Open(logins'), NEW m \in Saves(queue'),
             Clash(queue'[m].acc.name, logins'[k].name)
      PROVE  \E j \in Asks(queue') : j > m /\ queue'[j].name = logins'[k].name
  <2>1. k \in 1..Len(logins') /\ logins'[k].state = "pending"
    BY DEF Open
  <2>2. PICK i \in 1..Len(logins) : logins'[k] = logins[i]
    BY <2>1
  <2>3. i \in Open(logins)
    BY <2>1, <2>2 DEF Open
  <2>4. CASE m \in Saves(queue) /\ queue'[m] = queue[m]
    <3>1. PICK j \in Asks(queue) : j > m /\ queue[j].name = logins[i].name
      BY <1>8, <2>2, <2>3, <2>4 DEF HandedOn, SavedFirst
    <3> QED
      BY <1>2, <1>3, <2>2, <3>1
  <2>5. CASE \E l \in Saves(r) : queue'[m] = r[l]
    BY <1>8, <2>1, <2>5 DEF Clash
  <2> QED
    BY <1>4, <2>4, <2>5
<1>9. ASSUME NEW k \in 1..Len(logins'), logins'[k].state # "pending", NEW m \in Saves(queue')
      PROVE  ~Clash(queue'[m].acc.name, logins'[k].name)
  <2>1. PICK j \in 1..Len(logins) : logins'[k] = logins[j]
    OBVIOUS
  <2>2. CASE m \in Saves(queue) /\ queue'[m] = queue[m]
    BY <1>9, <2>1, <2>2 DEF HandedOn, SavedFirst
  <2>3. ASSUME NEW i \in Saves(r), queue'[m] = r[i]
        PROVE  ~Clash(queue'[m].acc.name, logins'[k].name)
    BY <2>3 DEF Clash
  <2> QED
    BY <1>4, <2>2, <2>3
<1>10. SavedFirst'
  BY <1>8, <1>9 DEF SavedFirst
<1>11. ResultsFresh'
  <2>1. \A k \in 1..Len(logins') :
            logins'[k].state = "successful" /\ Short(logins'[k].acc.name) => Fresh(logins'[k].acc)
    BY DEF HandedOn, ResultsFresh
  <2> QED
    BY <2>1 DEF ResultsFresh, Fresh, tables
<1>12. ~failMode'
  BY DEF HandedOn
<1> QED
  BY <1>6, <1>10, <1>11, <1>12 DEF HandedOn

\* The same for a step that leaves the results alone and submits one job, or
\* none.
LEMMA OneJobKeepsOn ==
    ASSUME Inv, HandedOn, UNCHANGED <<tables, failMode, logins>>,
           \/ queue' = queue
           \/ \E job \in Job :
                 /\ queue' = Append(queue, job)
                 /\ job.kind # "login"
                 /\ job.kind = "save" =>
                       /\ job.acc = Blank \/ Complete(job.acc)
                       /\ \A k \in 1..Len(logins) : ~Clash(logins[k].name, job.acc.name),
           \A s \in Slot : ~players'[s].loggedIn => players'[s].acc = Blank,
           \A s \in Slot : players'[s].loggedIn => players[s].loggedIn
    PROVE  HandedOn'
<1>1. OneRequest'
  BY DEF HandedOn, OneRequest
<1>2. queue \in Seq(Job)
  BY DEF Inv, TypeOK
<1>3. ASSUME NEW r \in Seq(Job), queue' = queue \o r,
             \A m \in 1..Len(r) : r[m].kind # "login",
             \A m \in Saves(r) : /\ r[m].acc = Blank \/ Complete(r[m].acc)
                                 /\ \A k \in 1..Len(logins) : ~Clash(logins[k].name, r[m].acc.name)
      PROVE  HandedOn'
  BY <1>1, <1>3, SubmitKeepsOn
<1>4. CASE queue' = queue
  <2>1. << >> \in Seq(Job) /\ Len(<< >>) = 0 /\ queue \o << >> = queue
    BY <1>2, EmptySeq
  <2>2. Saves(<< >>) = {} /\ 1..Len(<< >>) = {}
    BY <2>1 DEF Saves
  <2> QED
    BY <1>3, <1>4, <2>1, <2>2
<1>5. ASSUME NEW job \in Job, queue' = Append(queue, job), job.kind # "login",
             job.kind = "save" =>
                 /\ job.acc = Blank \/ Complete(job.acc)
                 /\ \A k \in 1..Len(logins) : ~Clash(logins[k].name, job.acc.name)
      PROVE  HandedOn'
  <2>1. <<job>> \in Seq(Job) /\ Len(<<job>>) = 1 /\ <<job>>[1] = job
    OBVIOUS
  <2>2. queue' = queue \o <<job>>
    BY <1>2, <1>5, AppendIsConcat
  <2>3. \A m \in 1..Len(<<job>>) : m = 1
    BY <2>1
  <2>4. \A m \in Saves(<<job>>) : <<job>>[m] = job /\ job.kind = "save"
    BY <2>1, <2>3 DEF Saves
  <2> QED
    BY <1>3, <1>5, <2>1, <2>2, <2>3, <2>4
<1> QED
  BY <1>4, <1>5

\* Data of nobody carries no name, and results carry one.
LEMMA NamesOfResults ==
    ASSUME NEW rs \in Seq(LoginResult)
    PROVE  /\ Blank.name = "" /\ Blank.id = 0
           /\ \A k \in 1..Len(rs) : ~Clash(rs[k].name, Blank.name)
<1>1. Blank.name = "" /\ Blank.id = 0
  BY DEF Blank
<1>2. ASSUME NEW k \in 1..Len(rs)
      PROVE  rs[k].name \in Name
  <2>1. rs[k] \in LoginResult
    BY ElementOfSeq
  <2> QED
    BY <2>1 DEF LoginResult
<1>3. "" \notin Name
  BY AccountsAssumption
<1> QED
  BY <1>1, <1>2, <1>3 DEF Clash

\* What is saved of a player is data of his account, which nobody asks for.
LEMMA PlayersKnown ==
    ASSUME TypeOK, SessionsInv, NamesKept, \A s \in Slot : ~players[s].loggedIn => players[s].acc = Blank
    PROVE  \A s \in Slot : /\ players[s].acc = Blank \/ Complete(players[s].acc)
                           /\ \A k \in 1..Len(logins) : ~Clash(logins[k].name, players[s].acc.name)
<1> SUFFICES ASSUME NEW s \in Slot
             PROVE  /\ players[s].acc = Blank \/ Complete(players[s].acc)
                    /\ \A k \in 1..Len(logins) : ~Clash(logins[k].name, players[s].acc.name)
  OBVIOUS
<1>1. CASE players[s].loggedIn
  BY <1>1 DEF SessionsInv, NamesKept
<1>2. CASE ~players[s].loggedIn
  <2>1. players[s].acc = Blank
    BY <1>2
  <2>2. logins \in Seq(LoginResult)
    BY DEF TypeOK
  <2> QED
    BY <2>1, <2>2, NamesOfResults
<1> QED
  BY <1>1, <1>2

\* The same after a step that leaves users and upgrades alone.
LEMMA PlayersKnownNext ==
    ASSUME TypeOK', SessionsInv', NamesKept', UNCHANGED <<users, upgr>>,
           \A s \in Slot : ~players'[s].loggedIn => players'[s].acc = Blank
    PROVE  \A s \in Slot : /\ players'[s].acc = Blank \/ Complete(players'[s].acc)
                           /\ \A k \in 1..Len(logins') : ~Clash(logins'[k].name, players'[s].acc.name)
<1> SUFFICES ASSUME NEW s \in Slot
             PROVE  /\ players'[s].acc = Blank \/ Complete(players'[s].acc)
                    /\ \A k \in 1..Len(logins') : ~Clash(logins'[k].name, players'[s].acc.name)
  OBVIOUS
<1>1. CASE players'[s].loggedIn
  BY <1>1 DEF SessionsInv, NamesKept, Complete
<1>2. CASE ~players'[s].loggedIn
  <2>1. players'[s].acc = Blank
    BY <1>2
  <2>2. logins' \in Seq(LoginResult)
    BY DEF TypeOK
  <2> QED
    BY <2>1, <2>2, NamesOfResults
<1> QED
  BY <1>1, <1>2

LEMMA PlayersKeepOn ==
    ASSUME Inv, SessionsInv, NamesKept, HandedOn,
           NEW s \in Slot, \/ Connect(s) \/ Drop(s)
                           \/ \E n \in Login : ChatRegister(s, n)
    PROVE  HandedOn'
<1>1. \A t \in Slot : /\ ~players'[t].loggedIn => players'[t].acc = Blank
                      /\ players'[t].loggedIn => players[t].loggedIn
  <2> SUFFICES ASSUME NEW t \in Slot
               PROVE  /\ ~players'[t].loggedIn => players'[t].acc = Blank
                      /\ players'[t].loggedIn => players[t].loggedIn
    OBVIOUS
  <2>1. ~players[t].loggedIn => players[t].acc = Blank
    BY DEF HandedOn, DataKnown
  <2>2. players \in [Slot -> Player]
    BY DEF Inv, TypeOK
  <2>3. CASE players' = players
    BY <2>1, <2>3
  <2>4. CASE Connect(s) \/ Drop(s)
    <3>1. players'[t] = players[t] \/ (~players'[t].loggedIn /\ players'[t].acc = Blank)
      BY <2>2, <2>4 DEF Connect, Drop, Nobody
    <3> QED
      BY <2>1, <3>1
  <2> QED
    BY <2>3, <2>4 DEF ChatRegister
<1>2. UNCHANGED <<tables, failMode, logins>>
  BY DEF Connect, Drop, ChatRegister
<1>3. CASE Connect(s)
  BY <1>1, <1>2, <1>3, OneJobKeepsOn DEF Connect
<1>4. CASE Drop(s)
  <2> DEFINE job == SaveJob(players[s].acc)
  <2>1. job \in Job /\ job.kind = "save" /\ job.acc = players[s].acc
    BY Basics DEF Inv, TypeOK, Player, SaveJob
  <2>2. /\ job.acc = Blank \/ Complete(job.acc)
        /\ \A k \in 1..Len(logins) : ~Clash(logins[k].name, job.acc.name)
    BY <2>1, PlayersKnown DEF Inv, HandedOn, DataKnown
  <2>3. queue' = Append(queue, job)
    BY <1>4 DEF Drop
  <2> HIDE DEF job
  <2> QED
    BY <1>1, <1>2, <2>1, <2>2, <2>3, OneJobKeepsOn
<1>5. ASSUME NEW n \in Login, ChatRegister(s, n)
      PROVE  HandedOn'
  <2> DEFINE job == [kind |-> "register", name |-> Cut[n], right |-> TRUE, acc |-> Blank]
  <2>1. job \in Job /\ job.kind = "register"
    BY Basics, CutNames DEF Job
  <2>2. queue' = Append(queue, job)
    BY <1>5 DEF ChatRegister
  <2> HIDE DEF job
  <2> QED
    BY <1>1, <1>2, <2>1, <2>2, OneJobKeepsOn
<1> QED
  BY <1>3, <1>4, <1>5

LEMMA GameplayKeepsOn ==
    ASSUME Inv, HandedOn, Gameplay, TypeOK', SessionsInv', NamesKept'
    PROVE  HandedOn'
<1>1. KeepsWho
  BY GameplayKeepsWho
<1>2. UNCHANGED <<tables, failMode, logins>>
  BY DEF Gameplay, ItemPlay, GiveItem, RemItem, AddMoney, AddWorkEXP, AddEXP, ChatLang, AcceptInvite, Play
<1>3. \A t \in Slot : ~players'[t].loggedIn => players'[t].acc = Blank
  <2>1. \A s \in Slot : \A acc, save : Play(s, acc, save) =>
            \A t \in Slot : ~players'[t].loggedIn => players'[t] = players[t]
    BY DEF Play, Inv, TypeOK, Player
  <2>2. \E s \in Slot : \E acc, save : Play(s, acc, save)
    BY DEF Gameplay, ItemPlay, GiveItem, RemItem, AddMoney, AddWorkEXP, AddEXP, ChatLang, AcceptInvite
  <2> QED
    BY <2>1, <2>2 DEF HandedOn, DataKnown
<1>4. ASSUME NEW t \in Slot
      PROVE  LET job == SaveJob(players'[t].acc)
             IN  /\ job \in Job /\ job.kind = "save"
                 /\ job.acc = Blank \/ Complete(job.acc)
                 /\ \A k \in 1..Len(logins) : ~Clash(logins[k].name, job.acc.name)
  <2>1. players'[t].acc \in Account
    BY DEF TypeOK, Player
  <2>2. SaveJob(players'[t].acc).acc = players'[t].acc
    BY DEF SaveJob
  <2>3. /\ players'[t].acc = Blank \/ Complete(players'[t].acc)
        /\ \A k \in 1..Len(logins) : ~Clash(logins[k].name, players'[t].acc.name)
    BY <1>2, <1>3, PlayersKnownNext DEF tables
  <2> QED
    BY <2>1, <2>2, <2>3, Basics
<1>5. queue' = queue \/ \E t \in Slot : queue' = Append(queue, SaveJob(players'[t].acc))
  BY <1>1 DEF KeepsWho
<1>6. \/ queue' = queue
      \/ \E job \in Job :
            /\ queue' = Append(queue, job)
            /\ job.kind # "login"
            /\ job.kind = "save" =>
                  /\ job.acc = Blank \/ Complete(job.acc)
                  /\ \A k \in 1..Len(logins) : ~Clash(logins[k].name, job.acc.name)
  <2> SUFFICES ASSUME NEW t \in Slot, queue' = Append(queue, SaveJob(players'[t].acc))
               PROVE  \E job \in Job :
                          /\ queue' = Append(queue, job)
                          /\ job.kind # "login"
                          /\ job.kind = "save" =>
                                /\ job.acc = Blank \/ Complete(job.acc)
                                /\ \A k \in 1..Len(logins) : ~Clash(logins[k].name, job.acc.name)
    BY <1>5
  <2> DEFINE new == SaveJob(players'[t].acc)
  <2>1. /\ new \in Job /\ new.kind = "save"
        /\ new.acc = Blank \/ Complete(new.acc)
        /\ \A k \in 1..Len(logins) : ~Clash(logins[k].name, new.acc.name)
    BY <1>4
  <2> HIDE DEF new
  <2>2. queue' = Append(queue, new)
    BY DEF new
  <2> QED
    BY <2>1, <2>2
<1> QED
  BY <1>1, <1>2, <1>3, <1>6, OneJobKeepsOn DEF KeepsWho

LEMMA TickKeepsOn ==
    ASSUME Inv, SessionsInv, NamesKept, HandedOn, NEW autosave \in BOOLEAN, OnTick(autosave),
           TypeOK', SessionsInv', NamesKept'
    PROVE  HandedOn'
<1>1. PICK kept \in Upwards((1..Len(logins)) \ Handled) :
          /\ \A i \in 1..Len(logins') :
                /\ logins'[i] = logins[kept[i]]
                /\ kept[i] \in 1..Len(logins) /\ kept[i] \notin Handled
          /\ \A i, j \in 1..Len(logins') : kept[i] = kept[j] => i = j
          /\ \A k \in 1..Len(logins) :
                k \notin Handled => \E i \in 1..Len(logins') : logins'[i] = logins[k]
  BY TickErases
<1>2. PICK r \in Seq(Job) :
          /\ queue' = queue \o r
          /\ \A i \in 1..Len(r) : r[i].kind = "save" /\ \E s \in Slot : r[i].acc = players'[s].acc
  BY TickSaves
<1>3. UNCHANGED <<tables, failMode>>
  BY DEF OnTick
<1>4. \A k \in 1..Len(logins') : \E j \in 1..Len(logins) : logins'[k] = logins[j]
  BY <1>1
<1>5. ASSUME NEW k \in Open(logins)
      PROVE  \E j \in Open(logins') : logins'[j] = logins[k]
  <2>1. k \in 1..Len(logins) /\ logins[k].state = "pending" /\ k \notin Handled
    BY HandledDeliverable DEF Inv, Open, Deliverable
  <2>2. PICK i \in 1..Len(logins') : logins'[i] = logins[k]
    BY <1>1, <2>1
  <2> QED
    BY <2>1, <2>2 DEF Open
<1>6. ASSUME NEW s \in Slot
      PROVE  \/ players'[s] = players[s]
             \/ /\ players'[s].loggedIn
                /\ \E k \in Handled : k \in 1..Len(logins) /\ logins[k].slot = s
  <2>1. players'[s] = Delivered(s)
    BY DEF OnTick
  <2> QED
    BY <2>1, DeliveredFacts DEF Inv
<1>7. \A s \in Slot : ~players'[s].loggedIn => players'[s].acc = Blank
  BY <1>6 DEF HandedOn, DataKnown
<1>8. OneRequest'
  <2>1. ASSUME NEW i \in 1..Len(logins'), NEW j \in 1..Len(logins'), logins'[i].slot = logins'[j].slot
        PROVE  i = j
    <3>1. /\ logins'[i] = logins[kept[i]] /\ kept[i] \in 1..Len(logins)
          /\ logins'[j] = logins[kept[j]] /\ kept[j] \in 1..Len(logins)
      BY <1>1
    <3>2. kept[i] = kept[j]
      BY <2>1, <3>1 DEF HandedOn, OneRequest
    <3> QED
      BY <1>1, <3>2
  <2>2. ASSUME NEW s \in Slot, players'[s].loggedIn, NEW i \in 1..Len(logins'), logins'[i].slot = s
        PROVE  FALSE
    <3>1. kept[i] \in 1..Len(logins) /\ kept[i] \notin Handled /\ logins[kept[i]].slot = s
      BY <1>1, <2>2
    <3> QED
      BY <1>6, <2>2, <3>1 DEF HandedOn, OneRequest
  <2> QED
    BY <2>1, <2>2 DEF OneRequest
<1>9. \A s \in Slot : /\ players'[s].acc = Blank \/ Complete(players'[s].acc)
                      /\ \A k \in 1..Len(logins') : ~Clash(logins'[k].name, players'[s].acc.name)
  BY <1>3, <1>7, PlayersKnownNext DEF tables
<1>10. \A m \in Saves(r) : /\ r[m].acc = Blank \/ Complete(r[m].acc)
                           /\ \A k \in 1..Len(logins') : ~Clash(logins'[k].name, r[m].acc.name)
  <2> SUFFICES ASSUME NEW m \in Saves(r)
               PROVE  /\ r[m].acc = Blank \/ Complete(r[m].acc)
                      /\ \A k \in 1..Len(logins') : ~Clash(logins'[k].name, r[m].acc.name)
    OBVIOUS
  <2>1. m \in 1..Len(r)
    BY DEF Saves
  <2>2. PICK s \in Slot : r[m].acc = players'[s].acc
    BY <1>2, <2>1
  <2> QED
    BY <1>9, <2>2
<1>11. \A m \in 1..Len(r) : r[m].kind # "login"
  BY <1>2
<1> QED
  BY <1>2, <1>3, <1>4, <1>5, <1>7, <1>8, <1>10, <1>11, SubmitKeepsOn

LEMMA LoginKeepsOn ==
    ASSUME Inv, HandedOn, Patient,
           NEW s \in Slot, NEW n \in Login, NEW right \in BOOLEAN, ChatLogin(s, n, right)
    PROVE  HandedOn'
<1> DEFINE job == [kind |-> "login", name |-> Cut[n], right |-> right, acc |-> Blank]
           result == [slot |-> s, name |-> Cut[n], state |-> "pending", acc |-> Blank]
<1>1. /\ queue' = Append(queue, job) /\ logins' = Append(logins, result)
      /\ players' = players /\ UNCHANGED <<tables, failMode>>
      /\ ~Waiting(s) /\ ~AskedFor(Cut[n]) /\ ~players[s].loggedIn
  BY DEF ChatLogin
<1>2. job \in Job /\ job.kind = "login" /\ job.name = Cut[n]
  BY Basics, CutNames DEF Job
<1>3. result \in LoginResult /\ result.state = "pending" /\ result.name = Cut[n] /\ result.slot = s
  BY Basics, CutNames DEF LoginResult
<1> HIDE DEF job, result
<1>4. /\ Len(queue) \in Nat /\ Len(queue') = Len(queue) + 1 /\ queue'[Len(queue) + 1] = job
      /\ \A k \in 1..Len(queue) : queue'[k] = queue[k]
  BY <1>1, <1>2, AppendProperties, LenProperties DEF Inv, TypeOK
<1>5. /\ Len(logins) \in Nat /\ Len(logins') = Len(logins) + 1 /\ logins'[Len(logins) + 1] = result
      /\ \A k \in 1..Len(logins) : logins'[k] = logins[k]
  BY <1>1, <1>3, AppendProperties, LenProperties DEF Inv, TypeOK
<1>6. /\ \A j \in Asks(queue') : (j \in Asks(queue) /\ queue'[j] = queue[j]) \/ j = Len(queue) + 1
      /\ \A j \in Asks(queue) : queue'[j] = queue[j] /\ j \in Nat /\ j <= Len(queue)
  BY <1>4 DEF Asks
<1>7. \A m \in Saves(queue') : m \in Saves(queue) /\ queue'[m] = queue[m] /\ m \in Nat /\ m <= Len(queue)
  BY <1>2, <1>4 DEF Saves
<1>8. /\ Len(logins) + 1 \in Open(logins')
      /\ \A k \in Open(logins) : k \in Open(logins') /\ logins'[k] = logins[k]
  BY <1>3, <1>5 DEF Open
<1>9. \A k \in 1..Len(logins') : (k \in 1..Len(logins) /\ logins'[k] = logins[k]) \/ k = Len(logins) + 1
  BY <1>5
<1>10. \A k \in 1..Len(logins) : logins[k].slot # s /\ logins[k].name # Cut[n]
  BY <1>1 DEF Waiting, AskedFor
<1>12. DataKnown'
  <2>1. \A m \in Saves(queue') : queue'[m].acc = Blank \/ Complete(queue'[m].acc)
    BY <1>7 DEF HandedOn, DataKnown
  <2>2. \A t \in Slot : ~players'[t].loggedIn => players'[t].acc = Blank
    BY <1>1 DEF HandedOn, DataKnown
  <2> QED
    BY <1>1, <2>1, <2>2 DEF DataKnown, Complete, tables
<1>14. SavedFirst'
  <2>1. ASSUME NEW k \in Open(logins'), NEW m \in Saves(queue'),
               Clash(queue'[m].acc.name, logins'[k].name)
        PROVE  \E j \in Asks(queue') : j > m /\ queue'[j].name = logins'[k].name
    <3>1. m \in Saves(queue) /\ queue'[m] = queue[m] /\ m \in Nat /\ m <= Len(queue)
      BY <1>7
    <3>2. CASE k = Len(logins) + 1
      <4>1. Len(queue) + 1 \in Asks(queue') /\ queue'[Len(queue) + 1].name = Cut[n]
        BY <1>2, <1>4 DEF Asks
      <4> QED
        BY <1>3, <1>4, <1>5, <3>1, <3>2, <4>1
    <3>3. CASE k # Len(logins) + 1
      <4>1. k \in Open(logins) /\ logins'[k] = logins[k]
        BY <1>9, <3>3 DEF Open
      <4>2. PICK j \in Asks(queue) : j > m /\ queue[j].name = logins[k].name
        BY <2>1, <3>1, <4>1 DEF HandedOn, SavedFirst
      <4>3. j \in Asks(queue')
        BY <1>4 DEF Asks
      <4> QED
        BY <1>6, <4>1, <4>2, <4>3
    <3> QED
      BY <3>2, <3>3
  <2>2. ASSUME NEW k \in 1..Len(logins'), logins'[k].state # "pending", NEW m \in Saves(queue')
        PROVE  ~Clash(queue'[m].acc.name, logins'[k].name)
    <3>1. k \in 1..Len(logins) /\ logins'[k] = logins[k]
      BY <1>3, <1>5, <1>9, <2>2
    <3> QED
      BY <1>7, <2>2, <3>1 DEF HandedOn, SavedFirst
  <2> QED
    BY <2>1, <2>2 DEF SavedFirst
<1>15. ResultsFresh'
  <2>1. \A k \in 1..Len(logins') :
            logins'[k].state = "successful" /\ Short(logins'[k].acc.name) => Fresh(logins'[k].acc)
    BY <1>3, <1>5, <1>9 DEF HandedOn, ResultsFresh
  <2> QED
    BY <1>1, <2>1 DEF ResultsFresh, Fresh, tables
<1>16. OneRequest'
  <2>1. \A i, j \in 1..Len(logins') : logins'[i].slot = logins'[j].slot => i = j
    BY <1>3, <1>5, <1>9, <1>10 DEF HandedOn, OneRequest
  <2>2. \A t \in Slot : players'[t].loggedIn => \A k \in 1..Len(logins') : logins'[k].slot # t
    BY <1>1, <1>3, <1>5, <1>9 DEF HandedOn, OneRequest
  <2> QED
    BY <2>1, <2>2 DEF OneRequest
<1> QED
  BY <1>1, <1>12, <1>14, <1>15, <1>16 DEF HandedOn

\* Fresh, after a step that leaves the data alone and perhaps not the tables.
StillFresh(acc) == acc.inv = inv'[acc.id] /\ acc.work = works'[acc.id] /\ acc.upg = upgr'[acc.id]

\* A set of numbers and one with as many have the same places.
LEMMA SamePlace ==
    ASSUME NEW n \in Nat, NEW T \in SUBSET (1..n), NEW m \in Nat, NEW U \in SUBSET (1..m),
           Cardinality(T) = Cardinality(U), NEW j \in U
    PROVE  \E k \in T : FromEnd(T, k) = FromEnd(U, j)
<1> DEFINE c == Cardinality(T)
<1>0. c \in Nat
  BY PlacesFinite
<1>1. c \in Nat /\ IsFiniteSet(1..c) /\ 1..c \in SUBSET Nat /\ T \in SUBSET Nat /\ U \in SUBSET Nat
  <2> HIDE DEF c
  <2>1. IsFiniteSet(1..c)
    BY <1>0, FS_Interval
  <2> QED
    BY <1>0, <2>1
<1>2. PICK f \in [1..c -> T] : \A a, b \in 1..c : a < b => f[a] < f[b]
  BY Enumeration
<1>3. PICK g \in [1..c -> U] : \A a, b \in 1..c : a < b => g[a] < g[b]
  BY Enumeration
<1>4. \A x \in T : \E i \in 1..c : f[i] = x
  BY <1>2, EnumerationOnto
<1>5. \A x \in U : \E i \in 1..c : g[i] = x
  <2>1. c = Cardinality(U)
    OBVIOUS
  <2> HIDE DEF c
  <2>2. g \in [1..Cardinality(U) -> U] /\ \A a, b \in 1..Cardinality(U) : a < b => g[a] < g[b]
    BY <1>3, <2>1
  <2>3. \A x \in U : \E i \in 1..Cardinality(U) : g[i] = x
    BY <2>2, EnumerationOnto
  <2> QED
    BY <2>1, <2>3
<1> HIDE DEF c
<1>6. Renumbers(f, 1..c, T) /\ Renumbers(g, 1..c, U)
  BY <1>2, <1>3, <1>4, <1>5 DEF Renumbers
<1>7. PICK i \in 1..c : g[i] = j
  BY <1>5
<1>8. FromEnd(1..c, i) = FromEnd(T, f[i]) /\ FromEnd(1..c, i) = FromEnd(U, g[i])
  BY <1>1, <1>6, Renumbered
<1> QED
  BY <1>2, <1>7, <1>8

\* When the oldest job completes a result, no save of its account is left.
LEMMA AnsweredUnsaved ==
    ASSUME Inv, Aligned, NamesKept, HandedOn, queue # << >>, Answerable
    PROVE  \A m \in Saves(queue) : ~Clash(queue[m].acc.name, logins[First].name)
<1> SUFFICES ASSUME NEW m \in Saves(queue), Clash(queue[m].acc.name, logins[First].name)
             PROVE  FALSE
  OBVIOUS
<1>1. /\ First \in Open(logins) /\ \A k \in Open(logins) : First <= k
      /\ logins[First].name = Head(queue).name
  BY FirstPending
<1>2. PICK j \in Asks(queue) : j > m /\ queue[j].name = logins[First].name
  BY <1>1 DEF HandedOn, SavedFirst
<1>3. /\ Len(queue) \in Nat /\ Asks(queue) \in SUBSET (1..Len(queue))
      /\ Len(logins) \in Nat /\ Open(logins) \in SUBSET (1..Len(logins))
  BY LenProperties DEF Inv, TypeOK, Asks, Open
<1>4. Len(queue) >= 1 /\ Head(queue) = queue[1]
  BY HeadTailProperties, LenProperties, EmptySeq DEF Inv, TypeOK
<1>5. 1 \in Asks(queue) /\ j # 1
  BY <1>2, <1>3, <1>4 DEF Answerable, Asks, Saves
<1>6. Cardinality(Asks(queue)) = Cardinality(Open(logins))
  BY DEF Answerable, Kinds, Pending, Asks, Open
<1>7. PICK k \in Open(logins) : FromEnd(Open(logins), k) = FromEnd(Asks(queue), j)
  BY <1>3, <1>6, SamePlace
<1>8. logins[k].name = queue[j].name
  BY <1>7 DEF Aligned, AlignedIn
<1>9. k = First
  BY <1>1, <1>2, <1>8 DEF NamesKept, Open, Clash
<1>10. FromEnd(Open(logins), First) = Cardinality(Open(logins))
  <2>1. {x \in Open(logins) : x >= First} = Open(logins)
    BY <1>1, <1>3
  <2> QED
    BY <2>1 DEF FromEnd
<1>11. FromEnd(Asks(queue), j) < Cardinality(Asks(queue))
  <2> DEFINE A == Asks(queue)
             B == {x \in A : x >= j}
  <2>1. FromEnd(A, j) = Cardinality(B)
    BY DEF FromEnd
  <2>2. IsFiniteSet(A)
    BY <1>3, PlacesFinite
  <2>3. j \in Nat /\ j > 1
    BY <1>2, <1>3, <1>5
  <2>4. 1 \in A /\ 1 \notin B /\ B \in SUBSET A
    BY <1>5, <2>3
  <2> HIDE DEF A, B
  <2>5. /\ IsFiniteSet(B) /\ Cardinality(B) <= Cardinality(A)
        /\ Cardinality(A) = Cardinality(B) => A = B
    BY <2>2, <2>4, FS_Subset
  <2>6. Cardinality(A) # Cardinality(B)
    BY <2>4, <2>5
  <2>7. Cardinality(A) \in Nat /\ Cardinality(B) \in Nat
    BY <2>2, <2>5, FS_CardinalityType
  <2>8. Cardinality(B) < Cardinality(A)
    BY <2>5, <2>6, <2>7
  <2> QED
    BY <2>1, <2>8 DEF A
<1>12. FromEnd(Open(logins), First) < Cardinality(Asks(queue))
  BY <1>7, <1>9, <1>11
<1>13. Cardinality(Asks(queue)) \in Nat
  BY <1>3, PlacesFinite
<1> QED
  BY <1>6, <1>10, <1>12, <1>13

\* The end of a job without a fault that spoils no result waiting for OnTick;
\* a successful one gives out what is stored.
LEMMA JobKeepsOn ==
    ASSUME Inv, Aligned, NamesKept, HandedOn, Grows, queue # << >>,
           NEW ok, ok = TRUE, NEW state \in {"failed", "successful"}, NEW acc, Finish(ok, state, acc),
           state = "successful" => StillFresh(acc),
           \A k \in 1..Len(logins) :
               logins[k].state = "successful" /\ Short(logins[k].acc.name) => StillFresh(logins[k].acc)
    PROVE  HandedOn'
<1>1. /\ queue \in Seq(Job) /\ Len(queue) \in Nat /\ Len(queue') = Len(queue) - 1
      /\ \A m \in 1..Len(queue') : m \in Nat /\ queue'[m] = queue[m + 1] /\ m + 1 \in 1..Len(queue)
      /\ Len(queue) >= 1 /\ Head(queue) = queue[1]
  BY HeadTailProperties, LenProperties, EmptySeq DEF Inv, TypeOK, Finish
<1>2. /\ \A j \in Asks(queue') : j + 1 \in Asks(queue) /\ queue'[j] = queue[j + 1] /\ j \in Nat /\ j + 1 # 1
      /\ \A m \in Saves(queue') : m + 1 \in Saves(queue) /\ queue'[m] = queue[m + 1] /\ m \in Nat /\ m + 1 > 1
  BY <1>1 DEF Asks, Saves
<1>3. players' = players /\ ~failMode'
  BY DEF Finish, HandedOn
<1>4. Len(logins) \in Nat /\ \A k \in 1..Len(logins) : logins[k] \in LoginResult
  BY LenProperties, ElementOfSeq DEF Inv, TypeOK
\* The result that is completed, if any.
<1>5. \/ logins' = logins
      \/ /\ First \in 1..Len(logins) /\ 1 \in Asks(queue)
         /\ \A m \in Saves(queue) : ~Clash(queue[m].acc.name, logins[First].name)
         /\ Len(logins') = Len(logins)
         /\ logins'[First].state = state /\ logins'[First].acc = acc
         /\ logins'[First].name = logins[First].name /\ logins'[First].slot = logins[First].slot
         /\ \A k \in 1..Len(logins) : k # First => logins'[k] = logins[k]
  <2>1. CASE ~Answerable
    BY <2>1, FinishCompletes
  <2>2. CASE Answerable
    <3>1. /\ Len(logins') = Len(logins)
          /\ logins'[First] = [logins[First] EXCEPT !.state = state, !.acc = acc]
          /\ \A k \in 1..Len(logins) : k # First => logins'[k] = logins[k]
      BY <2>2, FinishCompletes
    <3>2. /\ First \in 1..Len(logins)
          /\ \A m \in Saves(queue) : ~Clash(queue[m].acc.name, logins[First].name)
      BY <1>1, <2>2, FirstPending, AnsweredUnsaved DEF Open
    <3>3. 1 \in Asks(queue)
      BY <1>1, <2>2 DEF Answerable, Asks
    <3>4. /\ logins'[First].state = state /\ logins'[First].acc = acc
          /\ logins'[First].name = logins[First].name /\ logins'[First].slot = logins[First].slot
      BY <1>4, <3>1, <3>2 DEF LoginResult
    <3> QED
      BY <3>1, <3>2, <3>3, <3>4
  <2> QED
    BY <2>1, <2>2
<1>6. \A k \in 1..Len(logins') :
         /\ k \in 1..Len(logins)
         /\ logins'[k].name = logins[k].name /\ logins'[k].slot = logins[k].slot
         /\ \/ logins'[k] = logins[k]
            \/ /\ \A m \in Saves(queue) : ~Clash(queue[m].acc.name, logins[k].name)
               /\ logins'[k].state = state /\ logins'[k].acc = acc
  BY <1>5
<1>7. DataKnown'
  <2>1. \A m \in Saves(queue') : queue'[m].acc = Blank \/ Complete(queue'[m].acc)
    BY <1>2 DEF HandedOn, DataKnown
  <2>2. \A m \in Saves(queue') :
            \/ queue'[m].acc = Blank
            \/ /\ queue'[m].acc.id \in 1..Len(users')
               /\ users'[queue'[m].acc.id].name = queue'[m].acc.name
               /\ upgr'[queue'[m].acc.id] # NoRow
    BY <2>1 DEF Grows, Complete
  <2>3. \A t \in Slot : ~players'[t].loggedIn => players'[t].acc = Blank
    BY <1>3 DEF HandedOn, DataKnown
  <2> QED
    BY <2>2, <2>3 DEF DataKnown, Complete
<1>9. SavedFirst'
  <2>1. ASSUME NEW k \in Open(logins'), NEW m \in Saves(queue'),
               Clash(queue'[m].acc.name, logins'[k].name)
        PROVE  \E j \in Asks(queue') : j > m /\ queue'[j].name = logins'[k].name
    <3>1. k \in Open(logins) /\ logins'[k] = logins[k]
      BY <1>6 DEF Open
    <3>2. m + 1 \in Saves(queue) /\ queue'[m] = queue[m + 1] /\ m \in Nat
      BY <1>2
    <3>3. PICK j \in Asks(queue) : j > m + 1 /\ queue[j].name = logins[k].name
      BY <2>1, <3>1, <3>2 DEF HandedOn, SavedFirst
    <3>4. /\ j - 1 \in 1..Len(queue') /\ (j - 1) + 1 = j /\ j - 1 > m
          /\ queue[j].kind = "login"
      BY <1>1, <3>2, <3>3 DEF Asks
    <3>5. queue'[j - 1] = queue[j]
      BY <1>1, <3>4
    <3> QED
      BY <3>1, <3>3, <3>4, <3>5 DEF Asks
  <2>2. ASSUME NEW k \in 1..Len(logins'), logins'[k].state # "pending", NEW m \in Saves(queue')
        PROVE  ~Clash(queue'[m].acc.name, logins'[k].name)
    <3>1. CASE logins'[k] = logins[k]
      BY <1>2, <1>6, <2>2, <3>1 DEF HandedOn, SavedFirst
    <3>2. CASE \A l \in Saves(queue) : ~Clash(queue[l].acc.name, logins[k].name)
      BY <1>2, <1>6, <3>2
    <3> QED
      BY <1>6, <3>1, <3>2
  <2> QED
    BY <2>1, <2>2 DEF SavedFirst
<1>10. ResultsFresh'
  <2>1. \A k \in 1..Len(logins') : logins'[k].state = "successful" =>
            \/ logins[k].state = "successful" /\ logins'[k].acc = logins[k].acc
            \/ state = "successful" /\ logins'[k].acc = acc
    BY <1>6
  <2> QED
    BY <1>6, <2>1 DEF ResultsFresh, Fresh, StillFresh
<1>11. OneRequest'
  BY <1>3, <1>6 DEF HandedOn, OneRequest
<1> QED
  BY <1>3, <1>7, <1>9, <1>10, <1>11 DEF HandedOn

LEMMA RegisterKeepsOn ==
    ASSUME Inv, SessionsInv, Aligned, NamesKept, HandedOn, Grows, ~Faults,
           NEW stop \in 0..4, RunRegister(stop)
    PROVE  HandedOn'
<1> DEFINE ok == stop = 4 \/ (Registered(Head(queue).name) # {} /\ stop = 1)
<1>1. queue # << >> /\ Finish(ok, "failed", Blank) /\ UNCHANGED <<inv, works>>
  BY DEF RunRegister, Running
<1>2. ok = TRUE
  BY Zenon DEF RunRegister
<1>3. \A i \in 1..Len(users) : upgr'[i] = upgr[i]
  <2>1. upgr' = upgr \/ upgr' = [upgr EXCEPT ![Len(users) + 1] = 0]
    BY DEF RunRegister
  <2>2. Len(users) \in Nat /\ Len(users) <= MaxUsers /\ MaxUsers \in Nat /\ upgr \in [Id -> Value \cup {NoRow}]
    BY LenProperties, AccountsAssumption DEF Inv, TypeOK
  <2> QED
    BY <2>1, <2>2 DEF Id
<1>4. \A k \in 1..Len(logins) :
          logins[k].state = "successful" /\ Short(logins[k].acc.name) => StillFresh(logins[k].acc)
  BY <1>1, <1>3 DEF HandedOn, ResultsFresh, SessionsInv, Complete, Fresh, StillFresh
<1> HIDE DEF ok
<1> QED
  BY <1>1, <1>2, <1>4, JobKeepsOn

LEMMA LoginJobKeepsOn ==
    ASSUME Inv, Aligned, NamesKept, HandedOn, Grows, ~Faults,
           NEW stop \in 0..4, NEW items \in SUBSET Item, NEW work \in Value, RunLogin(stop, items, work)
    PROVE  HandedOn'
<1> DEFINE job == Head(queue)
           found == {i \in Registered(job.name) : job.right}
           id == CHOOSE i \in found : TRUE
           acc == [name |-> job.name, id |-> id, money |-> users[id].money,
                   clan |-> users[id].clan, lang |-> users[id].lang,
                   inv |-> items, work |-> work, upg |-> upgr[id]]
<1>1. queue # << >> /\ UNCHANGED tables
  BY DEF RunLogin, Running
<1>2. \/ Finish(TRUE, "failed", Blank)
      \/ Finish(TRUE, "successful", acc) /\ items = inv[id] /\ work = works[id]
  BY Zenon DEF RunLogin
<1>3. \A k \in 1..Len(logins) :
          logins[k].state = "successful" /\ Short(logins[k].acc.name) => StillFresh(logins[k].acc)
  BY <1>1 DEF HandedOn, ResultsFresh, Fresh, StillFresh, tables
<1>4. CASE Finish(TRUE, "failed", Blank)
  BY <1>1, <1>3, <1>4, JobKeepsOn
<1>5. CASE Finish(TRUE, "successful", acc) /\ items = inv[id] /\ work = works[id]
  <2>1. acc.id = id /\ acc.inv = items /\ acc.work = work /\ acc.upg = upgr[id]
    OBVIOUS
  <2> HIDE DEF acc, id
  <2>2. StillFresh(acc)
    BY <1>1, <1>5, <2>1 DEF StillFresh, tables
  <2> QED
    BY <1>1, <1>3, <1>5, <2>2, JobKeepsOn
<1> QED
  BY <1>2, <1>4, <1>5

LEMMA SaveKeepsOn ==
    ASSUME Inv, SessionsInv, NamesKept, Aligned, HandedOn, Grows, ~Faults,
           NEW stop \in 0..6, NEW items \in SUBSET Item, RunSave(stop, items)
    PROVE  HandedOn'
<1> DEFINE acc == Head(queue).acc
<1>1. /\ queue # << >> /\ Head(queue).kind = "save" /\ stop = 6
      /\ inv' = [inv EXCEPT ![acc.id] = items] \/ inv' = inv
      /\ works' = [works EXCEPT ![acc.id] = acc.work] \/ works' = works
      /\ upgr' = [upgr EXCEPT ![acc.id] = acc.upg] \/ upgr' = upgr
      /\ Finish(TRUE, "failed", Blank)
  <2>1. /\ queue # << >> /\ Head(queue).kind = "save" /\ stop = 6
        /\ Finish(stop = 6, "failed", Blank)
    BY DEF RunSave, Running
  <2>2. /\ inv' = [inv EXCEPT ![acc.id] = items] \/ inv' = inv
        /\ works' = [works EXCEPT ![acc.id] = acc.work] \/ works' = works
        /\ upgr' = [upgr EXCEPT ![acc.id] = acc.upg] \/ upgr' = upgr
    BY <2>1 DEF RunSave
  <2>3. Finish(TRUE, "failed", Blank)
    BY <2>1 DEF Finish
  <2> QED
    BY <2>1, <2>2, <2>3
<1>2. 1 \in Saves(queue) /\ queue[1] = Head(queue)
  <2>1. Len(queue) \in Nat /\ Len(queue) >= 1 /\ Head(queue) = queue[1]
    BY <1>1, LenProperties, HeadTailProperties, EmptySeq DEF Inv, TypeOK
  <2> QED
    BY <1>1, <2>1 DEF Saves
<1>3. acc = Blank \/ Complete(acc)
  BY <1>2 DEF HandedOn, DataKnown
<1> HIDE DEF acc
<1>4. /\ inv \in [Id -> SUBSET Item] /\ works \in [Id -> Value] /\ upgr \in [Id -> Value \cup {NoRow}]
      /\ Len(users) \in Nat /\ Len(users) <= MaxUsers /\ MaxUsers \in Nat
  BY LenProperties, AccountsAssumption DEF Inv, TypeOK
<1>5. ASSUME NEW k \in 1..Len(logins), logins[k].state = "successful", Short(logins[k].acc.name)
      PROVE  StillFresh(logins[k].acc)
  <2> DEFINE id == logins[k].acc.id
  <2>1. Complete(logins[k].acc) /\ logins[k].acc.name = logins[k].name /\ Fresh(logins[k].acc)
    BY <1>5 DEF SessionsInv, NamesKept, HandedOn, ResultsFresh
  <2>2. ~Clash(acc.name, logins[k].name)
    BY <1>2, <1>5 DEF HandedOn, SavedFirst, acc
  <2>3. id # acc.id
    <3>1. CASE acc = Blank
      <4>1. acc.id = 0
        BY <3>1 DEF Blank
      <4> QED
        BY <1>4, <2>1, <4>1 DEF Complete
    <3>2. CASE Complete(acc)
      BY <1>5, <2>1, <2>2, <3>2 DEF Complete, Clash
    <3> QED
      BY <1>3, <3>1, <3>2
  <2>4. id \in Id
    BY <1>4, <2>1 DEF Complete, Id
  <2> HIDE DEF id
  <2>5. inv'[id] = inv[id] /\ works'[id] = works[id] /\ upgr'[id] = upgr[id]
    BY <1>1, <1>4, <2>3, <2>4
  <2> QED
    BY <2>1, <2>5 DEF Fresh, StillFresh, id
<1> QED
  BY <1>1, <1>5, JobKeepsOn
-----------------------------------------------------------------------------
\* Only who is on the server is logged in.
OnlyHere == \A s \in Slot : players[s].loggedIn => players[s].here

LEMMA OnlyHereNext ==
    ASSUME Inv, OnlyHere, [Next]_vars
    PROVE  OnlyHere'
<1> SUFFICES ASSUME NEW s \in Slot, players'[s].loggedIn
             PROVE  players'[s].here
  BY DEF OnlyHere
<1>1. players \in [Slot -> Player]
  BY DEF Inv, TypeOK
<1>2. CASE players' = players
  BY <1>2 DEF OnlyHere
<1>3. CASE Players
  <2>1. ASSUME NEW t \in Slot, Connect(t)
        PROVE  players'[s].here
    <3>1. players' = [players EXCEPT ![t] = [Nobody EXCEPT !.here = TRUE]]
      BY <2>1 DEF Connect
    <3>2. Nobody \in Player
      BY Basics
    <3>3. CASE s = t
      BY <1>1, <3>1, <3>2, <3>3 DEF Player
    <3>4. CASE s # t
      BY <1>1, <3>1, <3>4 DEF OnlyHere
    <3> QED
      BY <3>3, <3>4
  <2>2. ASSUME NEW t \in Slot, Drop(t)
        PROVE  players'[s].here
    BY <1>1, <2>2 DEF Drop, Nobody, OnlyHere
  <2>3. CASE players' # players
    BY <1>3, <2>1, <2>2, <2>3 DEF Players, ChatRegister, ChatLogin
  <2> QED
    BY <1>2, <2>3
<1>4. CASE Gameplay
  <2>1. \A t \in Slot : \A acc, save : Play(t, acc, save) => players'[s].here
    BY <1>1 DEF Play, Player, OnlyHere
  <2> QED
    BY <1>4, <2>1 DEF Gameplay, ItemPlay, GiveItem, RemItem, AddMoney, AddWorkEXP, AddEXP, ChatLang, AcceptInvite
<1>5. ASSUME NEW autosave \in BOOLEAN, OnTick(autosave)
      PROVE  players'[s].here
  <2>1. players'[s] = Delivered(s)
    BY <1>5 DEF OnTick
  <2> QED
    BY <2>1, DeliveredFacts DEF Inv, OnlyHere
<1>6. CASE Reload
  BY <1>6 DEF Reload, Nobody
<1>7. CASE RunJob
  BY <1>2, <1>7 DEF RunJob, Dismiss, RunRegister, RunLogin, RunSave, Finish
<1>8. CASE Shutdown \/ Recover \/ UNCHANGED vars
  BY <1>2, <1>8 DEF Shutdown, Recover, vars
<1> QED
  BY <1>3, <1>4, <1>5, <1>6, <1>7, <1>8 DEF Next

LEMMA RunningInit == Init => RunningInv /\ OnlyHere
<1> SUFFICES ASSUME Init PROVE RunningInv /\ OnlyHere
  OBVIOUS
<1>1. Inv /\ SessionsInv /\ Aligned /\ NamesKept
  BY InvInit, SessionsInit, NamesKeptInit
<1>2. queue = << >> /\ logins = << >> /\ users = << >> /\ players = [s \in Slot |-> Nobody] /\ failMode = FALSE
  BY DEF Init
<1>3. Len(queue) = 0 /\ Len(logins) = 0 /\ Len(users) = 0 /\ 1..0 = {}
  BY <1>2, EmptySeq
<1>4. Saves(queue) = {} /\ Asks(queue) = {}
  BY <1>3 DEF Saves, Asks
<1>5. UniqueNames
  BY <1>3 DEF UniqueNames
<1>6. OnlyHere /\ DataKnown
  BY <1>2, <1>4 DEF OnlyHere, DataKnown, Nobody
<1>7. SavedFirst /\ ResultsFresh /\ OneRequest
  BY <1>3, <1>4 DEF SavedFirst, ResultsFresh, OneRequest
<1> QED
  BY <1>1, <1>2, <1>5, <1>6, <1>7 DEF RunningInv, HandedOn

LEMMA RunningNext ==
    ASSUME Patient, ~Faults, RunningInv, [Next]_vars
    PROVE  RunningInv'
<1>1. Inv /\ UniqueNames /\ SessionsInv /\ Aligned /\ NamesKept
  BY DEF RunningInv
<1>2. Inv' /\ UniqueNames' /\ SessionsInv' /\ Aligned' /\ NamesKept'
  BY <1>1, InvNext, UniqueNext, SessionsNext, AlignedNext, NamesKeptNext
<1>3. TypeOK' /\ Grows
  BY <1>1, <1>2, TablesGrow DEF Inv
<1>4. ASSUME ~shutdown'
      PROVE  HandedOn'
  <2>1. ~shutdown
    BY <1>4 DEF Next, Players, Connect, Drop, ChatRegister, ChatLogin, Gameplay, ItemPlay, GiveItem,
                RemItem, AddMoney, AddWorkEXP, AddEXP, ChatLang, AcceptInvite, Play, OnTick, Reload,
                Shutdown, RunJob, Dismiss, RunRegister, RunLogin, RunSave, Finish, Recover, vars
  <2>2. HandedOn /\ ~failMode
    BY <2>1 DEF RunningInv, HandedOn
  <2>3. CASE Players
    BY <1>1, <2>2, <2>3, PlayersKeepOn, LoginKeepsOn DEF Players
  <2>4. CASE Gameplay
    BY <1>1, <1>2, <1>3, <2>2, <2>4, GameplayKeepsOn
  <2>5. ASSUME NEW autosave \in BOOLEAN, OnTick(autosave)
        PROVE  HandedOn'
    BY <1>1, <1>2, <1>3, <2>2, <2>5, TickKeepsOn
  <2>6. CASE RunJob
    <3>1. CASE Dismiss
      BY <2>1, <2>2, <3>1 DEF Dismiss
    <3> QED
      BY <1>1, <1>3, <2>2, <2>6, <3>1, RegisterKeepsOn, LoginJobKeepsOn, SaveKeepsOn DEF RunJob
  <2>7. CASE UNCHANGED vars
    <3>1. queue' = queue /\ logins' = logins /\ players' = players /\ UNCHANGED <<tables, failMode>>
      BY <2>7 DEF vars, tables
    <3>2. DataKnown'
      BY <2>2, <3>1 DEF HandedOn, DataKnown, Saves, Complete, tables
    <3>3. SavedFirst'
      BY <2>2, <3>1 DEF HandedOn, SavedFirst, Saves, Asks, Open
    <3>4. ResultsFresh'
      BY <2>2, <3>1 DEF HandedOn, ResultsFresh, Fresh, tables
    <3>5. OneRequest'
      BY <2>2, <3>1 DEF HandedOn, OneRequest
    <3> QED
      BY <2>2, <3>1, <3>2, <3>3, <3>4, <3>5 DEF HandedOn
  <2>8. CASE Reload
    <3>1. queue' = queue /\ UNCHANGED <<tables, failMode>> /\ logins' = << >> /\ Len(logins') = 0
      BY <2>8, EmptySeq DEF Reload
    <3>2. \A s \in Slot : players'[s] = Nobody
      BY <2>8 DEF Reload
    <3>3. DataKnown'
      BY <2>2, <3>1, <3>2 DEF HandedOn, DataKnown, Saves, Complete, tables, Nobody
    <3>4. SavedFirst' /\ ResultsFresh' /\ OneRequest'
      BY <3>1 DEF SavedFirst, ResultsFresh, OneRequest, Open
    <3> QED
      BY <2>2, <3>1, <3>3, <3>4 DEF HandedOn
  <2>9. ~Shutdown /\ ~Recover
    BY <1>4, <2>2 DEF Shutdown, Recover
  <2> QED
    BY <2>3, <2>4, <2>5, <2>6, <2>7, <2>8, <2>9 DEF Next
<1> QED
  BY <1>2, <1>4 DEF RunningInv
-----------------------------------------------------------------------------
\* The parts of Owned, each of the variables it depends on.
Hand(acc) == <<acc.inv, acc.work, acc.upg>>
PlayingIn(ps, i) == {s \in Slot : ps[s].loggedIn /\ ps[s].acc.id = i}
SavesOf(q, i) == {k \in 1..Len(q) : q[k].kind = "save" /\ q[k].acc.id = i}
Last(S) == CHOOSE k \in S : \A j \in S : j <= k
StoredBy(q, row, i) == IF SavesOf(q, i) = {} THEN row ELSE Hand(q[Last(SavesOf(q, i))].acc)
OwnedIn(ps, q, row, i) ==
    IF PlayingIn(ps, i) = {} THEN StoredBy(q, row, i)
    ELSE Hand(ps[CHOOSE s \in PlayingIn(ps, i) : TRUE].acc)

OwnedOf(P, S, ps, q, row) ==
    LET latest == IF P # {} THEN ps[CHOOSE s \in P : TRUE].acc
                  ELSE q[CHOOSE k \in S : \A j \in S : j <= k].acc
    IN  IF P \cup S # {} THEN <<latest.inv, latest.work, latest.upg>> ELSE row

LEMMA OwnedParts ==
    ASSUME NEW i
    PROVE  /\ Owned(i) = OwnedIn(players, queue, <<inv[i], works[i], upgr[i]>>, i)
           /\ Owned(i)' = OwnedIn(players', queue', <<inv'[i], works'[i], upgr'[i]>>, i)
<1>1. /\ Playing(i) = PlayingIn(players, i) /\ Playing(i)' = PlayingIn(players', i)
      /\ Saving(i) = SavesOf(queue, i) /\ Saving(i)' = SavesOf(queue', i)
  BY DEF Playing, PlayingIn, Saving, Kinds, SavesOf
<1>2. ASSUME NEW ps, NEW q, NEW row
      PROVE  OwnedOf(PlayingIn(ps, i), SavesOf(q, i), ps, q, row) = OwnedIn(ps, q, row, i)
  <2> DEFINE P == PlayingIn(ps, i)
             S == SavesOf(q, i)
             one == CHOOSE s \in P : TRUE
             last == CHOOSE k \in S : \A j \in S : j <= k
  <2>1. /\ OwnedIn(ps, q, row, i) =
              IF P = {} THEN (IF S = {} THEN row ELSE Hand(q[last].acc)) ELSE Hand(ps[one].acc)
        /\ OwnedOf(P, S, ps, q, row) =
              IF P \cup S # {}
              THEN LET latest == IF P # {} THEN ps[one].acc ELSE q[last].acc
                   IN  <<latest.inv, latest.work, latest.upg>>
              ELSE row
    BY DEF OwnedIn, StoredBy, Last, OwnedOf
  <2> HIDE DEF P, S, one, last
  <2> SUFFICES OwnedOf(P, S, ps, q, row) = OwnedIn(ps, q, row, i)
    BY DEF P, S
  <2>2. CASE P # {}
    <3>1. P \cup S # {}
      BY <2>2
    <3> QED
      BY <2>1, <2>2, <3>1 DEF Hand
  <2>3. CASE P = {} /\ S # {}
    <3>1. P \cup S # {}
      BY <2>3
    <3> QED
      BY <2>1, <2>3, <3>1 DEF Hand
  <2>4. CASE P = {} /\ S = {}
    <3>1. P \cup S = {}
      BY <2>4
    <3> QED
      BY <2>1, <2>4, <3>1
  <2> QED
    BY <2>2, <2>3, <2>4
<1>3. Owned(i) = OwnedOf(Playing(i), Saving(i), players, queue, <<inv[i], works[i], upgr[i]>>)
  BY DEF Owned, OwnedOf
<1>4. Owned(i)' = OwnedOf(Playing(i)', Saving(i)', players', queue', <<inv'[i], works'[i], upgr'[i]>>)
  BY DEF Owned, OwnedOf
<1> QED
  BY <1>1, <1>2, <1>3, <1>4

LEMMA OwnedInHand ==
    ASSUME NEW ps, NEW q, NEW row, NEW i, NEW s \in PlayingIn(ps, i),
           \A t \in PlayingIn(ps, i) : t = s
    PROVE  OwnedIn(ps, q, row, i) = Hand(ps[s].acc)
<1>1. (CHOOSE t \in PlayingIn(ps, i) : TRUE) = s
  OBVIOUS
<1> QED
  BY <1>1 DEF OwnedIn

LEMMA LastSave ==
    ASSUME NEW q \in Seq(Job), NEW i, SavesOf(q, i) # {}
    PROVE  /\ Last(SavesOf(q, i)) \in SavesOf(q, i) /\ Last(SavesOf(q, i)) \in Nat
           /\ \A j \in SavesOf(q, i) : j <= Last(SavesOf(q, i))
<1>1. Len(q) \in Nat /\ SavesOf(q, i) \in SUBSET (1..Len(q))
  BY LenProperties DEF SavesOf
<1> DEFINE S == SavesOf(q, i)
<1>2. S # {} /\ S \in SUBSET (1..Len(q))
  BY <1>1
<1> HIDE DEF S
<1>3. Last(S) \in S /\ \A j \in S : j <= Last(S)
  BY <1>1, <1>2, Largest DEF Last
<1> QED
  BY <1>1, <1>2, <1>3 DEF S

LEMMA LastIs ==
    ASSUME NEW S \in SUBSET Nat, NEW k \in S, \A j \in S : j <= k
    PROVE  Last(S) = k
<1>1. \A m \in S : (\A j \in S : j <= m) => m = k
  OBVIOUS
<1>2. Last(S) \in S /\ \A j \in S : j <= Last(S)
  BY DEF Last
<1> QED
  BY <1>1, <1>2

\* Jobs put behind others store nothing unless they save.
LEMMA StoredAppended ==
    ASSUME NEW q \in Seq(Job), NEW r \in Seq(Job), NEW row, NEW i, SavesOf(r, i) = {}
    PROVE  StoredBy(q \o r, row, i) = StoredBy(q, row, i)
<1>1. /\ q \o r \in Seq(Job) /\ Len(q) \in Nat /\ Len(r) \in Nat /\ Len(q \o r) = Len(q) + Len(r)
      /\ \A k \in 1..(Len(q) + Len(r)) :
            (q \o r)[k] = IF k <= Len(q) THEN q[k] ELSE r[k - Len(q)]
  BY ConcatProperties, LenProperties
<1>2. ASSUME NEW k \in SavesOf(q \o r, i)
      PROVE  k \in SavesOf(q, i)
  <2>1. k \in 1..(Len(q) + Len(r)) /\ (q \o r)[k].kind = "save" /\ (q \o r)[k].acc.id = i
    BY <1>1, <1>2 DEF SavesOf
  <2>2. CASE k <= Len(q)
    BY <1>1, <2>1, <2>2 DEF SavesOf
  <2>3. CASE ~(k <= Len(q))
    <3>1. k - Len(q) \in 1..Len(r) /\ (q \o r)[k] = r[k - Len(q)]
      BY <1>1, <2>1, <2>3
    <3>2. k - Len(q) \in SavesOf(r, i)
      BY <2>1, <3>1 DEF SavesOf
    <3> QED
      BY <3>2
  <2> QED
    BY <2>2, <2>3
<1>3. \A k \in SavesOf(q, i) : k \in SavesOf(q \o r, i) /\ (q \o r)[k] = q[k]
  BY <1>1 DEF SavesOf
<1>4. SavesOf(q \o r, i) = SavesOf(q, i)
  BY <1>2, <1>3
<1>5. SavesOf(q, i) # {} => Last(SavesOf(q, i)) \in SavesOf(q, i)
  BY LastSave
<1> QED
  BY <1>3, <1>4, <1>5 DEF StoredBy

\* The oldest job stores its data, and that is what the row then holds.
LEMMA StoredTail ==
    ASSUME NEW q \in Seq(Job), q # << >>, NEW row, NEW row2, NEW i,
           row2 = IF 1 \in SavesOf(q, i) THEN Hand(q[1].acc) ELSE row
    PROVE  StoredBy(Tail(q), row2, i) = StoredBy(q, row, i)
<1>1. /\ Len(q) \in Nat /\ Len(q) >= 1 /\ Tail(q) \in Seq(Job) /\ Len(Tail(q)) = Len(q) - 1
      /\ \A m \in 1..Len(Tail(q)) : Tail(q)[m] = q[m + 1]
  BY HeadTailProperties, LenProperties, EmptySeq
<1>2. \A m \in SavesOf(Tail(q), i) : m + 1 \in SavesOf(q, i) /\ Tail(q)[m] = q[m + 1] /\ m \in Nat
  BY <1>1 DEF SavesOf
<1>3. \A m \in SavesOf(q, i) : m \in Nat /\ (m = 1 \/ m - 1 \in SavesOf(Tail(q), i))
  <2> SUFFICES ASSUME NEW m \in SavesOf(q, i), m # 1
               PROVE  m \in Nat /\ m - 1 \in SavesOf(Tail(q), i)
    BY DEF SavesOf
  <2>1. m \in 1..Len(q) /\ q[m].kind = "save" /\ q[m].acc.id = i
    BY DEF SavesOf
  <2>2. m - 1 \in 1..Len(Tail(q)) /\ (m - 1) + 1 = m
    BY <1>1, <2>1
  <2>3. Tail(q)[m - 1] = q[m]
    BY <1>1, <2>2
  <2> QED
    BY <2>1, <2>2, <2>3 DEF SavesOf
<1>4. SavesOf(q, i) \in SUBSET Nat
  BY <1>3
<1>5. CASE SavesOf(Tail(q), i) # {}
  <2> DEFINE m == Last(SavesOf(Tail(q), i))
  <2>1. m \in SavesOf(Tail(q), i) /\ m \in Nat /\ \A j \in SavesOf(Tail(q), i) : j <= m
    BY <1>1, <1>5, LastSave
  <2> HIDE DEF m
  <2>2. m + 1 \in SavesOf(q, i) /\ Tail(q)[m] = q[m + 1]
    BY <1>2, <2>1
  <2>3. \A j \in SavesOf(q, i) : j <= m + 1
    BY <1>3, <2>1
  <2>4. Last(SavesOf(q, i)) = m + 1
    BY <1>4, <2>2, <2>3, LastIs
  <2> QED
    BY <1>5, <2>2, <2>4 DEF StoredBy, m
<1>6. CASE SavesOf(Tail(q), i) = {} /\ SavesOf(q, i) # {}
  <2>1. 1 \in SavesOf(q, i) /\ \A j \in SavesOf(q, i) : j = 1
    BY <1>3, <1>6
  <2>2. Last(SavesOf(q, i)) = 1
    BY <1>4, <2>1, LastIs
  <2> QED
    BY <1>6, <2>1, <2>2 DEF StoredBy
<1>7. CASE SavesOf(Tail(q), i) = {} /\ SavesOf(q, i) = {}
  BY <1>7 DEF StoredBy
<1> QED
  BY <1>5, <1>6, <1>7
-----------------------------------------------------------------------------
\* An account whose name no longer login is cut to, before and after a step.
ShortId(i) == Short(users[i].name) /\ Short(users'[i].name)

LEMMA OneEach ==
    ASSUME RunningInv, RunningInv', NEW i, ShortId(i)
    PROVE  /\ \A s, t \in PlayingIn(players, i) : s = t
           /\ \A s, t \in PlayingIn(players', i) : s = t
<1>1. SessionsInv /\ OneShortSession /\ SessionsInv' /\ OneShortSession'
  BY DEF RunningInv, NamesKept
<1>2. \A s, t \in PlayingIn(players, i) : s = t
  BY <1>1 DEF SessionsInv, Complete, OneShortSession, PlayingIn, ShortId, Short
<1>3. \A s, t \in PlayingIn(players', i) : s = t
  BY <1>1 DEF SessionsInv, Complete, OneShortSession, PlayingIn, ShortId, Short
<1> QED
  BY <1>2, <1>3

\* Who plays an account keeps what it owns by keeping his data.
LEMMA HandKept ==
    ASSUME RunningInv, RunningInv', NEW i, ShortId(i), NEW s \in PlayingIn(players, i), players'[s] = players[s]
    PROVE  Owned(i)' = Owned(i)
<1>1. s \in PlayingIn(players', i)
  BY DEF PlayingIn
<1>2. /\ \A t \in PlayingIn(players, i) : t = s
      /\ \A t \in PlayingIn(players', i) : t = s
  BY <1>1, OneEach
<1>3. /\ OwnedIn(players, queue, <<inv[i], works[i], upgr[i]>>, i) = Hand(players[s].acc)
      /\ OwnedIn(players', queue', <<inv'[i], works'[i], upgr'[i]>>, i) = Hand(players'[s].acc)
  BY <1>1, <1>2, OwnedInHand
<1> QED
  BY <1>3, OwnedParts

\* What nobody plays is kept in the queue and the tables.
LEMMA StoreKept ==
    ASSUME NEW i, PlayingIn(players, i) = {}, PlayingIn(players', i) = {},
           StoredBy(queue', <<inv'[i], works'[i], upgr'[i]>>, i)
               = StoredBy(queue, <<inv[i], works[i], upgr[i]>>, i)
    PROVE  Owned(i)' = Owned(i)
BY OwnedParts DEF OwnedIn

LEMMA OthersOwned ==
    ASSUME RunningInv, RunningInv', NEW i, ShortId(i), players' = players,
           StoredBy(queue', <<inv'[i], works'[i], upgr'[i]>>, i)
               = StoredBy(queue, <<inv[i], works[i], upgr[i]>>, i)
    PROVE  Owned(i)' = Owned(i)
<1>1. CASE PlayingIn(players, i) = {}
  BY <1>1, StoreKept
<1>2. CASE PlayingIn(players, i) # {}
  BY <1>2, HandKept
<1> QED
  BY <1>1, <1>2

LEMMA RunJobOwned ==
    ASSUME RunningInv, RunningInv', ~Faults, ~shutdown, RunJob, NEW i \in 1..Len(users),
           ShortId(i)
    PROVE  Owned(i)' = Owned(i)
<1> DEFINE row == <<inv[i], works[i], upgr[i]>>
           row2 == <<inv'[i], works'[i], upgr'[i]>>
<1>1. Inv /\ HandedOn
  BY DEF RunningInv
<1>2. /\ queue \in Seq(Job) /\ Len(users) \in Nat /\ Len(users) <= MaxUsers /\ MaxUsers \in Nat
      /\ inv \in [Id -> SUBSET Item] /\ works \in [Id -> Value] /\ upgr \in [Id -> Value \cup {NoRow}]
  BY <1>1, LenProperties, AccountsAssumption DEF Inv, TypeOK
<1>3. i \in Id /\ i # 0 /\ i <= Len(users) /\ i \in Nat
  BY <1>2 DEF Id
<1>4. queue # << >> /\ queue' = Tail(queue) /\ players' = players
  BY DEF RunJob, Dismiss, RunRegister, RunLogin, RunSave, Running, Finish
<1>5. Head(queue) = queue[1] /\ Len(queue) \in Nat /\ Len(queue) >= 1
  BY <1>2, <1>4, HeadTailProperties, LenProperties, EmptySeq
<1>6. row2 = IF 1 \in SavesOf(queue, i) THEN Hand(queue[1].acc) ELSE row
  <2>1. CASE Dismiss
    BY <1>1, <2>1 DEF Dismiss, HandedOn
  <2>2. ASSUME NEW stop \in 0..4, RunRegister(stop)
        PROVE  row2 = row /\ 1 \notin SavesOf(queue, i)
    <3>1. UNCHANGED <<inv, works>> /\ queue[1].kind = "register"
      BY <1>5, <2>2 DEF RunRegister, Running
    <3>2. upgr' = upgr \/ upgr' = [upgr EXCEPT ![Len(users) + 1] = 0]
      BY <2>2 DEF RunRegister
    <3>3. upgr'[i] = upgr[i]
      BY <1>2, <1>3, <3>2
    <3> QED
      BY <3>1, <3>3 DEF SavesOf
  <2>3. ASSUME NEW stop \in 0..4, NEW items \in SUBSET Item, NEW work \in Value, RunLogin(stop, items, work)
        PROVE  row2 = row /\ 1 \notin SavesOf(queue, i)
    BY <1>5, <2>3 DEF RunLogin, Running, tables, SavesOf
  <2>4. ASSUME NEW stop \in 0..6, NEW items \in SUBSET Item, RunSave(stop, items)
        PROVE  row2 = IF 1 \in SavesOf(queue, i) THEN Hand(queue[1].acc) ELSE row
    <3> DEFINE acc == Head(queue).acc
    <3>1. /\ Head(queue).kind = "save" /\ stop = 6 /\ items = acc.inv
          /\ inv' = [inv EXCEPT ![acc.id] = items]
          /\ works' = [works EXCEPT ![acc.id] = acc.work]
          /\ upgr[acc.id] # NoRow => upgr' = [upgr EXCEPT ![acc.id] = acc.upg]
          /\ upgr[acc.id] = NoRow => upgr' = upgr
      <4>1. Head(queue).kind = "save" /\ stop = 6
        BY <2>4 DEF RunSave, Running
      <4>2. items = acc.inv
        BY <2>4, <4>1 DEF RunSave
      <4>3. inv' = [inv EXCEPT ![acc.id] = items]
        BY <2>4, <4>1 DEF RunSave
      <4>4. works' = [works EXCEPT ![acc.id] = acc.work]
        BY <2>4, <4>1 DEF RunSave
      <4>5. upgr' = IF upgr[acc.id] # NoRow THEN [upgr EXCEPT ![acc.id] = acc.upg] ELSE upgr
        BY <2>4, <4>1 DEF RunSave
      <4> QED
        BY <4>1, <4>2, <4>3, <4>4, <4>5
    <3>2. queue[1] = Head(queue) /\ acc = queue[1].acc /\ queue[1].kind = "save" /\ 1 \in 1..Len(queue)
      BY <1>5, <3>1
    <3>3. acc = Blank \/ Complete(acc)
      BY <1>1, <3>2 DEF HandedOn, DataKnown, Saves
    <3> HIDE DEF acc
    <3>4. CASE acc.id = i
      <4>1. acc # Blank
        <5>1. Blank.id = 0
          BY DEF Blank
        <5> QED
          BY <1>3, <3>4, <5>1
      <4>2. upgr[acc.id] # NoRow
        BY <3>3, <4>1 DEF Complete
      <4>3. inv'[i] = acc.inv /\ works'[i] = acc.work /\ upgr'[i] = acc.upg
        BY <1>2, <1>3, <3>1, <3>4, <4>2
      <4>4. 1 \in SavesOf(queue, i)
        BY <3>2, <3>4 DEF SavesOf
      <4> QED
        BY <3>2, <4>3, <4>4 DEF Hand
    <3>5. CASE acc.id # i
      <4>1. inv'[i] = inv[i] /\ works'[i] = works[i] /\ upgr'[i] = upgr[i]
        BY <1>2, <1>3, <3>1, <3>5
      <4>2. 1 \notin SavesOf(queue, i)
        BY <3>2, <3>5 DEF SavesOf
      <4> QED
        BY <4>1, <4>2
    <3> QED
      BY <3>4, <3>5
  <2> HIDE DEF row, row2
  <2> QED
    BY <2>1, <2>2, <2>3, <2>4 DEF RunJob
<1> HIDE DEF row, row2
<1>7. StoredBy(Tail(queue), row2, i) = StoredBy(queue, row, i)
  BY <1>2, <1>4, <1>6, StoredTail
<1> QED
  BY <1>4, <1>7, OthersOwned DEF row, row2
-----------------------------------------------------------------------------
\* Jobs put into the queue that save nothing of an account nobody plays.
LEMMA SubmitOwned ==
    ASSUME RunningInv, RunningInv', NEW i, UNCHANGED tables,
           PlayingIn(players, i) = {}, PlayingIn(players', i) = {},
           NEW r \in Seq(Job), queue' = queue \o r, SavesOf(r, i) = {}
    PROVE  Owned(i)' = Owned(i)
<1>1. queue \in Seq(Job)
  BY DEF RunningInv, Inv, TypeOK
<1>2. \A row : StoredBy(queue', row, i) = StoredBy(queue, row, i)
  BY <1>1, StoredAppended
<1>3. <<inv'[i], works'[i], upgr'[i]>> = <<inv[i], works[i], upgr[i]>>
  BY DEF tables
<1> QED
  BY <1>2, <1>3, StoreKept

LEMMA OneSavedNot ==
    ASSUME NEW job \in Job, NEW i, ~(job.kind = "save" /\ job.acc.id = i)
    PROVE  <<job>> \in Seq(Job) /\ SavesOf(<<job>>, i) = {}
<1>1. <<job>> \in Seq(Job) /\ Len(<<job>>) = 1 /\ <<job>>[1] = job
  OBVIOUS
<1>2. \A k \in 1..Len(<<job>>) : k = 1
  BY <1>1
<1> QED
  BY <1>1, <1>2 DEF SavesOf

\* A player's data is that of the account he plays, and else of none.
LEMMA SavedId ==
    ASSUME DataKnown, NEW s \in Slot, NEW i \in 1..Len(users), players[s].acc.id = i
    PROVE  s \in PlayingIn(players, i)
<1>1. ~players[s].loggedIn => players[s].acc = Blank
  BY DEF DataKnown
<1>2. Blank.id = 0
  BY DEF Blank
<1>3. i # 0
  OBVIOUS
<1> QED
  BY <1>1, <1>2, <1>3 DEF PlayingIn

LEMMA QueuedOwned ==
    ASSUME RunningInv, RunningInv', NEW i, ShortId(i), UNCHANGED <<players, tables>>,
           NEW job \in Job, job.kind # "save", queue' = Append(queue, job)
    PROVE  Owned(i)' = Owned(i)
<1>1. queue \in Seq(Job)
  BY DEF RunningInv, Inv, TypeOK
<1>2. queue' = queue \o <<job>>
  BY <1>1, AppendIsConcat
<1>3. <<job>> \in Seq(Job) /\ SavesOf(<<job>>, i) = {}
  BY OneSavedNot
<1>4. CASE PlayingIn(players, i) = {}
  BY <1>2, <1>3, <1>4, SubmitOwned
<1>5. CASE PlayingIn(players, i) # {}
  BY <1>5, HandKept
<1> QED
  BY <1>4, <1>5

LEMMA ConnectOwned ==
    ASSUME RunningInv, RunningInv', OnlyHere, NEW s \in Slot, Connect(s), NEW i, ShortId(i)
    PROVE  Owned(i)' = Owned(i)
<1>1. /\ queue \in Seq(Job) /\ << >> \in Seq(Job) /\ queue \o << >> = queue
      /\ players \in [Slot -> Player]
  BY EmptySeq, ConcatEmptySeq DEF RunningInv, Inv, TypeOK
<1>2. /\ queue' = queue /\ UNCHANGED tables /\ ~players[s].loggedIn
      /\ players' = [players EXCEPT ![s] = [Nobody EXCEPT !.here = TRUE]]
  BY DEF Connect, OnlyHere
<1>3. ~players'[s].loggedIn /\ \A t \in Slot : t # s => players'[t] = players[t]
  BY <1>1, <1>2 DEF Nobody
<1>4. CASE PlayingIn(players, i) = {}
  <2>1. PlayingIn(players', i) = {}
    BY <1>3, <1>4 DEF PlayingIn
  <2>2. SavesOf(<< >>, i) = {}
    BY EmptySeq DEF SavesOf
  <2>3. queue' = queue \o << >>
    BY <1>1, <1>2
  <2> QED
    BY <1>1, <1>2, <1>4, <2>1, <2>2, <2>3, SubmitOwned
<1>5. ASSUME NEW t \in PlayingIn(players, i)
      PROVE  Owned(i)' = Owned(i)
  <2>1. players'[t] = players[t]
    BY <1>2, <1>3 DEF PlayingIn
  <2> QED
    BY <2>1, HandKept
<1> QED
  BY <1>4, <1>5

LEMMA DropOwned ==
    ASSUME RunningInv, RunningInv', ~shutdown, NEW s \in Slot, Drop(s), NEW i \in 1..Len(users),
           ShortId(i)
    PROVE  Owned(i)' = Owned(i)
<1> DEFINE job == SaveJob(players[s].acc)
<1>1. queue \in Seq(Job) /\ Len(queue) \in Nat /\ players \in [Slot -> Player] /\ HandedOn
  BY LenProperties DEF RunningInv, Inv, TypeOK
<1>2. UNCHANGED tables /\ players' = [players EXCEPT ![s] = Nobody] /\ queue' = Append(queue, job)
  BY DEF Drop
<1>3. ~players'[s].loggedIn /\ \A t \in Slot : t # s => players'[t] = players[t]
  BY <1>1, <1>2 DEF Nobody
<1>4. job \in Job /\ job.kind = "save" /\ job.acc = players[s].acc
  BY <1>1, Basics DEF Player, SaveJob
<1> HIDE DEF job
<1>5. CASE s \in PlayingIn(players, i)
  <2>1. \A t \in PlayingIn(players, i) : t = s
    BY <1>5, OneEach
  <2>2. PlayingIn(players', i) = {}
    BY <1>3, <2>1 DEF PlayingIn
  <2>3. /\ Len(queue') = Len(queue) + 1 /\ queue'[Len(queue) + 1] = job
        /\ queue' \in Seq(Job)
    BY <1>1, <1>2, <1>4, AppendProperties
  <2>4. /\ Len(queue) + 1 \in SavesOf(queue', i)
        /\ SavesOf(queue', i) \in SUBSET Nat
        /\ \A j \in SavesOf(queue', i) : j <= Len(queue) + 1
    BY <1>1, <1>4, <1>5, <2>3 DEF SavesOf, PlayingIn
  <2>5. Last(SavesOf(queue', i)) = Len(queue) + 1
    BY <2>4, LastIs
  <2>6. \A row : StoredBy(queue', row, i) = Hand(players[s].acc)
    BY <1>4, <2>3, <2>4, <2>5 DEF StoredBy
  <2>7. OwnedIn(players', queue', <<inv'[i], works'[i], upgr'[i]>>, i) = Hand(players[s].acc)
    BY <2>2, <2>6 DEF OwnedIn
  <2>8. OwnedIn(players, queue, <<inv[i], works[i], upgr[i]>>, i) = Hand(players[s].acc)
    BY <1>5, <2>1, OwnedInHand
  <2> QED
    BY <2>7, <2>8, OwnedParts
<1>6. CASE s \notin PlayingIn(players, i) /\ PlayingIn(players, i) = {}
  <2>1. PlayingIn(players', i) = {}
    BY <1>3, <1>6 DEF PlayingIn
  <2>2. job.acc.id # i
    BY <1>1, <1>4, <1>6, SavedId DEF HandedOn
  <2>3. <<job>> \in Seq(Job) /\ SavesOf(<<job>>, i) = {}
    BY <1>4, <2>2, OneSavedNot
  <2>4. queue' = queue \o <<job>>
    BY <1>1, <1>2, <1>4, AppendIsConcat
  <2> QED
    BY <1>2, <1>6, <2>1, <2>3, <2>4, SubmitOwned
<1>7. ASSUME s \notin PlayingIn(players, i), NEW t \in PlayingIn(players, i)
      PROVE  Owned(i)' = Owned(i)
  <2>1. players'[t] = players[t]
    BY <1>3, <1>7 DEF PlayingIn
  <2> QED
    BY <2>1, HandKept
<1> QED
  BY <1>5, <1>6, <1>7

LEMMA PlayersOwned ==
    ASSUME RunningInv, RunningInv', OnlyHere, ~shutdown, Players, NEW i \in 1..Len(users),
           ShortId(i)
    PROVE  Owned(i)' = Owned(i)
<1>1. ASSUME NEW s \in Slot, NEW n \in Login, ChatRegister(s, n)
      PROVE  Owned(i)' = Owned(i)
  <2> DEFINE job == [kind |-> "register", name |-> Cut[n], right |-> TRUE, acc |-> Blank]
  <2>1. job \in Job /\ job.kind # "save"
    BY Basics, CutNames DEF Job
  <2>2. queue' = Append(queue, job) /\ UNCHANGED <<players, tables>>
    BY <1>1 DEF ChatRegister
  <2> HIDE DEF job
  <2> QED
    BY <2>1, <2>2, QueuedOwned
<1>2. ASSUME NEW s \in Slot, NEW n \in Login, NEW right \in BOOLEAN, ChatLogin(s, n, right)
      PROVE  Owned(i)' = Owned(i)
  <2> DEFINE job == [kind |-> "login", name |-> Cut[n], right |-> right, acc |-> Blank]
  <2>1. job \in Job /\ job.kind # "save"
    BY Basics, CutNames DEF Job
  <2>2. queue' = Append(queue, job) /\ UNCHANGED <<players, tables>>
    BY <1>2 DEF ChatLogin
  <2> HIDE DEF job
  <2> QED
    BY <2>1, <2>2, QueuedOwned
<1> QED
  BY <1>1, <1>2, ConnectOwned, DropOwned DEF Players

LEMMA TickOwned ==
    ASSUME RunningInv, RunningInv', ~shutdown, NEW autosave \in BOOLEAN, OnTick(autosave), NEW i \in 1..Len(users),
           ShortId(i)
    PROVE  Owned(i)' = Owned(i)
<1>1. Inv /\ SessionsInv /\ NamesKept /\ HandedOn /\ TypeOK /\ i # 0
  BY DEF RunningInv, Inv
<1>2. UNCHANGED tables /\ \A t \in Slot : players'[t] = Delivered(t)
  BY DEF OnTick
<1>3. ASSUME NEW t \in Slot, players'[t] # players[t]
      PROVE  \E k \in 1..Len(logins) : /\ logins[k].slot = t /\ logins[k].state = "successful"
                                       /\ players'[t].acc = logins[k].acc
  BY <1>1, <1>2, <1>3, DeliveredFacts
<1>4. ASSUME NEW t \in PlayingIn(players, i)
      PROVE  Owned(i)' = Owned(i)
  <2>1. t \in Slot /\ players[t].loggedIn
    BY DEF PlayingIn
  <2>2. players'[t] = players[t]
    BY <1>1, <1>3, <2>1 DEF HandedOn, OneRequest
  <2> QED
    BY <2>2, HandKept
<1>5. CASE PlayingIn(players, i) = {} /\ PlayingIn(players', i) = {}
  <2>1. PICK r \in Seq(Job) :
            /\ queue' = queue \o r
            /\ \A m \in 1..Len(r) : r[m].kind = "save" /\ \E s \in Slot : r[m].acc = players'[s].acc
    BY <1>1, TickSaves
  <2>2. DataKnown'
    BY DEF RunningInv, HandedOn, OnTick
  <2>3. \A s \in Slot : players'[s].acc.id # i
    <3>1. \A s \in Slot : ~players'[s].loggedIn => players'[s].acc = Blank
      BY <2>2 DEF DataKnown
    <3>2. Blank.id = 0
      BY DEF Blank
    <3> QED
      BY <1>1, <1>5, <3>1, <3>2 DEF PlayingIn
  <2>4. SavesOf(r, i) = {}
    BY <2>1, <2>3 DEF SavesOf
  <2> QED
    BY <1>2, <1>5, <2>1, <2>4, SubmitOwned
<1>6. ASSUME PlayingIn(players, i) = {}, NEW t \in PlayingIn(players', i)
      PROVE  Owned(i)' = Owned(i)
  <2>1. t \in Slot /\ players'[t].loggedIn /\ players'[t].acc.id = i
    BY DEF PlayingIn
  <2>2. players'[t] # players[t]
    BY <1>6, <2>1 DEF PlayingIn
  <2>3. PICK k \in 1..Len(logins) : /\ logins[k].slot = t /\ logins[k].state = "successful"
                                    /\ players'[t].acc = logins[k].acc
    BY <1>3, <2>1, <2>2
  <2> DEFINE acc == logins[k].acc
  <2>0. Complete(acc) /\ acc.name = logins[k].name /\ acc.id = i
    BY <1>1, <2>1, <2>3 DEF SessionsInv, NamesKept
  <2>5. users[i].name = logins[k].name /\ Short(acc.name)
    BY <2>0 DEF Complete, ShortId
  <2>4. /\ Complete(acc) /\ acc.name = logins[k].name /\ acc.id = i
        /\ acc.inv = inv[i] /\ acc.work = works[i] /\ acc.upg = upgr[i]
    BY <1>1, <2>0, <2>3, <2>5 DEF HandedOn, ResultsFresh, Fresh
  <2> HIDE DEF acc
  <2>6. ASSUME NEW m \in SavesOf(queue, i)
        PROVE  FALSE
    <3>1. m \in Saves(queue) /\ queue[m].acc.id = i
      BY DEF SavesOf, Saves
    <3>2. queue[m].acc = Blank \/ Complete(queue[m].acc)
      BY <1>1, <3>1 DEF HandedOn, DataKnown
    <3>3. Blank.id = 0
      BY DEF Blank
    <3>4. Complete(queue[m].acc)
      BY <1>1, <3>1, <3>2, <3>3
    <3>5. Clash(queue[m].acc.name, logins[k].name)
      BY <2>5, <3>1, <3>4 DEF Complete, Clash, ShortId
    <3>6. logins[k].state # "pending"
      BY <2>3
    <3> QED
      BY <1>1, <3>1, <3>5, <3>6 DEF HandedOn, SavedFirst
  <2>7. OwnedIn(players, queue, <<inv[i], works[i], upgr[i]>>, i) = Hand(acc)
    <3>1. SavesOf(queue, i) = {}
      BY <2>6
    <3>2. OwnedIn(players, queue, <<inv[i], works[i], upgr[i]>>, i) = <<inv[i], works[i], upgr[i]>>
      BY <1>6, <3>1 DEF OwnedIn, StoredBy
    <3> QED
      BY <2>4, <3>2 DEF Hand
  <2>8. OwnedIn(players', queue', <<inv'[i], works'[i], upgr'[i]>>, i) = Hand(players'[t].acc)
    <3>1. \A s \in PlayingIn(players', i) : s = t
      BY OneEach
    <3> QED
      BY <3>1, OwnedInHand
  <2>9. players'[t].acc = acc
    BY <2>3 DEF acc
  <2> QED
    BY <2>7, <2>8, <2>9, OwnedParts
<1> QED
  BY <1>4, <1>5, <1>6

LEMMA RunningGrows ==
    ASSUME RunningInv, RunningInv', [Next]_vars
    PROVE  Grows
BY TablesGrow DEF RunningInv, Inv

LEMMA OwnedNext ==
    ASSUME Patient, ~Faults, RunningInv, RunningInv', OnlyHere, [Next]_vars
    PROVE  ~shutdown /\ ~Gameplay /\ ~Reload =>
               \A i \in 1..Len(users) : Short(users[i].name) => Owned(i)' = Owned(i)
<1> SUFFICES ASSUME ~shutdown, ~Gameplay, ~Reload, NEW i \in 1..Len(users), Short(users[i].name)
             PROVE  Owned(i)' = Owned(i)
  OBVIOUS
<1>0. ShortId(i)
  BY RunningGrows DEF Grows, ShortId
<1>1. CASE Shutdown \/ UNCHANGED vars
  <2>1. UNCHANGED <<players, queue, tables>>
    BY <1>1 DEF Shutdown, vars, tables
  <2> QED
    BY <1>0, <2>1, OthersOwned DEF tables
<1>2. ~Recover
  BY DEF Recover, RunningInv, HandedOn
<1> QED
  BY <1>0, <1>1, <1>2, PlayersOwned, TickOwned, RunJobOwned DEF Next

\* Save and Login, for every number of slots, every set of names and items and
\* every bound: the saves of a player and the loading of his account pass through
\* one queue, so that whoever leaves and comes back, on any slot, has what he left
\* with, and whoever comes back after a change of the map what was saved before,
\* although jobs of that time may still be in the queue.  It takes that no
\* statement fails, that a client waits for the answer to its login and no other
\* asks for the account meanwhile, and that no longer login is cut to its name.
THEOREM ConservedCorrect ==
    ASSUME Patient, ~Faults
    PROVE  SafeSpec => Conserved
<1>1. Init => RunningInv /\ OnlyHere
  BY RunningInit
<1>2. (RunningInv /\ OnlyHere) /\ [Next]_vars => (RunningInv /\ OnlyHere)'
  BY RunningNext, OnlyHereNext DEF RunningInv
<1>3. /\ (RunningInv /\ OnlyHere) /\ (RunningInv /\ OnlyHere)' /\ [Next]_vars
      => [~shutdown /\ ~Gameplay /\ ~Reload =>
              \A i \in 1..Len(users) : Short(users[i].name) => Owned(i)' = Owned(i)]_vars
  BY OwnedNext
<1> QED
  BY <1>1, <1>2, <1>3, PTL DEF SafeSpec, Conserved
=============================================================================

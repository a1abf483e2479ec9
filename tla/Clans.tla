-------------------------------- MODULE Clans --------------------------------
(***************************************************************************)
(* CClanManager (game/server/mmo/components/clan_manager.cpp): the cache   *)
(* of clans in memory, the table clans behind the database queue, and the  *)
(* requests whose answers OnTick hands out: creating a clan, counting its  *)
(* members before an invite, loading all clans after the map was loaded.   *)
(*                                                                         *)
(* The queue is what JobQueue promises: jobs run one after the other in    *)
(* the order of submission, and may be dismissed, all being reads to it.   *)
(* Of the account manager, which module Accounts models, only what touches *)
(* clans is here: the login that brings a player his clan and language, and *)
(* the save of an account, whose first statement, with parameters bound    *)
(* one place off, writes the saver's id as clan_id, and his clan as        *)
(* language, into the row whose id is his language.  Accounts exist        *)
(* already, in the language 0, which is no row's id.  Jobs that touch      *)
(* nothing of this are left out: the save of a player whose language is no *)
(* row's id, and DeleteClanThread, which is empty.                         *)
(***************************************************************************)
EXTENDS Integers, Sequences, FiniteSets

CONSTANTS
    Slot,        \* slots of the server, 0..MAX_PLAYERS-1
    Account,     \* ids of the rows of users; 0 is none of them
    Shared,      \* accounts to whose name a longer login is cut: never in use
    Langs,       \* the languages of the chat command lang
    ClanName,    \* names of clans
    Amount,      \* what players pay in; a negative amount pays out
    Buyable,     \* the upgrades that are bought
    MaxClans,    \* bound on the rows of clans
    MaxJobs,     \* bound on the jobs waiting in the queue
    MaxRequests, \* bound on each list of unanswered requests
    MaxBank,     \* bound on the money in a bank
    MaxFaults    \* bound on the jobs that fail

Upgrades == {"max_num", "add_money", "add_exp", "spawn_house", "chairs"}

ASSUME ClansAssumption ==
    /\ {MaxClans, MaxJobs} \subseteq Nat \ {0}
    /\ {MaxRequests, MaxBank, MaxFaults} \subseteq Nat
    /\ IsFiniteSet(Slot)
    /\ IsFiniteSet(Account) /\ 0 \notin Account
    /\ Shared \subseteq Account
    /\ Amount \subseteq Int
    /\ Buyable \subseteq Upgrades

VARIABLES
    players,  \* m_apPlayers with the parts of the account data that matter here
    cache,    \* m_vClansData
    load,     \* m_pClansLoadResult
    logins,   \* m_vpLoginResults of the account manager
    creates,  \* m_vpClanCreateResults
    counts,   \* m_vpClanGetMembersResults
    queue,    \* the jobs in the database queue, oldest first
    clans,    \* table clans: row i has id i
    userClan, \* column clan_id of users
    userLang, \* column language of users
    strays,   \* history: rows of users that the save of an account has written
    shutdown, \* the server has stopped and closed the queue
    faults    \* how many jobs have failed, or were dismissed after a failure

requests == <<load, logins, creates, counts>>
tables == <<clans, userClan, userLang, strays>>
vars == <<players, cache, requests, queue, tables, shutdown, faults>>

AccountId == Account \cup {0}
ClanId == 0..MaxClans

\* What clan_id and language may hold, since they are mixed up.
Number == ClanId \cup AccountId \cup Langs \cup {0}

\* SClanData: ups are its five numbers from m_MaxNum to m_ChairHouse.
Clan == [id : ClanId \ {0}, name : ClanName, leader : AccountId, bank : Int, ups : [Upgrades -> Nat]]

\* Slip: a number keeps what was in memory.
NewClanUnset(id, name, leader) ==
    [id |-> id, name |-> name, leader |-> leader, bank |-> 0,
     ups |-> [u \in Upgrades |-> IF u = "max_num" THEN 2 ELSE IF u = "chairs" THEN -1 ELSE 0]]

NewClan(id, name, leader) ==
    [id |-> id, name |-> name, leader |-> leader, bank |-> 0,
     ups |-> [u \in Upgrades |-> IF u = "max_num" THEN 2 ELSE 0]]

\* invite: m_ClanInviteID until m_ClanInviteEndTick has passed, then 0.
Player == [here : BOOLEAN, loggedIn : BOOLEAN, id : AccountId,
           clan : Number, lang : Number, invite : ClanId]
Nobody == [here |-> FALSE, loggedIn |-> FALSE, id |-> 0, clan |-> 0, lang |-> 0, invite |-> 0]

State == {"pending", "failed", "successful"}
NoLoad == [state |-> "none", data |-> << >>]
-----------------------------------------------------------------------------
LoadJob == [kind |-> "load"]
SaveJob(data) == [kind |-> "save", data |-> data]
AccountJob(p) == [kind |-> "account", id |-> p.id, clan |-> p.clan, row |-> p.lang]

Job ==
    [kind : {"load"}]
        \cup [kind : {"save"}, data : Seq(Clan)]
        \cup [kind : {"login"}, id : Account]
        \cup [kind : {"create"}, name : ClanName, leader : AccountId]
        \cup [kind : {"count"}, clan : ClanId]
        \cup [kind : {"account"}, id : AccountId, clan : Number, row : Account]

Room == Len(queue) < MaxJobs

\* CAccountManager::Save for the players in some slots, in any order of these.
Orders(S) ==
    {f \in [1..Cardinality(S) -> S] : \A i, j \in 1..Cardinality(S) : f[i] = f[j] => i = j}
Save(p, S) ==
    LET felt == {s \in S : p[s].lang \in Account}
    IN  /\ Len(queue) + Cardinality(felt) <= MaxJobs
        /\ \E f \in Orders(felt) :
              queue' = queue \o [k \in 1..Cardinality(felt) |-> AccountJob(p[f[k]])]

\* The start of the server with the clans of an earlier run, none or one:
\* OnConsoleInit asks for them.
Init ==
    /\ players = [s \in Slot |-> Nobody]
    /\ cache = << >>
    /\ load = [NoLoad EXCEPT !.state = "pending"]
    /\ logins = << >>
    /\ creates = << >>
    /\ counts = << >>
    /\ queue = <<LoadJob>>
    /\ \/ clans = << >> /\ userClan = [i \in AccountId |-> 0]
       \/ \E n \in ClanName, i \in Account :
             /\ clans = <<NewClan(1, n, i)>>
             /\ userClan = [j \in AccountId |-> IF j = i THEN 1 ELSE 0]
    /\ userLang = [i \in AccountId |-> 0]
    /\ strays = {}
    /\ shutdown = FALSE
    /\ faults = 0
-----------------------------------------------------------------------------
\* CGameContext::OnClientConnected.
Connect(s) ==
    /\ ~shutdown
    /\ ~players[s].here
    /\ players' = [players EXCEPT ![s] = [Nobody EXCEPT !.here = TRUE]]
    /\ UNCHANGED <<cache, requests, queue, tables, shutdown, faults>>

\* CGameContext::OnClientDrop: the account is saved, the requests stay behind.
Drop(s) ==
    /\ ~shutdown
    /\ players[s].here
    /\ Save(players, {s})
    /\ players' = [players EXCEPT ![s] = Nobody]
    /\ UNCHANGED <<cache, requests, tables, shutdown, faults>>

\* AddEXP and AddWorkEXP save the account at a new level.
LevelUp(s) ==
    /\ ~shutdown
    /\ players[s].here
    /\ players[s].loggedIn
    /\ Save(players, {s})
    /\ UNCHANGED <<players, cache, requests, tables, shutdown, faults>>

\* The chat command lang.
ChatLang(s, l) ==
    /\ ~shutdown
    /\ players[s].here
    /\ players[s].loggedIn
    /\ players' = [players EXCEPT ![s].lang = l]
    /\ UNCHANGED <<cache, requests, queue, tables, shutdown, faults>>

\* CAccountManager::Login: what is in use is compared with the login as typed.
ChatLogin(s, id) ==
    /\ ~shutdown
    /\ players[s].here
    /\ ~players[s].loggedIn
    /\ id \in Shared \/ \A t \in Slot : players[t].loggedIn => players[t].id # id
    /\ Room
    /\ Len(logins) < MaxRequests
    /\ logins' = Append(logins, [slot |-> s, state |-> "pending", id |-> 0,
                                 clan |-> 0, lang |-> 0])
    /\ queue' = Append(queue, [kind |-> "login", id |-> id])
    /\ UNCHANGED <<players, cache, load, creates, counts, tables, shutdown, faults>>

AskCreate(s, n) ==
    /\ Room
    /\ Len(creates) < MaxRequests
    /\ creates' = Append(creates, [slot |-> s, state |-> "pending", name |-> n, clan |-> 0])
    /\ queue' = Append(queue, [kind |-> "create", name |-> n, leader |-> players[s].id])
    /\ UNCHANGED <<players, cache, load, logins, counts, tables, shutdown, faults>>

\* Slip: the login is not asked for.
CreateClanAnyone(s, n) ==
    /\ ~shutdown
    /\ players[s].here
    /\ players[s].clan = 0
    /\ AskCreate(s, n)

CreateClan(s, n) ==
    /\ ~shutdown
    /\ players[s].here
    /\ players[s].loggedIn
    /\ players[s].clan = 0
    /\ AskCreate(s, n)

\* Neither the clan nor the table learns of it.
LeaveClan(s) ==
    /\ ~shutdown
    /\ players[s].here
    /\ players[s].loggedIn
    /\ players' = [players EXCEPT ![s].clan = 0]
    /\ UNCHANGED <<cache, requests, queue, tables, shutdown, faults>>

\* GetClan: the position of the first clan in the cache with an id, or 0.
GetClan(seq, id) ==
    LET at == {k \in 1..Len(seq) : seq[k].id = id}
    IN  IF at = {} THEN 0 ELSE CHOOSE k \in at : \A j \in at : k <= j

\* SendClanInvite: the leader asks how many members there are.
SendClanInvite(s, t) ==
    /\ ~shutdown
    /\ \A p \in {s, t} : players[p].here /\ players[p].loggedIn
    /\ GetClan(cache, players[s].clan) # 0
    /\ cache[GetClan(cache, players[s].clan)].leader = players[s].id
    /\ players[t].clan = 0
    /\ Room
    /\ Len(counts) < MaxRequests
    /\ counts' = Append(counts, [from |-> s, to |-> t, state |-> "pending",
                                 clan |-> players[s].clan, members |-> 0])
    /\ queue' = Append(queue, [kind |-> "count", clan |-> players[s].clan])
    /\ UNCHANGED <<players, cache, load, logins, creates, tables, shutdown, faults>>

\* OnMessage, vote yes: nothing is checked but the time, and the invite stays
\* open.  The account is saved.  A vote no makes the invite end a tick later, as
\* time does.
AcceptInvite(s) ==
    /\ ~shutdown
    /\ players[s].here
    /\ players[s].invite # 0
    /\ players' = [players EXCEPT ![s].clan = players[s].invite]
    /\ Save(players', {s})
    /\ UNCHANGED <<cache, requests, tables, shutdown, faults>>

InviteEnds(s) ==
    /\ ~shutdown
    /\ players[s].invite # 0
    /\ players' = [players EXCEPT ![s].invite = 0]
    /\ UNCHANGED <<cache, requests, queue, tables, shutdown, faults>>

\* GetMoneyForUpgrade.
Price(u, n) ==
    [max_num |-> 1250 * (n + 1), add_money |-> 1000 * (n + 1), add_exp |-> 1000 * (n + 1),
     spawn_house |-> 15000, chairs |-> 1500 * (n + 1)][u]

\* Vote "cln_upgr_": the leader spends money of the bank.
BuyUpgrade(s, u) ==
    /\ ~shutdown
    /\ players[s].here
    /\ players[s].clan # 0
    /\ LET k == GetClan(cache, players[s].clan)
           cost == Price(u, cache[k].ups[u])
       IN  /\ k # 0
           /\ cache[k].leader = players[s].id
           /\ cache[k].bank >= cost
           /\ cache' = [cache EXCEPT ![k].bank = @ - cost, ![k].ups[u] = @ + 1]
    /\ UNCHANGED <<players, requests, queue, tables, shutdown, faults>>

\* Vote "cln_add_money": count, or what the player has if that is less.
AddMoneyToBank(s, paid) ==
    /\ ~shutdown
    /\ players[s].here
    /\ players[s].clan # 0
    /\ LET k == GetClan(cache, players[s].clan)
       IN  /\ k # 0
           /\ cache[k].bank + paid \in -MaxBank..MaxBank
           /\ cache' = [cache EXCEPT ![k].bank = @ + paid]
    /\ UNCHANGED <<players, requests, queue, tables, shutdown, faults>>

\* The console command save_clans.
ConSaveClans ==
    /\ ~shutdown
    /\ Room
    /\ queue' = Append(queue, SaveJob(cache))
    /\ UNCHANGED <<players, cache, requests, tables, shutdown, faults>>
-----------------------------------------------------------------------------
\* The loops of OnTick: a result that is not ready is passed over, and so is
\* the one behind a result that was handled and erased, so that every second
\* of those that are ready in a row is handled.
Handled(ready) ==
    {k \in 1..Len(ready) : \E j \in 1..k :
        /\ \A i \in j..k : ready[i]
        /\ j = 1 \/ ~ready[j - 1]
        /\ (k - j) % 2 = 0}

\* The elements of a sequence at some positions, in their order.
Pick(seq, at) ==
    LET up == CHOOSE f \in [1..Cardinality(at) -> at] :
                 \A i, j \in 1..Cardinality(at) : i < j => f[i] < f[j]
    IN  [i \in 1..Cardinality(at) |-> seq[up[i]]]
Rest(seq, at) == Pick(seq, (1..Len(seq)) \ at)

Ready(results) == [k \in 1..Len(results) |->
    results[k].state # "pending" /\ players[results[k].slot].here]

\* CAccountManager::OnTick, which comes first.
LoggedIn(s) ==
    LET mine == {k \in Handled(Ready(logins)) :
                    logins[k].slot = s /\ logins[k].state = "successful"}
        last == logins[CHOOSE k \in mine : \A j \in mine : j <= k]
    IN  IF mine = {} THEN players[s]
        ELSE [players[s] EXCEPT !.loggedIn = TRUE, !.id = last.id,
                                 !.clan = last.clan, !.lang = last.lang]

\* Whoever sits in the slot when a clan has been created leads it.
Founded == {k \in Handled(Ready(creates)) : creates[k].state = "successful"}
Leads(p, s) ==
    LET mine == {k \in Founded : creates[k].slot = s}
    IN  IF mine = {} THEN p
        ELSE [p EXCEPT !.clan = creates[CHOOSE k \in mine : \A j \in mine : j <= k].clan]

CountReady == [k \in 1..Len(counts) |->
    /\ counts[k].state # "pending"
    /\ players[counts[k].from].here
    /\ players[counts[k].to].here]

\* InternalSendClanInvite: room is what the count leaves of the limit.
Sent(known) ==
    {k \in Handled(CountReady) :
        LET at == GetClan(known, counts[k].clan)
        IN  at # 0 /\ counts[k].members + 1 <= known[at].ups["max_num"]}
Invited(p, s, known) ==
    LET mine == {k \in Sent(known) : counts[k].to = s}
    IN  IF mine = {} THEN p
        ELSE [p EXCEPT !.invite = counts[CHOOSE k \in mine : \A j \in mine : j <= k].clan]

\* OnTick of the account manager, which every minute saves the accounts of all
\* after the logins, and of the clan manager: the new clans come into the cache,
\* then the loaded clans replace the cache.
OnTick(autosave) ==
    LET now == [s \in Slot |-> LoggedIn(s)]
        new == Pick([k \in 1..Len(creates) |->
                       NewClan(creates[k].clan, creates[k].name, now[creates[k].slot].id)], Founded)
        known == cache \o new
    IN  /\ ~shutdown
        /\ players' = [s \in Slot |-> Invited(Leads(now[s], s), s, known)]
        /\ logins' = Rest(logins, Handled(Ready(logins)))
        /\ creates' = Rest(creates, Handled(Ready(creates)))
        /\ counts' = Rest(counts, Handled(CountReady))
        /\ IF load.state = "done"
           THEN cache' = load.data /\ load' = NoLoad
           ELSE cache' = known /\ load' = load
        /\ Save(now, IF autosave THEN Slot ELSE {})
        /\ UNCHANGED <<tables, shutdown, faults>>
-----------------------------------------------------------------------------
\* Slip: the results of the old clan manager are kept.
ReloadKeepsResults ==
    /\ ~shutdown
    /\ Len(queue) + 2 <= MaxJobs
    /\ queue' = queue \o <<SaveJob(cache), LoadJob>>
    /\ players' = [s \in Slot |-> Nobody]
    /\ cache' = << >>
    /\ load' = [NoLoad EXCEPT !.state = "pending"]
    /\ logins' = << >>
    /\ counts' = << >>
    /\ UNCHANGED <<creates, tables, shutdown, faults>>

\* Slip: the clans are asked for before they are saved.
ReloadLoadsFirst ==
    /\ ~shutdown
    /\ Len(queue) + 2 <= MaxJobs
    /\ queue' = queue \o <<LoadJob, SaveJob(cache)>>
    /\ players' = [s \in Slot |-> Nobody]
    /\ cache' = << >>
    /\ load' = [NoLoad EXCEPT !.state = "pending"]
    /\ logins' = << >>
    /\ creates' = << >>
    /\ counts' = << >>
    /\ UNCHANGED <<tables, shutdown, faults>>

\* A change of the map: OnShutdown saves the clans, Clear throws away players,
\* cache and results, OnInit asks for the clans anew.
Reload ==
    /\ ~shutdown
    /\ Len(queue) + 2 <= MaxJobs
    /\ queue' = queue \o <<SaveJob(cache), LoadJob>>
    /\ players' = [s \in Slot |-> Nobody]
    /\ cache' = << >>
    /\ load' = [NoLoad EXCEPT !.state = "pending"]
    /\ logins' = << >>
    /\ creates' = << >>
    /\ counts' = << >>
    /\ UNCHANGED <<tables, shutdown, faults>>

\* The end of CServer::Run, all clients dropped: the clans are saved, the queue
\* closes.
Shutdown ==
    /\ ~shutdown
    /\ \A s \in Slot : ~players[s].here
    /\ Room
    /\ queue' = Append(queue, SaveJob(cache))
    /\ cache' = << >>
    /\ load' = NoLoad
    /\ logins' = << >>
    /\ creates' = << >>
    /\ counts' = << >>
    /\ shutdown' = TRUE
    /\ UNCHANGED <<players, tables, faults>>
-----------------------------------------------------------------------------
\* Jobs and their results come in the same order; the results of jobs older
\* than a map change are gone.
Kinds(kind) == Cardinality({k \in 1..Len(queue) : queue[k].kind = kind})
Pending(results) == {k \in 1..Len(results) : results[k].state = "pending"}
Answered(result, change) ==
    [f \in DOMAIN result |-> IF f \in DOMAIN change THEN change[f] ELSE result[f]]
Answer(results, kind, change) ==
    LET open == Pending(results)
        first == CHOOSE k \in open : \A j \in open : k <= j
    IN  IF Kinds(kind) = Cardinality(open)
        THEN [results EXCEPT ![first] = Answered(@, change)]
        ELSE results

\* whole: no statement has failed on the way.
Finish(whole) ==
    /\ queue' = Tail(queue)
    /\ whole \/ faults < MaxFaults
    /\ faults' = IF whole THEN faults ELSE faults + 1
    /\ UNCHANGED <<players, cache, shutdown>>

Running(kind) == queue # << >> /\ Head(queue).kind = kind /\ ~shutdown

Failed == [state |-> "failed"]
LoadDone(data) ==
    IF load.state = "pending" /\ Kinds("load") = 1
    THEN [state |-> "done", data |-> data] ELSE load

\* A job that is dismissed, or whose first statement fails, has an empty result.
\* The worker dismisses jobs during the shutdown and after any other job failed.
Fail ==
    LET kind == Head(queue).kind
    IN  /\ queue # << >>
        /\ Finish(shutdown)
        /\ logins' = IF kind = "login" THEN Answer(logins, kind, Failed) ELSE logins
        /\ creates' = IF kind = "create" THEN Answer(creates, kind, Failed) ELSE creates
        /\ counts' = IF kind = "count" THEN Answer(counts, kind, Failed) ELSE counts
        /\ load' = IF kind = "load" THEN LoadDone(<< >>) ELSE load
        /\ UNCHANGED tables

\* Slip: only clans whose leader's account names them count.
TakenByMembers(n) == {i \in 1..Len(clans) : clans[i].name = n /\ userClan[clans[i].leader] = i}

Taken(n) == {i \in 1..Len(clans) : clans[i].name = n}

\* CreateClanThread, with stop statements carried out: count, insert, select
\* the id, update the leader's clan_id.
RunCreate(stop) ==
    /\ Running("create")
    /\ LET job == Head(queue)
           id == Len(clans) + 1
           change == IF stop = 4 THEN [state |-> "successful", clan |-> id] ELSE Failed
       IN  IF Taken(job.name) # {}
           THEN stop = 1 /\ Finish(TRUE) /\ creates' = Answer(creates, "create", Failed) /\ UNCHANGED tables
           ELSE /\ stop \in 2..4
                /\ Len(clans) < MaxClans
                /\ clans' = Append(clans, NewClan(id, job.name, job.leader))
                /\ userClan' = IF stop = 4 /\ job.leader # 0
                               THEN [userClan EXCEPT ![job.leader] = id] ELSE userClan
                /\ creates' = Answer(creates, "create", change)
                /\ Finish(stop = 4)
                /\ UNCHANGED <<userLang, strays>>
    /\ UNCHANGED <<load, logins, counts>>

\* LoadClansThread: a fault in the loop ends the list.
RunLoad(stop) ==
    /\ Running("load")
    /\ stop <= Len(clans)
    /\ load' = LoadDone(SubSeq(clans, 1, stop))
    /\ Finish(stop = Len(clans))
    /\ UNCHANGED <<logins, creates, counts, tables>>

Matching(data, i) == {k \in 1..Len(data) : data[k].id = i}

\* SaveClansThread: one statement for each clan, which leaves the name alone.
RunSave(stop) ==
    /\ Running("save")
    /\ LET data == SubSeq(Head(queue).data, 1, stop)
       IN  /\ stop <= Len(Head(queue).data)
           /\ clans' = [i \in 1..Len(clans) |->
                 IF Matching(data, i) = {} THEN clans[i]
                 ELSE [data[CHOOSE k \in Matching(data, i) : \A j \in Matching(data, i) : j <= k]
                          EXCEPT !.name = clans[i].name]]
           /\ Finish(stop = Len(Head(queue).data))
    /\ UNCHANGED <<requests, userClan, userLang, strays>>

\* GetClanMembersThread: a fault in the loop ends the count.
RunCount(members) ==
    /\ Running("count")
    /\ LET stored == Cardinality({i \in Account : userClan[i] = Head(queue).clan})
       IN  /\ members \in 0..stored
           /\ Finish(members = stored)
    /\ counts' = Answer(counts, "count", [state |-> "successful", members |-> members])
    /\ UNCHANGED <<load, logins, creates, tables>>

\* LoginThread, as far as clans are concerned.
RunLogin ==
    /\ Running("login")
    /\ LET id == Head(queue).id
       IN  logins' = Answer(logins, "login",
               [state |-> "successful", id |-> id, clan |-> userClan[id], lang |-> userLang[id]])
    /\ Finish(TRUE)
    /\ UNCHANGED <<load, creates, counts, tables>>

\* Slip: the statement has lost its condition.
RunAccountSaveOfAll(whole) ==
    /\ Running("account")
    /\ userClan' = [i \in AccountId |-> IF i = 0 THEN 0 ELSE Head(queue).id]
    /\ userLang' = [userLang EXCEPT ![Head(queue).row] = Head(queue).clan]
    /\ strays' = strays \cup {Head(queue).row}
    /\ Finish(whole)
    /\ UNCHANGED <<requests, clans>>

\* SaveThread, as far as clans are concerned: its first statement, which is
\* carried out before another one may fail.
RunAccountSave(whole) ==
    /\ Running("account")
    /\ userClan' = [userClan EXCEPT ![Head(queue).row] = Head(queue).id]
    /\ userLang' = [userLang EXCEPT ![Head(queue).row] = Head(queue).clan]
    /\ strays' = strays \cup {Head(queue).row}
    /\ Finish(whole)
    /\ UNCHANGED <<requests, clans>>

RunJob ==
    \/ Fail
    \/ \E stop \in 1..4 : RunCreate(stop)
    \/ \E stop \in ClanId : RunLoad(stop) \/ RunSave(stop)
    \/ \E members \in 0..Cardinality(Account) : RunCount(members)
    \/ RunLogin
    \/ \E whole \in BOOLEAN : RunAccountSave(whole)
-----------------------------------------------------------------------------
Business ==
    \/ \E s \in Slot, u \in Buyable : BuyUpgrade(s, u)
    \/ \E s \in Slot, paid \in Amount : AddMoneyToBank(s, paid)

Next ==
    \/ \E s \in Slot : Connect(s) \/ Drop(s) \/ LeaveClan(s)
    \/ \E s \in Slot : AcceptInvite(s) \/ InviteEnds(s)
    \/ \E s \in Slot : LevelUp(s)
    \/ \E s \in Slot, l \in Langs : ChatLang(s, l)
    \/ \E s \in Slot, id \in Account : ChatLogin(s, id)
    \/ \E s \in Slot, n \in ClanName : CreateClan(s, n)
    \/ \E s, t \in Slot : SendClanInvite(s, t)
    \/ Business
    \/ ConSaveClans
    \/ \E autosave \in BOOLEAN : OnTick(autosave)
    \/ Reload
    \/ Shutdown
    \/ RunJob

Spec == Init /\ [][Next]_vars
-----------------------------------------------------------------------------
\* The variables stay what the code's types and the bounds make them.
TypeOK ==
    /\ players \in [Slot -> Player]
    /\ cache \in Seq(Clan)
    /\ load \in [state : {"none", "pending", "done"}, data : Seq(Clan)]
    /\ logins \in Seq([slot : Slot, state : State, id : AccountId, clan : Number, lang : Number])
    /\ creates \in Seq([slot : Slot, state : State, name : ClanName, clan : ClanId])
    /\ counts \in Seq([from : Slot, to : Slot, state : State, clan : ClanId, members : Nat])
    /\ queue \in Seq(Job) /\ Len(queue) <= MaxJobs
    /\ clans \in Seq(Clan) /\ Len(clans) <= MaxClans
    /\ userClan \in [AccountId -> Number] /\ userLang \in [AccountId -> Number]
    /\ strays \subseteq Account
    /\ shutdown \in BOOLEAN /\ faults \in 0..MaxFaults

\* "This clan name is already taken.": two clans never share a name, although
\* the check and the insertion are statements of their own and any may fail.
UniqueClanNames ==
    \A i, j \in 1..Len(clans) : clans[i].name = clans[j].name => i = j

\* The cache has no clan twice and none that the table does not have under the
\* same name, although clans reach it by two ways, the answer to their creation
\* and the list read after a map change, both of which may be late.
CacheAgrees ==
    /\ \A j, k \in 1..Len(cache) : cache[j].id = cache[k].id => j = k
    /\ \A k \in 1..Len(cache) :
          cache[k].id \in 1..Len(clans) /\ clans[cache[k].id].name = cache[k].name

\* "Something went wrong. Pointer to clan is null.": as long as the database
\* works, the clan of a player, and one he may join by a vote, is in the cache.
\* The list that replaces the cache never takes a clan away that was created
\* while the list was on its way.  Two exceptions: a clan whose creator left
\* before the answer waits until somebody takes his slot, and of a player whose
\* row in users the save of an account has written, nothing is claimed.
Known(i) ==
    \/ GetClan(cache, i) # 0
    \/ \E k \in 1..Len(creates) : creates[k].state = "successful" /\ creates[k].clan = i
ClanKnown ==
    faults = 0 => \A s \in Slot :
        /\ players[s].clan # 0 /\ players[s].id \notin strays => Known(players[s].clan)
        /\ players[s].invite # 0 => Known(players[s].invite)

\* What a clan owns: what the cache says, or else the list on its way to the
\* cache, or else the last save in the queue that names it, or else the table.
Owned(i) ==
    LET saves == {k \in 1..Len(queue) : queue[k].kind = "save" /\ Matching(queue[k].data, i) # {}}
        latest == queue[CHOOSE k \in saves : \A j \in saves : j <= k].data
        clan == IF GetClan(cache, i) # 0 THEN cache[GetClan(cache, i)]
                ELSE IF GetClan(load.data, i) # 0 THEN load.data[GetClan(load.data, i)]
                ELSE IF saves # {} THEN latest[GetClan(latest, i)]
                ELSE clans[i]
    IN  <<clan.bank, clan.ups>>

\* Nothing but paying in and buying changes what a clan owns, in particular not
\* the saves and loads around a change of the map.
BankKept ==
    [][faults' = 0 /\ ~shutdown' /\ ~Business => \A i \in 1..Len(clans) : Owned(i)' = Owned(i)]_vars
=============================================================================

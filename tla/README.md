# Verification of the MMOTee server

This directory holds TLA+ specifications of the parts of the server in `src/`
that are hard to test: the database queue with its three threads; accounts and
clans, which live partly in memory, partly in queued jobs and partly in database
tables; what players own; the life of a client in a slot; the reliable
connection below it; and the registration at the master server. TLC checks the
specifications on small instances; TLAPS proves the central safety properties of
the queue, the accounts, the clans, the inventories, the slots, the connection
and the registration for every instance. Paths below are relative to
`src/src/`.

## 1. The system

The server is a Teeworlds/DDNet server with a role-playing layer on top: players
register accounts, log in, earn money, experience and items, join clans. One
main thread runs the network, the game world (50 ticks a second) and all
components of the game server. Database work goes through a queue to two more
threads, and requests to the master server to the workers of a job pool. Nothing
else that matters to the game state runs concurrently; the
concurrency of the game logic comes from answers that arrive ticks later, at a
time when the player who asked may be gone, logged in elsewhere, or on another
map.

| Component | State | Operations | Interacts with |
|---|---|---|---|
| Database connection pool (`engine/server/databases/connection_pool.*`, `base/tl/threading.h`) | ring of 512 jobs, insertion index, two semaphores, shutdown flag, each thread's job number, fail mode, the open servers | register a database, `Execute`, `ExecuteWrite`, `Print`, `OnShutdown`; the loops of backup thread and worker | called by the main thread; runs the `*Thread` functions of the components; stores their results |
| Account manager (`game/server/mmo/components/account_manager.*`, `account_data.h`, `mmo/sql/tables.cpp`) | lists of unanswered register, login and admin requests | `/register`, `/login`, `Save`, `OnTick` (answers, autosave), `OnPlayerLeft`, admin SQL | queue; tables `users`, `u_inv`, `u_works`, `u_upgr`; the players' account data |
| Clan manager (`components/clan_manager.*`) | cached clans, unanswered requests, pending invites in the players | create, load, save, invite, accept, leave, bank | queue; table `clans`, column `users.clan_id`; account manager (`Save`) |
| Game server and players (`gamecontext.cpp`, `player.cpp`) | 64 slots of players | connect, drop, messages, tick, map change (`Clear`) | every component |
| MMO core, boxes (`mmo/mmo_core.*`, `mmo/common/box.*`) | tables of items, shop, crafts; inventories of the players | give, use, drop, equip, buy, craft, upgrades | players, vote menu, entities |
| Vote menu, admin commands, localization | the menu each player sees; texts | translate votes and commands into the operations above | MMO core, clan manager, account manager |
| Bots, pets, MMO entities | positions, health, drops | tick | players, MMO core |
| Race mode, world, characters (`teams.cpp`, `gameworld.cpp`, `entities/`) | physics, teams | tick | players |
| Server main loop (`engine/server/server.cpp`) | connection state of each client, ticks, map | network messages, map change, shutdown, console commands | game server, pool, network |
| Network (`engine/shared/network*.cpp`) | sequence numbers, acknowledgements, resend buffer of each connection | send, receive, resend, time out | server |
| Registration (`engine/server/register.*`) and job pool (`engine/shared/jobs.*`) | protocols, challenge tokens, serial of the server info; jobs and workers | update, new info, new settings, token, answers; add, run, destroy | master server, main loop |
| Ring buffer, snapshots (`engine/shared/`) | cyclic buffer, stored snapshots | allocate, pop; add, purge | network, server |
| Encodings, bans, rights, console, recording, storage, third-party code | - | - | - |

What is hard, and what makes each component correct:

- **Pool.** Three threads share a ring without a lock. The backup thread reads
  jobs that the worker later takes away; an index is reused after 512 jobs;
  shutdown is a surplus signal and an empty slot. Correct: every job is handled
  once, in order; a write goes to the backup first; a shutdown drains the queue
  and ends.
- **Accounts.** Jobs consist of several statements without a transaction and
  fail in the middle; reads are dismissed after a failure and during shutdown;
  answers come late; saves and logins of one account cross. Correct: names are
  unique, nobody plays a half-made account, one player at a time plays an
  account, nothing is lost or duplicated, every request is answered, what is
  saved is what was played.
- **Clans.** The cache is replaced by a load that was started earlier; an invite
  is checked long before it is accepted; creation is four statements. Correct:
  names are unique, cache and table agree, no clan disappears, saves and loads
  leave what a clan owns alone.
- **MMO core.** Commands come in any order and from menus that are out of date.
  Correct: counts stay between zero and their maximum, at most one thing of a type
  is worn, the pet matches it, points are conserved by upgrades and their reset,
  nothing is made out of nothing.
- **Client states.** The network, the server and the game each keep a part of a
  slot; a takeover after a timeout, a rejoin and a map change go across all of
  them, between any two messages. Correct: the layers agree, limits and admission
  hold, rights stay with their connection, kept data with its player, no slot is
  lost.
- **Network.** Correct: vital messages arrive once and in order, or the
  connection ends.
- **Registration.** Protocols share a serial, answers come in any order, requests
  and challenges get lost, the master forgets. Correct: the server never believes
  the master has what it has not, and becomes listed again.

`PROJECT.json` lists the hazards line by line, with the properties that cover
them.

## 2. Modules

| Module | Contents |
|---|---|
| `JobQueue` | abstract specification: what the queue promises the game server |
| `DbPool` | the pool, thread by thread; refines `JobQueue` |
| `NumberFacts` | lemmas on numbers: division and remainders, least and greatest elements, the order of a finite set, functions as sequences |
| `DbPoolProofs` | theorems on `DbPool` |
| `MCDbPool` | instance for TLC (extends `DbPoolProofs`, so that its assumption is evaluated) |
| `Accounts` | account manager, players' account data, tables, on top of what `JobQueue` promises |
| `AccountsProofs` | theorems on `Accounts` |
| `MCAccounts` | instance for TLC |
| `Clans`, `ClansProofs`, `MCClans` | clan manager: cache, requests, table, on the queue as `JobQueue` describes it |
| `Inventory`, `InventoryProofs`, `MCInventory` | what players own and the commands that change it |
| `ReliableStream` | abstract specification: what one direction of a connection promises |
| `NetConnection`, `NetConnectionProofs`, `MCNetConnection` | both ends of a connection over an unreliable network; refines `ReliableStream` |
| `Slots`, `SlotsProofs`, `MCSlots` | slots and clients in the network, the server and the game |
| `Register`, `RegisterProofs`, `MCRegister` | registration of the protocols, job pool, master server |

Operators marked *Slip* in a comment are not part of any specification: each is
a plausible mistake in the definition below it, and the corresponding property
is shown to fail when the definition is exchanged for it.

### DbPool

| Specification | Code |
|---|---|
| `slots`, `insertIdx`, `numBackup`, `numWorker`, `shutdown` | `m_aQueries`, `m_InsertIdx`, `m_NumBackup`, `m_NumWorker`, `m_Shutdown` |
| `bPc`, `bNum`, `bCur`, `bHasBackup` | backup thread: place in the loop, `JobNum`, `pThreadData`, `m_pWriteBackup` |
| `wPc`, `wNum`, `wCur`, `wTry`, `wOk`, `failMode`, `reads`, `hasWrite`, `hasBackup` | worker: place, `JobNum`, `pThreadData`, `i`, `Success`, `FailMode`, its servers |
| `enq`, `done`, `saved` | history: insertions, completions with results, writes shown to the backup first |
| `Startup`, `ConAddSqlServer`, `Execute`, `ExecuteWrite`, `DumpSqlServers`, `OnShutdown`, `ShutdownReturns` | main thread |
| `BackupTake`, `BackupExit`, `BackupPass` | `CBackup::ProcessQueries` |
| `WorkerCheck`, `WorkerTake`, `WorkerExit`, `WorkerRead`, `WorkerWrite`, `WorkerBackup`, `WorkerOther` | `CWorker::ProcessQueries` |

An action is a stretch of a thread's code in which other threads can see at most
one of its effects. In `READ_ACCESS` each attempt on a server is a step of its
own, because the shutdown flag is read before each. A semaphore's wait and the
access to the slot behind it are one step: the slot is not touched by others
between them as long as `RingHoldsBacklog` holds, which is a property, not an
assumption. `CSemaphore` keeps its approximate counter in step with the real
one up to the instant between two statements; the worker reads it only to leave
fail mode, and both outcomes occur in the model at neighbouring instants.

**Backlog.** The code inserts without looking for room. `Backlog` bounds the jobs
that wait in slots; the proofs and the run `dbpool` assume `Backlog < QSize`
(`RoomAssumption`), the run `dbpool_overflow` drops this and shows what happens.

### Accounts

| Specification | Code |
|---|---|
| `players[s]` | `m_apPlayers[s]`: `here` (not null), `loggedIn` (`m_LoggedIn`), `acc` (`m_AccData`, `m_AccInv`, `m_AccWorks`, `m_AccUp`) |
| `queue`, `failMode`, `shutdown` | the queue as `JobQueue` describes it, in place of `pending`, `degraded`, `closing` |
| `logins` | `m_vpLoginResults` |
| `users`, `inv`, `works`, `upgr` | the four tables |
| `Connect`, `Drop`, `Reload`, `Shutdown` | `OnClientConnected`, `OnClientDrop`, map change and end of `CServer::Run` |
| `ChatRegister`, `ChatLogin`, `OnTick` | the handlers of the account manager, whole |
| `GiveItem`, `RemItem`, `AddMoney`, `AddWorkEXP`, `AddEXP`, `ChatLang`, `AcceptInvite` | what gameplay does to the account data, with the saves it causes |
| `RunRegister`, `RunLogin`, `RunSave` | the functions run by the worker; `stop` counts the statements carried out before one fails |
| `Dismiss`, `Recover` | fail mode and shutdown, seen from the jobs |

Data is abstract: an inventory is a set of items, money stands for the plain
numbers of `users`, one number each for works and upgrades. A password is right
or wrong. The order of the parameters in `SaveThread`'s first statement is
modelled as it is in the code, so that `clan_id`, `language` and the choice of
the row come from the wrong fields. Spam protection only makes the guards
stronger and is left out. A job is one step: nobody else writes the tables, the
main thread never reads them, and a job's result is read only when it is complete.

**Long logins.** The buffers for names hold 63 bytes (`MAX_LOGIN_LENGTH` is 64, with
the end), and `str_copy` cuts what is longer, in the request (`account_manager.cpp:219`)
and in the player's data (`account_manager.cpp:123`). `/register` refuses only what is
longer than 64 bytes (`account_manager.cpp:443`), and `/login` refuses nothing. So a
client writes a `Login`, the queue and the players have a `Name`, `Cut` leads from one to
the other, and `TooLong` are the logins that `/register` refuses. `InUse` compares the
login as written. Names are equal when they are equal byte by byte, as in SQLite;
the default collation of MySQL, which ignores case (`tables.cpp:31` sets none), is not
modelled.

### Clans

| Specification | Code |
|---|---|
| `cache`, `load` | `m_vClansData`, `m_pClansLoadResult` |
| `creates`, `counts`, `logins` | `m_vpClanCreateResults`, `m_vpClanGetMembersResults`, `m_vpLoginResults` |
| `players[s]` | the player of the slot: login, account, `m_ClanID`, `m_Lang`, `m_ClanInviteID` |
| `clans`, `userClan`, `userLang` | table `clans`, columns `clan_id` and `language` of `users` |
| `strays` | history: the rows of `users` that the save of an account has written |
| `ChatLang`, `LevelUp`, `Drop` | `/lang`; the saves at a new level and when a player leaves |
| `CreateClan`, `LeaveClan`, `SendClanInvite`, `AcceptInvite`, `ConSaveClans` | chat commands, votes and the console command |
| `BuyUpgrade`, `AddMoneyToBank` | votes `cln_upgr_` and `cln_add_money` |
| `OnTick` | `OnTick` of the account manager and then of the clan manager |
| `RunCreate`, `RunLoad`, `RunSave`, `RunCount`, `RunLogin`, `RunAccountSave`, `Fail` | the functions run by the worker |
| `Reload`, `Shutdown` | map change, end of `CServer::Run` |

`RunCreate(stop)` carries out `stop` of its four statements; `RunLoad`, `RunSave` and
`RunCount` end early on a fault, as their loops do. The loops of `OnTick` erase and
increment, so that a result behind one that was handled waits for the next tick
(`Handled`). Of the account manager only what touches clans is here: the login, which
brings a player his clan and language, and the save of an account (`Save`), which is
queued when an invite is accepted, at a new level, when a player leaves, and for
everybody once a minute. Its first statement picks the row by the language (see 5.4).
Accounts start in language 0, which is no row's id, so that a save does nothing to clans
until somebody uses `/lang`; saves that touch no row are not put into the model's queue.
After that a save writes the saver's id as `clan_id` of another account's row
(`RunAccountSave`). Of the saves of one tick every order is taken. `Shared` are the
accounts that long logins reach, which two players may share.

### Inventory

`inv`, `wallet`, `up` are `m_AccInv`, `m_AccData` and `m_AccUp`; `pet` is `m_pPet`; `ground` are
the `CPickupPhys` entities. There is an action for each kind of item that is used
(`Eat`, `OpenBag`, `OpenBox`, `UseReset`), for each command of the vote menu (`BuyUpgrade`,
`BuyItem`, `CraftItem`, `SetEquippedItem`, `DropItem`), for what the world does (`PickUp`,
`Vanish`, `Work`, `SellMaterial`) and for the character's life (`Spawn`, `Die`). Items are
parameters; the tables of `items.xml`, `shop.xml`, `crafts.xml` and the boxes are
constants, and so is `MaxOpened`, the number of boxes of which the content is given (50 in
`box.cpp:33`). Chance (bags, boxes) is a choice. Numbers from `-Half` to `Half - 1` stand for
the ints, and results wrap (`Wrap`) where the code computes with `int`. Commands have no guard that the menu was current, because
the handlers do not look.

### NetConnection and ReliableStream

| Specification | Code |
|---|---|
| `sequence`, `ack`, `peerAck` | `m_Sequence`, `m_Ack`, `m_PeerAck` |
| `buffer`, `construct`, `resend` | `m_Buffer`, `m_Construct` and its flag `NET_PACKETFLAG_RESEND` |
| `unpacker` | `m_RecvUnpacker`: chunks of a packet are handed over one at a time |
| `QueueChunk`, `Flush`, `ResendChunk`, `KeepAlive` | `QueueChunk`, `Flush`, the timers of `Update` |
| `Feed`, `FetchChunk` | `CNetConnection::Feed`, `CNetRecvUnpacker::FetchChunk` |
| `Lose`, and the choices in `Feed` | the network loses, reorders and repeats |
| `sent`, `received`, `overflow`, `taken` of a packet | history, of which the first three are the state of `ReliableStream` |

A timer is a guard that may be true at any time. A full resend buffer does not stop
a chunk: it goes out and is not kept (`network_conn.cpp:152`); `ReliableStream` ends its
promise at that point with `overflow`. The numbers begin at `First`, which is where both
ends stand after a handshake and some traffic: a first number just before the wrap
makes the wrap happen in every behaviour. `m_UnknownSeq`, by which an old client's first
chunk sets the number, is over by then.

### Slots

| Specification | Code |
|---|---|
| `conn`, `addr`, `protected`, `situation` | `m_State`, `m_PeerAddr`, `m_TimeoutProtected`, `m_TimeoutSituation` of the slot's connection |
| `client`, `authed`, `persist` | `m_State`, `m_Authed`, `m_HasPersistentData` of `CServer::CClient` |
| `player` | `m_apPlayers`: whether there is one, `m_IsReady`, `m_aTimeoutCode` |
| `maxPerIp`, `SetMaxPerIp` | `m_MaxClientsPerIP` and the console variable `sv_max_clients_per_ip` |
| `session`, `admitted`, `due` | history: which handshake uses the slot, whether it was let in, whose data must come back |
| `Accept`, `AcceptVanilla`, `Rejoin`, `Close`, `Update` | `CNetServer`: handshakes, `CLOSE`, timeouts |
| `ClientVer`, `Info`, `InfoRefused`, `Ready`, `StartInfo`, `EnterGame`, `RconAuth` | `CServer::ProcessClientPacket` and `CGameContext::OnMessage` |
| `TimeoutCommand` | `/timeout`: `CNetServer::SetTimedOut` and `CServer::SetTimedOut` |
| `MapReload`, `Kick`, `SetPassword`, `Shutdown` | the main loop and console commands |

A drop is the whole chain: `CNetServer::Drop`, `DelClientCallback`, `OnClientDrop` (`Leave`).
Messages come in any order, as a client may send them in any order.

**Chunks behind a drop.** `FetchChunk` hands over the chunks of a packet without a look at the
connection (`network.cpp:26`), so that the chunks behind one that made the server drop its
sender are still handled, for a slot that is empty. The handlers look at the client's state,
all but `RCON_AUTH` (`server.cpp:1634`): with a right password it gives the empty slot
rights. In the model whatever drops a slot by a chunk of its own (`Kick`, `InfoRefused`,
`SetTimedOut`) may leave the rights behind (`Behind`); the next handshake on the slot
takes them away (`NewClient`).

### Register

`enabled`, `status`, `after`, `newToken`, `haveToken`, `timer` are the fields of a `CProtocol` and
its `CShared`; `latestOk` is the serial shared in `CGlobal`. The numbers of requests are
only compared, so they are counted from the latest response. `jobs` is the job pool:
a sequence in the order of `Add`, the first `Threads` of which are being done. The
master server (`known`, `listed`, `challenge`, `Handle`, `Forget`) is not part of the program
and answers as the code expects: a registration needs a token, and the info if the
master does not have it.

`Answered` is one step, where the code changes the state of the protocol and the shared serial
under two locks, one after the other (`register.cpp:446-480`). A request that the main
thread sends between the two decides by the old serial whether it carries the info, and
the master server asks once more; neither property is affected.

## 3. Runs

Every cfg gives values to the constants and nothing else.

| Run | Instance | Shows |
|---|---|---|
| `dbpool` | ring of 3, at most 2 waiting, 4 jobs | all invariants of the pool; `ImplementsJobQueue`; `ShutdownEnds` |
| `dbpool_overflow` | ring of 2, up to 3 waiting | `DrainedAtExit` fails: an overwritten job |
| `accounts_faults` | 2 slots, 1 name, 2 rows, faults, map changes, impatient clients | `TypeOK`, `UniqueNames`, `SessionsComplete` |
| `accounts_conserve` | 2 slots, 2 names, a third login that is cut to one of them, 1 item, map changes, no faults, patient clients | `OneShortSession`, `Conserved`, `LoginAnswered` |
| `accounts_double` | 2 slots, 1 name, impatient clients | `OneSession` fails: two requests before one answer |
| `accounts_clan` | 1 slot | `ClanStored` fails: the mixed-up parameters |
| `clans` | 2 slots, 2 accounts, 1 name, 2 rows, 2 waiting jobs, 1 fault | `TypeOK`, `UniqueClanNames`, `CacheAgrees`, `ClanKnown`, `BankKept` |
| `clans_lang` | 2 slots, accounts 1 and 2 of which two players may share the second, language 1, 1 name, 1 row, 1 waiting job, no faults | `ClanKnown` |
| `inventory` | 1 player, 9 items, 2 upgrades, 3 levels | `TypeOK`, `CountsInRange`, `OneWorn`, `PetFollows`, `PointsKept`, `NothingForFree` |
| `net` | numbers 0..5, buffer of 2, packets of 2, 3 chunks, 1 fault | `TypeOK`, `KeptUntilTaken`, `PeerHeard`, `InOrderOnce`, `Arrives` |
| `slots` | 2 slots, 2 addresses that are ports of one IP, limits 1 and 2, 1 code, 3 handshakes | `LayersAgree`, `Admitted`, `AuthedIsOwn`, `StateKept`, `CodeIsProtected`, `AddressLimit`, `Freed` |
| `register` | 2 protocols, 2 workers, 3 jobs, 2 infos, 2 changes of settings, 1 fault | `TypeOK`, `KnownDelivered`, `Registered` |

**Bounds.** Four jobs in three slots use an index a second time, and the empty
slot that ends the queue is one that was used before; one job more gives the
same verdicts in ten times the states. In `Accounts` two slots are needed for a
player to leave and come back elsewhere, for two players to meet in one account
and for results to be passed over; two waiting jobs allow a save and a login to
cross and two logins to be pending; two rows and two names allow an account to
receive what belongs to the other; the third login is cut to the first name and
too long to be registered. `accounts_faults` has one name so that
registrations compete. Money and experience go up to one: the properties compare
values and never add them. `MaxUsers`, `MaxJobs`, `MaxLogins` and `MaxJobs` of the
pool are bounds of the model only; the code has none.

In `Clans` two slots let a creator leave and another sit in his place, and let two
players compete for one name; two jobs let a creation and a load, or a save and a
load, wait together; the `Reload` that puts both into the queue needs exactly two. The
bank holds one payment, which is enough to buy one upgrade; `MaxRequests` 1 bounds each
list. In `clans_lang` the accounts are numbers, because the language of one has to be the id of
another; one waiting job is enough for a save to come before or after a login, and nobody
changes the map (`Reload` needs room for two). The accounts of `clans` are symmetric, since
no language is the id of one there. In `Inventory` one player is enough because players meet only through what lies on
the ground, which he drops and picks up himself; the items are chosen so that each
kind of use, an item with a limit (twelve, reached by two pieces of work of eight), two
things of one type, a pet and a two-for-one craft occur. `MaxHeld` and `MaxMoney` bound
what a player gathers, `MaxGain` what work, a box or the shop gives at once, `MaxLevel` stops
the food; `MaxOpened` is 1 instead of 50, so that two boxes are one too many;
`Half` is 2048 instead of 2^31. The counts that players write are 1
and 2: **products that leave the range of an int are in the model (`Wrap`) but not in this
run**, and beyond that range `TypeOK`, `CountsInRange`, `OneWorn`, `PointsKept` and
`NothingForFree` do not hold of the code (see 5). In `NetConnection` `BufferSize` is less than half of `MaxSequence` as in the code,
where 32 KiB hold at most 455 chunks and half the numbers are 512 (the assumption
`ConnectionAssumption` says so); a chunk is lost, overtakes or is repeated once
(`MaxFaults`), three chunks overflow the buffer and wrap the numbers, and since both ends
run the same code, one of them sends (`ClientSends` 0; the other one acknowledges). In
`Slots` three handshakes allow a slot to be used again after a takeover; the two addresses
are ports of one IP, so that the limit counts them together, binds at one and at two,
and can be lowered below what is there. In `Register` two protocols share the serial,
three jobs on two workers let answers overtake each other while one waits.

**Deadlock** is not checked, since the server may really stop: after a shutdown,
when all jobs are done, nothing happens any more. That it does not stop
earlier is what `ShutdownEnds` and `LoginAnswered` say. `Clans` and `Slots` end with a
shutdown, `Register` too; in `Inventory` all bounds may be reached.

**Patient clients.** With `Patient`, a client with an unanswered login neither
leaves nor asks again, and nobody else asks for the same account meanwhile. The
code enforces none of this; `accounts_double` shows what happens otherwise, and
therefore `OneShortSession`, `Conserved` and `LoginAnswered` are promised for such
clients only. Patience is not enough for an account whose name a longer login is cut
to: put `OneSession` in the place of `OneShortSession` in `MCAccountsConserve.cfg`, and TLC shows two
patient clients in one account. `OneShortSession` and `Conserved` are about the names that no other login
reaches (`Short`), which are all names of fewer than 63 bytes. `Conserved` also needs statements that work: with a fault inside
`SaveThread` the code does lose items. It excepts the step of a map change, which
loses what was not saved (`server.cpp:2629`), and holds before and after it.

**Fairness.** The pool's threads are detached operating-system threads and run
when they can: weak fairness of `Backup` and `Worker`. `OnShutdown` polls: weak
fairness of `ShutdownReturns`. `Accounts` has weak fairness of `RunJob`, which is
what `ImplementsJobQueue` establishes of the queue, and of `OnTick`, which the main
loop calls fifty times a second. No player has to do anything, and a database
call is taken to return, with success or failure, because the clients' time-outs
make it. In `NetConnection` both programs call `Update` and read packets again and again:
weak fairness of `Feed` and `FetchChunk`, strong fairness of the timers, because a timer is
due whether or not `MaxInFlight` lets its packet through, and that bound is not in the
code. In `Slots` the main loop calls `Update`, and the time of a connection that has ended
runs out: weak fairness of `Expire`; nothing is assumed of clients. In `Register` the main
loop calls `Update` and reads packets, time passes, and the worker that holds the oldest
job gets an answer; fairness of `Update` and `OnToken` is strong only to make up for the
bound on the jobs, which disables them now and then. Faults are bounded, so they end.

**How the modules fit together.** `DbPool` implements `JobQueue` with its liveness
(TLC) and its safety (TLC and TLAPS). `Accounts` has its own queue that behaves
as `JobQueue` promises: first in, first out, each job once, reads dismissed only
when degraded or closing. There is one read server, as `CServer::Run` registers it.
`Clans` has the same queue and the part of the account manager that it needs.
`NetConnection` implements `ReliableStream` (TLC and TLAPS), which is what `Slots` takes for granted:
messages of a client arrive whole and in its order.

**Exceptions in the properties.** `ClanKnown` holds as long as no job failed, and
excepts the clan of a creator who left before the answer arrived: it reaches the
cache only when somebody takes his slot. It claims nothing of the clan of a player whose row in
`users` the save of an account has written (`strays`), which takes somebody who has
set his language to that row's id; without this exception it fails in `clans_lang`. `BankKept` is about a working database
before the shutdown. `KeptUntilTaken`, `PeerHeard` and `Arrives` end with `overflow`.
`LayersAgree` and `Admitted` have no exception. `AuthedIsOwn` is about slots with a client: an empty
slot may hold the rights of one that was dropped. `AddressLimit` is about steps, for lowering
the limit drops nobody.

## 4. Theorems

For every value of the constants that satisfies the named assumptions:

- `SizesAssumption` (`DbPool`): sizes are natural numbers and the ring is not empty.
- `RoomAssumption` (`DbPoolProofs`): `Backlog < QSize`.
- `AccountsAssumption` (`Accounts`): the bounds are natural numbers, the switches
  Booleans, the empty string is not a name; every name is a login that is not cut, every
  other login is cut to a name, and logins that `/register` refuses are not names. In particular
  the theorems hold with faults, map changes and impatient clients; `OneShortSessionCorrect` and
  `ConservedCorrect` say what they assume beyond that.
- `ClansAssumption` (`Clans`): the bounds are natural numbers, slots and accounts are finitely
  many and 0 is no account, payments are integers. Any accounts may be `Shared`, and languages
  may be anything.
- `InventoryAssumption` (`Inventory`): players, items and upgrades are finitely many, the
  tables name items that exist, costs, food and `MaxOpened` are natural numbers, limits and `MaxHeld`
  leave room for `MaxGain` below `Half`, and `MaxMoney` is below `Half`. What four of the
  theorems assume beyond that is said with them.
- `ConnectionAssumption` (`NetConnection`): the resend buffer holds fewer chunks than half
  the sequence numbers, as 32 KiB do.
- `SlotsAssumption` (`Slots`), `RegisterAssumption` (`Register`): the bounds are natural
  numbers, the limits by address positive, protocols are finitely many, what stands for nothing
  is no value. Which addresses are ports of one IP is open.

Lemmas that several proofs need are in `NumberFacts`. Three of them replace what the
provers cannot do: `SmallestSet` (among the subsets of a finite set that have something
in common there is one of which no smaller one has it) turns an induction over finite sets into
the search for a smallest counterexample; `Enumeration` (a finite set of numbers can be
listed in its order, and in one way only) is an induction of that kind, over numbers;
`FunctionIsSeq` makes sequences out of functions.

**DbPool.** `TypeCorrect`; `QueueCorrect`, the inductive invariant; from it
`RingCorrect`, `OrderCorrect`, `DrainCorrect`, `BackupCorrect`; and `PoolImplementsQueue`,
each step of the pool is a step of `JobQueue` or none.

None of the properties is inductive. The invariant `QueueInv` says what ties them
together: each semaphore is the difference between signals sent (insertions plus
the end marker; passes) and signals taken, which a thread's place in its loop
tells (`CountInv`); what a thread holds in its hand is the job of its number
(`HandInv`); job numbers and histories agree (`HistoryInv`); the ring holds exactly
the jobs between the worker's number and the length of the history
(`RingHoldsBacklog`). That two waiting jobs never share a slot is the lemma
`ModDistinct` of `NumberFacts`: numbers less than `QSize` apart differ modulo `QSize`.
This is where `RoomAssumption` is needed. An empty slot then means that no job is
left, hence the end marker was met only after a shutdown. `BackupCorrect` adds that
all writes below the backup thread's number were shown to the backup if it was
open, and `PoolImplementsQueue` that a failed write has already put the worker in
fail mode.

**Accounts.** `TypeCorrect` (`TypeOK`), `NamesCorrect` (`UniqueNames`), `SessionsCorrect`
(`SessionsComplete`). The type invariant is strengthened by the number of
registrations in the queue plus the rows of `users` staying within `MaxUsers`, which
keeps the new row's id in range. Names are unique because the check and the
insertion are in one job and jobs do not overlap: the theorem depends on the
queue's promise. For sessions the invariant says of every login result what
`SessionsComplete` says of players, and that tables only grow: no job removes a row
of `users` or of `u_upgr` or changes a name.

`OneShortSessionCorrect` (`OneShortSession`) assumes `Patient`, without which the property is false
(section 5). Its invariant `NamesKept` says that every account is asked for at most once at a
time and, if its name is reached by no other login, never while somebody plays it, which is
what patience and the test in `Login` give, and that a successful answer holds the account its request named. The last part is the
difficult one, because a job of the model, as the code's job, does not carry the result it
will complete: after a map change jobs are in the queue whose results are gone. `Aligned`
says that, counted from their ends, the pending results and the login jobs agree in their
names, and that there are no more results than jobs; it needs no patience. `OnTick`
erases results that are completed, and every other one of those at that, so that the proof
needs the recursion of `Handled` to have a solution (`RunExists`), and that renumbering the
results that stay keeps their places from the end (`Renumbered`). TLC checked `NamesKept` with
patient clients and `Aligned` with both kinds, with faults and map changes, before they were proved.

`ConservedCorrect` (`Conserved`) assumes `Patient` and no faults; without either of the two an
account does lose items (section 3); it is about the accounts whose names no longer login
is cut to. It is an action property: a step
that is neither gameplay nor a map change leaves alone what an account owns, which is what its
player has in hand, or else the data of its last save in the queue, or else what the tables hold.
The step where this could go wrong is `OnTick` handing a result to a player: the owner's data
changes from what is stored to what some earlier job has read. The invariant `RunningInv` holds what
makes the two equal while the server runs. As long as an account is asked for, a login job of
its name comes behind every save of it in the queue (`SavedFirst`), and a complete result holds what
is in the tables (`ResultsFresh`). A save could only come in between if somebody played the account
or a player without an account saved data of one, which `NamesKept` and `DataKnown` exclude; that no
second answer overwrites a player's data is `OneRequest`. The difficulty are the jobs that a map
change has left without results: the login job behind a save could be such a one, so that the
result of the request would come from an earlier job. `SamePlace` and `AnsweredUnsaved` exclude
this with `Aligned`: the job that completes the only result of a name is the last login job
of that name, so that no save is left when it has been run. For `SaveThread` the proof also needs
`SessionsComplete` of queued data: the row of upgrades exists, or the `UPDATE` would store
nothing. TLC checked the invariant on an instance like that of `accounts_conserve` before it
was proved.

**Clans.** `TypeCorrect` (`TypeOK`), `NamesCorrect` (`UniqueClanNames`), `CacheCorrect`
(`CacheAgrees`), `KnownCorrect` (`ClanKnown`), all from `IInv`. Names are unique by the
queue alone, as in `Accounts`. The cache is the hard part: it gets a clan either from the
answer to its creation or from the list, and the proof has to exclude that a clan comes
both ways, or neither. The invariant therefore says where each row is known: nobody
logs in before the list has been read (a login waits in the queue behind the job that
loads, `ListFirst`), so no creation is asked for before that; until the list has arrived
the cache and the requests are empty; then every row is in the cache or in exactly
one answered creation (`CreatedOnce`, `AllKnown`). What makes this hold over map changes is that
an answer goes to the request it belongs to although requests have no number and
those of an older map are gone. `Aligned` says why: behind a mark in the queue, the last
job that loads, the jobs of a kind and the open requests of that kind are in one-to-one
correspondence, in their order; until the mark is reached no answer is delivered to
anybody. The code gets this from `shared_ptr`s; the model from counting (`Answer`), and the lemma
`AnswerMatched` shows that the two agree. The saves of accounts lie between these jobs in the queue;
`Grows` says that a step may add any number of them without disturbing the correspondence.
They also write `clan_id`, and nothing can be said of what: `Sane` says of the clan in a row,
in an answer and of a player only that it exists as long as the row is not one of `strays`.
`IInv` was checked by TLC on the instances of `clans` and `clans_lang` before it was proved.

`BankCorrect` (`BankKept`) is an action property, proved from a second invariant `SavesInv` on
top of `IInv`: a save in the queue names each clan once and only clans with a row (`SavesFine`); a
clan that waits for its creator owns nothing yet, and no save names it (`Fresh`); until the list
has come to the cache, saves behind the job that loads are empty (`EmptySaves`); and the list
under way says what the table says (`ListIsTable`). What a clan owns is then the cache's
word, else that of the list under way, else that of the last save that names it, else the
table's (`Owned`); when the queue moves on, what it says of a clan stays the same (`OwnedMoves`).
TLC checked `SavesInv` first, too.

**Inventory.** All six properties of the run. `PetCorrect` (`PetFollows`) and `WornOncePerType` (at
most one thing of a type is worn) hold for all counts that players write. The others need that
products fit an int, which the code does not check and beyond which they are false (see 5):

- `SmallCrafts`, the amounts of a craft times the count: `CountsCorrect` (`CountsInRange`),
  `WornCorrect` (`OneWorn`, which adds that what is worn is there), `NothingForFreeCorrect`;
- `SmallUpgrades`, the cost of an upgrade times the count, and the points of all levels:
  `PointsCorrect` (`PointsKept`), `TypeCorrect` (`TypeOK`);
- `SmallMeals`, the experience of a meal on top of that of a level: `TypeCorrect`;
- `FairPrices`, which `NothingForFreeCorrect` (`NothingForFree`) needs of the tables: the shop does
  not ask for less than an item is worth (where that is not so by definition, for items that can also
  be crafted), ingredients and materials are worth something. `shop.xml` and
  `crafts.xml` are so: no item is in both, no cost is below 100, no craft is without ingredients.

`MCInventory` asserts all four of the instance that TLC checks.

The first proofs rest on what `GiveItem` and `RemItem` do to a bag (`GiveItemShape`, `RemItemShape`: one entry
changes, nothing is put on), on `Shape`, the types of a bag, and on `AllGood`: counts are in range, and
what is worn is there. `PointsKept`, `TypeOK` and `NothingForFree` rest on two recursions, the sum over a
set (`Sum`) and the loop of `AddEXP`. That each has a solution (`SumExists`, `LevelUpExists`) and
what the solution does are inductions, carried out with `SmallestSet` and over the levels that are
missing to `MaxLevel`. From them come the laws of sums (`SumFacts`, `SumChange` for one addend that changes, `SumLinear`,
`SumPart`, `SumMoved` for addends that change places) and `AddEXPFacts`: money stays, the level never
falls, what is left is below the next level's need.

For `PointsKept` the invariant `PointsOK` adds that upgrades are counted from zero, so that what a reset
gives back is no less than nothing; `EatEffect` says that two points come with each level. `NothingForFree` is an action property
over `Sound`: the bags are good, the purses hold money below `Half` (`PursesOK`), and what lies on the ground
is there at least once (`GroundOK`), since otherwise a thing that vanishes would make the rest richer. Each
command is a deal (`Deal`: one bag, one purse and the ground change), and `DealIsFair` reduces the total over all
players, items and things on the ground to these. The lemmas with names on `IsFair` then go through the commands:
`RemItem` takes as much as was asked for as long as that is there (`RemItemWorth`), `GiveItem` gives no
more than was asked for (`GiveItemWorth`, less at the limit), a craft takes its ingredients before it gives
(`CraftWorth`), and what leaves the ground leaves the others where they were (`GroundWithout`).

**Slots.** `TypeCorrect`, `LayersCorrect` (`LayersAgree`), `AdmissionCorrect` (`Admitted`), `RconCorrect`
(`AuthedIsOwn`), `PersistCorrect` (`StateKept`), `ProtectionCorrect` (`CodeIsProtected`), `AddressesCorrect`
(`AddressOnce`) and `LimitCorrect` (`AddressLimit`, an action property). Most of them lean on each other: a takeover copies one layer and resets
another, and only `LayersAgree` tells that the two slots are in states in which this is right.
`InUse` adds that a slot in use belongs to a handshake, so that rights compared with nobody's
session are no rights. That a late chunk gives rights to an empty slot only, and that
the next handshake ends them, is what `RconCorrect` rests on. `LimitCorrect` counts: a step that
takes a slot adds at most one to the number of connections of an address, which was
looked at before (`NumClientsWithAddr`), and a takeover moves an address from one slot to
another. It needs nothing of `Ip`, and holds while the limit goes up and down.

**Register.** `TypeCorrect` (`TypeOK`), `KnowledgeCorrect` (`KnownDelivered`). The property is about one
number, `latestOk`; the invariant `Fine` follows the numbers through the job pool: no
job carries a serial that the server does not have yet, a job that succeeded carries one
that the master server has got, and no job is younger than the requests of its protocol
that wait for an answer.

**NetConnection.** `TypeCorrect` (`TypeOK`), `KeptCorrect` (`KeptUntilTaken`), `HeardCorrect`
(`PeerHeard`) and `ConnectionImplementsStream` (`InOrderOnce`): one direction implements
`ReliableStream`. Two invariants carry them. `NumberedInv` holds of every behaviour: each chunk,
wherever it is, carries the number of its place in the stream, and each acknowledgement the
number of a chunk that was taken, so that an old packet is never wrong, only old. `InStepInv`
says of a sender that kept all its chunks that what is acknowledged was taken, what was taken
was sent, and the buffer holds exactly what is not acknowledged. Numbers are compared modulo
`MaxSequence`; `NumShift` (going on by less than a turn wraps at most once) reduces all of this to
linear arithmetic, and from it follows what `IsSeqInBackroom` (`BackroomOlder`,
`BackroomNewer`), the test in `Feed` (`ValidIsNew`, `NewIsValid`), `AckChunks` (`AckChunksExact`) and
the unpacker (`NextIsNext`) make of a number.

These theorems, except `TypeCorrect`, assume `Recent` of the behaviour: no acknowledgement under
way and no chunk still to fetch is a whole turn of the numbers old. The code has no other
protection against a packet that comes back after 1024 vital chunks: its number is right
again, and the chunk would be taken. The streams themselves may be of any length.
`OneTurnIsRecent` shows that `Recent` always holds in a stream of fewer than `MaxSequence` chunks,
with any start, any number of faults and any delay, so that there the theorems need no
assumption on the network (`ReliableWithinOneTurn`); the run `net` is such an instance. TLC
checked both invariants before they were proved, with three chunks, and with eight chunks and six
numbers in the states that are `Recent`.

**Checked by TLC only.** Liveness (`ShutdownEnds`, `LoginAnswered`, `Arrives`, `Freed`, `Registered`, the
fairness part of `ImplementsJobQueue`), which TLAPS does not reach. Every safety property of a passing run is
a theorem, with the assumptions named above. The violations of section 5 are runs only.

## 5. Where the code does something else than it says

1. The ring overflows without notice (`connection_pool.cpp:148`): run
   `dbpool_overflow`.
2. Two pending requests log two players in to one account
   (`account_manager.cpp:205`): run `accounts_double`.
3. `SaveThread` binds three parameters one place off (`account_manager.cpp:240`): run
   `accounts_clan`.

The models contain more that a reader of the code may not expect. No property is stated
against it:

- `add_sqlserver` exchanges readers and writers: `w` registers a read server and `r` a write
  server (`server.cpp:3360-3363`), against the message at `server.cpp:3366` (`ConAddSqlServer`).
- A login of 64 bytes or more is compared uncut with the names in use
  (`account_manager.cpp:207`), although the request and the player's data are cut to 63
  (lines 219 and 123): it is never in use, and patient clients share an account (`InUse`).
- Because of 3, a save of a player who has used `/lang` gives another account a clan that
  may not exist (`account_manager.cpp:240`, `RunAccountSave`), which the vote menu then reports as
  impossible (`vote_menu.cpp:400`).
- The ingredients of a craft wrap around with the count (`mmo_core.cpp:822`, `830`), and so does
  the product: crafting makes things of next to nothing, and counts leave their limits
  (`CraftItem`).
- The cost of an upgrade is the product of a price and an int the player writes
  (`vote_menu.cpp:117`) and wraps around.
- A chunk behind one that had its sender dropped is still handled, and may leave rcon rights
  on an empty slot until the next handshake (`network.cpp:26`, `server.cpp:1634`).
- Lowering `sv_max_clients_per_ip` drops nobody who is above it (`server.cpp:3425`).
- `BuyItem` and `CraftItem` take the payment when there is no room for the product
  (`mmo_core.cpp:551`, `832`); what is picked up beyond the limit is gone; a box beyond the
  fiftieth is used up without content (`box.cpp:33`).
- A pet whose item is dropped goes on following (`mmo_core.cpp:636`).
- Shop and craft commands are accepted wherever the player is. The command
  `inv_item_dest` of the menu (`vote_menu.cpp:575`) has no handler.
- An invite is not checked again when it is accepted (`clan_manager.cpp:384`). Whoever sits
  in the creator's slot when a clan is ready leads it (`clan_manager.cpp:317`). Leaving a
  clan is not saved.
- The data kept over a map change belongs to the slot: if the client leaves before he is
  back, the next one to use the slot gets it (`server.cpp:1512`). `/timeout` without an
  argument compares empty codes (`ddracechat.cpp:252`). After a takeover a stale
  `m_TimeoutSituation` may keep the slot for the longer time once more. `SetTimedOut` logs
  out the client that is taken over if the one that takes over has rights
  (`server.cpp:3759`).
- A late challenge registers a protocol that was disabled meanwhile (`register.cpp:402`), and
  a protocol that is disabled with its first registration under way stays listed
  (`register.cpp:330`). At shutdown the request that takes the server off the list may be
  dropped in the job pool.

## 6. What is not modelled

Not modelled for good: physics, world and entities (floating-point positions),
encodings, console and files (pure input and output, or sequential code with tests),
snapshots, `AuctionManager` (never registered as a component), third-party code, and the
SQL that administrators type.

Not modelled within the modules: of the connection, chunks that are not vital, and the
timeouts that end it (`Slots` has those); of the slots, reserved slots (only as a refusal),
limits on the rate of connections, the lookup of addresses in block lists, bans other
than as a kick, clients of version 0.7, map download and input; of the clan manager,
the chat command `clan_delete`, whose job is an empty function (`clan_manager.cpp:101`) and
whose results nobody reads, so that it only fills a list and the queue; of the inventory, what upgrades do in a fight; of the job
pool, its lock and semaphore.

Not stated: that the queue of `Accounts` refines `JobQueue`. One `OnTick` submits the saves of all
players in a single step, for which `JobQueue` takes several; the two agree job by job, not step
by step.

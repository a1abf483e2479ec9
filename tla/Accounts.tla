------------------------------ MODULE Accounts ------------------------------
(***************************************************************************)
(* CAccountManager (game/server/mmo/components/account_manager.cpp): the   *)
(* players in the server's slots, the jobs the manager puts into the       *)
(* database queue (register, login, save), the tables these jobs read and  *)
(* write, and the answers that OnTick hands to the players.                *)
(*                                                                         *)
(* The queue is what JobQueue promises and DbPool implements: jobs run one *)
(* after the other in the order of submission and may be dismissed, being  *)
(* reads, in fail mode or during shutdown.  Nothing but these jobs touches *)
(* the tables, so a job is one step that stops after some statement: the   *)
(* statements are not wrapped into a transaction.  There is one read       *)
(* server, as the server itself registers it.                              *)
(***************************************************************************)
EXTENDS Integers, Sequences, FiniteSets

CONSTANTS
    NumSlots,   \* slots of the server, MAX_PLAYERS
    Name,       \* names of accounts, which fit m_aLogin and m_aAccountName
    Login,      \* what a client may write as a login: names, and longer texts
    Cut,        \* what str_copy leaves of a login in such a buffer
    TooLong,    \* the logins of more than MAX_LOGIN_LENGTH bytes
    Item,       \* items of the inventory
    MaxUsers,   \* bound on the rows of users
    MaxJobs,    \* bound on the jobs waiting in the queue
    MaxLogins,  \* bound on the login requests not yet answered
    MaxValue,   \* bound on money, work experience and upgrades
    Plays,      \* what gameplay changes: "item", "money", "work", "level", "profile"
    Faults,     \* statements may fail
    Patient,    \* a client waits for the answer to its login and no other
                \* client asks for the same account meanwhile
    Reloads     \* the map may be changed

ASSUME AccountsAssumption ==
    /\ {NumSlots, MaxUsers, MaxJobs, MaxLogins, MaxValue} \subseteq Nat
    /\ Plays \subseteq {"item", "money", "work", "level", "profile"}
    /\ {Faults, Patient, Reloads} \subseteq BOOLEAN
    /\ "" \notin Name
    /\ Name \subseteq Login
    /\ Cut \in [Login -> Name] /\ \A n \in Name : Cut[n] = n
    /\ TooLong \subseteq Login \ Name

VARIABLES
    players,    \* m_apPlayers: who sits in a slot and with which account data
    queue,      \* the jobs in the database queue, oldest first
    logins,     \* m_vpLoginResults
    users,      \* table users: row i has id i
    inv,        \* table u_inv: the items stored for a user id
    works,      \* table u_works: the work experience stored for a user id
    upgr,       \* table u_upgr: the upgrades of a user id, or NoRow
    failMode,   \* FailMode of the queue's worker
    shutdown    \* the server has stopped and closed the queue

tables == <<users, inv, works, upgr>>
vars == <<players, queue, logins, tables, failMode, shutdown>>

Slot == 0..(NumSlots - 1)
Id == 0..MaxUsers
Value == 0..MaxValue
NoRow == -1

\* m_AccData, m_AccInv, m_AccWorks and m_AccUp of a player: money stands for
\* level, exp, money and donate, work for the works, upg for the upgrades, and
\* inv for the items with a count above zero.
Account == [name : Name \cup {""}, id : Id, money : Value, clan : Id, lang : Id,
            inv : SUBSET Item, work : Value, upg : Value]

\* The allocator zeroes a new player.
Blank == [name |-> "", id |-> 0, money |-> 0, clan |-> 0, lang |-> 0,
          inv |-> {}, work |-> 0, upg |-> 0]
Player == [here : BOOLEAN, loggedIn : BOOLEAN, acc : Account]
Nobody == [here |-> FALSE, loggedIn |-> FALSE, acc |-> Blank]

\* right: the request names the password hash of users, and the account is not
\* blocked.
Job ==
    [kind : {"register", "login"}, name : Name, right : BOOLEAN, acc : Account]
        \cup [kind : {"save"}, name : Name \cup {""}, right : BOOLEAN, acc : Account]
LoginResult == [slot : Slot, name : Name, state : {"pending", "failed", "successful"},
                acc : Account]
-----------------------------------------------------------------------------
Init ==
    /\ players = [s \in Slot |-> Nobody]
    /\ queue = << >>
    /\ logins = << >>
    /\ users = << >>
    /\ inv = [i \in Id |-> {}]
    /\ works = [i \in Id |-> 0]
    /\ upgr = [i \in Id |-> NoRow]
    /\ failMode = FALSE
    /\ shutdown = FALSE

\* Save: a copy of the player's data, logged in or not.
SaveJob(acc) == [kind |-> "save", name |-> acc.name, right |-> TRUE, acc |-> acc]
Room(n) == Len(queue) + n <= MaxJobs

\* CGameContext::OnClientConnected: a new player, not logged in.
Connect(s) ==
    /\ ~shutdown
    /\ ~players[s].here
    /\ players' = [players EXCEPT ![s] = [Nobody EXCEPT !.here = TRUE]]
    /\ UNCHANGED <<queue, logins, tables, failMode, shutdown>>

\* The names that a client reaches by writing them and in no other way.
Short(n) == \A m \in Login \ {n} : Cut[m] # n

Waiting(s) == \E k \in 1..Len(logins) : logins[k].slot = s
AskedFor(n) == \E k \in 1..Len(logins) : logins[k].name = n

\* Slip: the player is deleted before OnPlayerLeft, so that Save finds nobody.
DropUnsaved(s) ==
    /\ ~shutdown
    /\ players[s].here
    /\ Patient => ~Waiting(s)
    /\ players' = [players EXCEPT ![s] = Nobody]
    /\ UNCHANGED <<queue, logins, tables, failMode, shutdown>>

\* CGameContext::OnClientDrop: OnPlayerLeft saves, then the player is deleted.
\* Its login requests stay behind.  A stopping server drops everybody.
Drop(s) ==
    /\ ~shutdown
    /\ players[s].here
    /\ Patient => ~Waiting(s)
    /\ Room(1)
    /\ queue' = Append(queue, SaveJob(players[s].acc))
    /\ players' = [players EXCEPT ![s] = Nobody]
    /\ UNCHANGED <<logins, tables, failMode, shutdown>>

\* Of the jobs in the queue, those of one kind.
Kinds(kind) == {k \in 1..Len(queue) : queue[k].kind = kind}
Registering == Cardinality(Kinds("register"))

\* A login of MAX_LOGIN_LENGTH bytes passes, and loses its last one.
ChatRegister(s, n) ==
    /\ ~shutdown
    /\ players[s].here
    /\ ~players[s].loggedIn
    /\ n \notin TooLong
    /\ Room(1)
    /\ Len(users) + Registering < MaxUsers
    /\ queue' = Append(queue, [kind |-> "register", name |-> Cut[n], right |-> TRUE, acc |-> Blank])
    /\ UNCHANGED <<players, logins, tables, failMode, shutdown>>

\* Slip: the loop over the players begins at the second slot.
InUseFromOne(n) == \E s \in Slot \ {0} : players[s].loggedIn /\ players[s].acc.name = n

\* ChatLogin and Login: refused only if a player is logged in under the name
\* as written, at the time of the request.  What is asked for is the name as
\* cut, and no length is refused.
InUse(n) == \E s \in Slot : players[s].loggedIn /\ players[s].acc.name = n

ChatLogin(s, n, right) ==
    /\ ~shutdown
    /\ players[s].here
    /\ ~players[s].loggedIn
    /\ ~InUse(n)
    /\ Patient => ~Waiting(s) /\ ~AskedFor(Cut[n])
    /\ Room(1)
    /\ Len(logins) < MaxLogins
    /\ logins' = Append(logins,
           [slot |-> s, name |-> Cut[n], state |-> "pending", acc |-> Blank])
    /\ queue' = Append(queue,
           [kind |-> "login", name |-> Cut[n], right |-> right, acc |-> Blank])
    /\ UNCHANGED <<players, tables, failMode, shutdown>>
-----------------------------------------------------------------------------
\* The loops of OnTick over the results: one that is not completed, or whose
\* slot is empty, is passed over, and so is the one behind an erased one.
Deliverable(k) == logins[k].state # "pending" /\ players[logins[k].slot].here
Handled ==
    LET h[k \in 0..Len(logins)] == IF k = 0 THEN FALSE ELSE Deliverable(k) /\ ~h[k - 1]
    IN  {k \in 1..Len(logins) : h[k]}

\* The one sequence that runs through a finite set of numbers upwards.
Upwards(S) ==
    {f \in [1..Cardinality(S) -> S] : \A i, j \in 1..Cardinality(S) : i < j => f[i] < f[j]}

\* Slip: the state of the result is not tested.
DeliveredAny(s) ==
    LET mine == {k \in Handled : logins[k].slot = s}
    IN  IF mine = {} THEN players[s]
        ELSE [here |-> TRUE, loggedIn |-> TRUE,
              acc |-> logins[CHOOSE k \in mine : \A j \in mine : j <= k].acc]

\* A successful result makes its player logged in and replaces its data.
Delivered(s) ==
    LET mine == {k \in Handled : logins[k].slot = s /\ logins[k].state = "successful"}
    IN  IF mine = {} THEN players[s]
        ELSE [here |-> TRUE, loggedIn |-> TRUE,
              acc |-> logins[CHOOSE k \in mine : \A j \in mine : j <= k].acc]

\* Every minute OnTick also saves all players, after the results.
OnTick(autosave) ==
    LET now == [s \in Slot |-> Delivered(s)]
        present == {s \in Slot : autosave /\ now[s].here}
    IN  /\ ~shutdown
        /\ Room(Cardinality(present))
        /\ players' = now
        /\ \E kept \in Upwards((1..Len(logins)) \ Handled) :
              logins' = [i \in DOMAIN kept |-> logins[kept[i]]]
        /\ \E saved \in Upwards(present) :
              queue' = queue \o [i \in DOMAIN saved |-> SaveJob(now[saved[i]].acc)]
        /\ UNCHANGED <<tables, failMode, shutdown>>
-----------------------------------------------------------------------------
\* Gameplay of a player who is logged in; save: the change is saved at once.
Play(s, acc, save) ==
    /\ ~shutdown
    /\ players[s].here
    /\ players[s].loggedIn
    /\ players' = [players EXCEPT ![s].acc = acc]
    /\ save => Room(1)
    /\ queue' = IF save THEN Append(queue, SaveJob(acc)) ELSE queue
    /\ UNCHANGED <<logins, tables, failMode, shutdown>>

GiveItem(s, it) ==
    /\ "item" \in Plays
    /\ LET acc == players[s].acc
       IN  it \notin acc.inv /\ Play(s, [acc EXCEPT !.inv = @ \cup {it}], FALSE)

RemItem(s, it) ==
    /\ "item" \in Plays
    /\ LET acc == players[s].acc
       IN  it \in acc.inv /\ Play(s, [acc EXCEPT !.inv = @ \ {it}], FALSE)

AddMoney(s) ==
    /\ "money" \in Plays
    /\ LET acc == players[s].acc
       IN  acc.money < MaxValue /\ Play(s, [acc EXCEPT !.money = @ + 1], FALSE)

AddWorkEXP(s, levelUp) ==
    /\ "work" \in Plays
    /\ LET acc == players[s].acc
       IN  acc.work < MaxValue /\ Play(s, [acc EXCEPT !.work = @ + 1], levelUp)

\* AddEXP that reaches the next level: points for upgrades, and a save.
AddEXP(s) ==
    /\ "level" \in Plays
    /\ LET acc == players[s].acc
       IN  acc.upg < MaxValue /\ Play(s, [acc EXCEPT !.upg = @ + 1], TRUE)

ChatLang(s, lang) ==
    /\ "profile" \in Plays
    /\ Play(s, [players[s].acc EXCEPT !.lang = lang], FALSE)

\* An accepted clan invite ("Save new clan id").
AcceptInvite(s, clan) ==
    /\ "profile" \in Plays
    /\ Play(s, [players[s].acc EXCEPT !.clan = clan], TRUE)
-----------------------------------------------------------------------------
\* A change of the map: every player object and every result list is thrown
\* away without OnPlayerLeft; the queue goes on.  The clients connect again.
Reload ==
    /\ Reloads
    /\ ~shutdown
    /\ players' = [s \in Slot |-> Nobody]
    /\ logins' = << >>
    /\ UNCHANGED <<queue, tables, failMode, shutdown>>

\* The end of CServer::Run: all clients have been dropped, the queue closes.
Shutdown ==
    /\ ~shutdown
    /\ \A s \in Slot : ~players[s].here
    /\ shutdown' = TRUE
    /\ UNCHANGED <<players, queue, logins, tables, failMode>>
-----------------------------------------------------------------------------
\* The end of a job: its result, if anybody still holds it, is completed.  The
\* results of login jobs older than a map change are gone.
Pending == {k \in 1..Len(logins) : logins[k].state = "pending"}
Answerable == Head(queue).kind = "login" /\ Cardinality(Kinds("login")) = Cardinality(Pending)
Completed(state, acc) ==
    LET first == CHOOSE k \in Pending : \A j \in Pending : k <= j
    IN  [logins EXCEPT ![first].state = state, ![first].acc = acc]

\* Slip: only a successful result is completed.
AnswerSuccess(state, acc) ==
    IF Answerable /\ state = "successful" THEN Completed(state, acc) ELSE logins

Answer(state, acc) == IF Answerable THEN Completed(state, acc) ELSE logins

Finish(ok, state, acc) ==
    /\ queue' = Tail(queue)
    /\ logins' = Answer(state, acc)
    /\ failMode' = (failMode \/ ~ok)
    /\ UNCHANGED <<players, shutdown>>

\* READ_ACCESS in fail mode or during shutdown: nothing is run.
Dismiss ==
    /\ queue # << >>
    /\ failMode \/ shutdown
    /\ Finish(FALSE, "failed", Blank)
    /\ UNCHANGED tables

Running(kind) == queue # << >> /\ Head(queue).kind = kind /\ ~failMode /\ ~shutdown

\* Below, stop counts the statements of the job that are run; without a fault
\* these are all the statements on its path.

\* The rows SELECT finds for a name.
\* Slip: only accounts with their row of upgrades count.
RegisteredFully(n) == {i \in 1..Len(users) : users[i].name = n /\ upgr[i] # NoRow}

Registered(n) == {i \in 1..Len(users) : users[i].name = n}
\* RegisterThread: count, insert into users, select the id, insert into u_upgr.
RunRegister(stop) ==
    /\ Running("register")
    /\ LET n == Head(queue).name
           row == [name |-> n, money |-> 0, clan |-> 0, lang |-> 0]
           taken == Registered(n) # {}
       IN  /\ taken => stop <= 1
           /\ Faults \/ stop = 4 \/ (taken /\ stop = 1)
           /\ users' = IF stop >= 2 THEN Append(users, row) ELSE users
           /\ upgr' = IF stop >= 4 THEN [upgr EXCEPT ![Len(users) + 1] = 0] ELSE upgr
           /\ Finish(stop = 4 \/ (taken /\ stop = 1), "failed", Blank)
    /\ UNCHANGED <<inv, works>>

\* Slip: LoginThread does not ask whether there is a row of upgrades.
LoadableAlways(id) == id # 0

Loadable(id) == upgr[id] # NoRow

\* LoginThread: users, u_inv, u_works, u_upgr.  A fault in the loop over the
\* items or the works ends the loop, and what it has read so far counts.
RunLogin(stop, items, work) ==
    /\ Running("login")
    /\ LET job == Head(queue)
           found == {i \in Registered(job.name) : job.right}
           id == CHOOSE i \in found : TRUE
           acc == [name |-> job.name, id |-> id, money |-> users[id].money,
                   clan |-> users[id].clan, lang |-> users[id].lang,
                   inv |-> items, work |-> work, upg |-> upgr[id]]
       IN  IF stop < 4 /\ ~(stop = 1 /\ found = {})
           THEN Faults /\ Finish(FALSE, "failed", Blank)
           ELSE IF found = {} \/ ~Loadable(id)
           THEN Finish(TRUE, "failed", Blank)
           ELSE /\ items \subseteq inv[id] /\ work \in {0, works[id]}
                /\ Faults \/ (items = inv[id] /\ work = works[id])
                /\ Finish(TRUE, "successful", acc)
    /\ UNCHANGED tables

\* SaveThread: users, u_inv (delete, insert), u_works (delete, insert), u_upgr.
\* The parameters of the first statement are bound one place off: clan_id gets
\* the id, language the clan, and the row is the one whose id is the language.
RunSave(stop, items) ==
    /\ Running("save")
    /\ LET acc == Head(queue).acc
           row == [users[acc.lang] EXCEPT !.money = acc.money, !.clan = acc.id, !.lang = acc.clan]
       IN  /\ Faults \/ stop = 6
           /\ items \subseteq acc.inv
           /\ stop >= 3 => items = acc.inv
           /\ users' = IF stop >= 1 /\ acc.lang \in 1..Len(users)
                       THEN [users EXCEPT ![acc.lang] = row] ELSE users
           /\ inv' = IF stop >= 2 THEN [inv EXCEPT ![acc.id] = items] ELSE inv
           /\ works' = IF stop >= 4
                       THEN [works EXCEPT ![acc.id] = IF stop = 4 THEN 0 ELSE acc.work]
                       ELSE works
           /\ upgr' = IF stop >= 6 /\ upgr[acc.id] # NoRow
                      THEN [upgr EXCEPT ![acc.id] = acc.upg] ELSE upgr
    /\ Finish(stop = 6, "failed", Blank)

RunJob ==
    \/ Dismiss
    \/ \E stop \in 0..4 : RunRegister(stop)
    \/ \E stop \in 0..4, items \in SUBSET Item, work \in Value : RunLogin(stop, items, work)
    \/ \E stop \in 0..6, items \in SUBSET Item : RunSave(stop, items)

\* The worker leaves fail mode when it sees nothing to do.
Recover ==
    /\ failMode
    /\ failMode' = FALSE
    /\ UNCHANGED <<players, queue, logins, tables, shutdown>>
-----------------------------------------------------------------------------
Players ==
    \/ \E s \in Slot : Connect(s) \/ Drop(s)
    \/ \E s \in Slot, n \in Login : ChatRegister(s, n)
    \/ \E s \in Slot, n \in Login, right \in BOOLEAN : ChatLogin(s, n, right)

ItemPlay == \E s \in Slot, it \in Item : GiveItem(s, it) \/ RemItem(s, it)

Gameplay ==
    \/ ItemPlay
    \/ \E s \in Slot, levelUp \in BOOLEAN : AddWorkEXP(s, levelUp)
    \/ \E s \in Slot : AddMoney(s) \/ AddEXP(s)
    \/ \E s \in Slot, lang \in Id \cap {0, 1} : ChatLang(s, lang)
    \/ \E s \in Slot, clan \in Id \ {0} : AcceptInvite(s, clan)

Next ==
    \/ Players
    \/ Gameplay
    \/ \E autosave \in BOOLEAN : OnTick(autosave)
    \/ Reload
    \/ Shutdown
    \/ RunJob
    \/ Recover

SafeSpec == Init /\ [][Next]_vars

\* The worker thread runs, and so does the main loop, which calls OnTick fifty
\* times a second.  Nobody has to play.
Spec == SafeSpec /\ WF_vars(RunJob) /\ WF_vars(OnTick(FALSE))
-----------------------------------------------------------------------------
\* The variables stay what the code's types and the bounds make them.
TypeOK ==
    /\ players \in [Slot -> Player]
    /\ queue \in Seq(Job) /\ Len(queue) <= MaxJobs
    /\ logins \in Seq(LoginResult)
    /\ users \in Seq([name : Name, money : Value, clan : Id, lang : Id])
    /\ Len(users) <= MaxUsers
    /\ inv \in [Id -> SUBSET Item]
    /\ works \in [Id -> Value]
    /\ upgr \in [Id -> Value \cup {NoRow}]
    /\ failMode \in BOOLEAN
    /\ shutdown \in BOOLEAN

\* Two accounts never share a name, although the check and the insertion are
\* separate statements of RegisterThread, either of which may fail.
UniqueNames ==
    \A i, j \in 1..Len(users) : users[i].name = users[j].name => i = j

\* Whoever is logged in plays an account that LoginThread found complete: a row
\* of users with his name, and the row of upgrades that SaveThread updates.
SessionsComplete ==
    \A s \in Slot : players[s].loggedIn =>
        LET acc == players[s].acc
        IN  /\ acc.id \in 1..Len(users)
            /\ users[acc.id].name = acc.name
            /\ upgr[acc.id] # NoRow

\* "Account is already in use.": Login never leaves two players logged in to
\* the same account.
OneSession ==
    \A s, t \in Slot :
        players[s].loggedIn /\ players[t].loggedIn /\ players[s].acc.name = players[t].acc.name
            => s = t

\* The same of the accounts whose name no longer login is cut to.  A login that
\* is cut is compared uncut, so that its account is never found in use.
OneShortSession ==
    \A s, t \in Slot :
        players[s].loggedIn /\ players[t].loggedIn /\ players[s].acc.name = players[t].acc.name
            => s = t \/ ~Short(players[s].acc.name)

\* What an account owns: what its player has in hand, or else what the last
\* save still in the queue will store, or else what is stored.
Playing(i) == {s \in Slot : players[s].loggedIn /\ players[s].acc.id = i}
Saving(i) == {k \in Kinds("save") : queue[k].acc.id = i}
Owned(i) ==
    LET latest == IF Playing(i) # {} THEN players[CHOOSE s \in Playing(i) : TRUE].acc
                  ELSE queue[CHOOSE k \in Saving(i) : \A j \in Saving(i) : j <= k].acc
    IN  IF Playing(i) \cup Saving(i) # {}
        THEN <<latest.inv, latest.work, latest.upg>>
        ELSE <<inv[i], works[i], upgr[i]>>

\* Nothing but gameplay and a change of the map changes the items, works and
\* upgrades an account owns: not the saves and logins that pass each other in the
\* queue, not leaving and coming back on another slot, not the erasing loop of
\* OnTick, and not the jobs that a change of the map has left without results.
\* The accounts whose name a longer login is cut to are excepted, for two players
\* may share one.
Conserved ==
    [][~shutdown /\ ~Gameplay /\ ~Reload =>
          \A i \in 1..Len(users) : Short(users[i].name) => Owned(i)' = Owned(i)]_vars

\* A client that waits for the answer to its login gets it: OnTick passes over
\* results, but none for ever.
LoginAnswered == \A s \in Slot : []<>(~Waiting(s) \/ shutdown)

\* "Save new clan id": a save that runs to its end stores the clan of the player
\* in the row of his account.
ClanStored ==
    [][queue # << >> =>
          LET acc == Head(queue).acc
          IN  acc.id # 0 /\ RunSave(6, acc.inv) => users'[acc.id].clan = acc.clan]_vars
=============================================================================

------------------------------ MODULE Inventory ------------------------------
(***************************************************************************)
(* What players own and how it changes (game/server/mmo/mmo_core.cpp,      *)
(* common/box.cpp, account_data.h, player.cpp): items, money, experience,  *)
(* upgrades, what is worn, the pet that follows, and what lies on the      *)
(* ground.  The commands come from the vote menu, which offers "use" for   *)
(* items of use, "put on" for what can be worn, and the shop and crafting  *)
(* to whoever saw their menu last.                                         *)
(*                                                                         *)
(* Players are logged in.  Numbers are ints and wrap around.  An inventory   *)
(* is a function: a vector never holds an item twice, AddItem sees to it.  *)
(***************************************************************************)
EXTENDS Integers, Sequences, FiniteSets

CONSTANTS
    Client,     \* the players
    Item,       \* the items of items.xml
    TypeOf,     \* m_Type of an item
    MaxCountOf, \* m_MaxCount of an item, -1 for no limit
    NotDroppable,
    Food,       \* experience that items of use give
    Bags,       \* items of use that give money
    Boxes,      \* items of use to what opening one gives, pairs <<item, count>>
    MaxOpened,  \* how many boxes have something at once, 50 in the code
    Resets,     \* items of use that reset the upgrades
    Material,   \* the item that the shop takes for money
    Shop,       \* shop.xml: item to cost and level
    Crafts,     \* crafts.xml: product to the counts of its ingredients
    Harvest,    \* pairs <<item, count>> that working and money bags give
    Upgrade,    \* the upgrades that are bought
    Counts,     \* numbers players write as the reason of a vote
    Half,       \* half the number of values of an int
    MaxGain,    \* bound on the items of a kind that are got at once
    MaxHeld,    \* bound on the number of items without limit that a player has
    MaxMoney,   \* bound on the money of a player
    MaxLevel,   \* bound on the level of a player
    MaxDrops    \* bound on the items on the ground

Use == "use"
Pet == "pet"
Wearable == {"body", "feet", Pet}

ASSUME InventoryAssumption ==
    /\ IsFiniteSet(Client) /\ IsFiniteSet(Item) /\ IsFiniteSet(Upgrade)
    /\ TypeOf \in [Item -> Wearable \cup {Use, "other"}]
    /\ MaxCountOf \in [Item -> {-1} \cup (Nat \ {0})]
    /\ NotDroppable \subseteq Item /\ Resets \subseteq Item /\ Bags \subseteq Item
    /\ Material \in Item
    /\ Harvest \subseteq Item \X (Nat \ {0})
    /\ DOMAIN Crafts \subseteq Item
    /\ \A i \in DOMAIN Crafts :
          DOMAIN Crafts[i] \subseteq Item /\ \A j \in DOMAIN Crafts[i] : Crafts[i][j] \in Nat \ {0}
    /\ \A i \in DOMAIN Shop : Shop[i].cost \in Nat
    /\ \A i \in DOMAIN Food : Food[i] \in Nat
    /\ Counts \subseteq Nat \ {0}
    /\ {Half, MaxGain, MaxHeld, MaxMoney, MaxLevel, MaxDrops, MaxOpened} \subseteq Nat
    /\ MaxLevel > 0 /\ MaxHeld < Half /\ MaxMoney < Half
    /\ \A i \in Item : MaxCountOf[i] + MaxGain < Half

VARIABLES
    inv,    \* m_AccInv: count of each item, 0 if it is not there, and m_Data, whether it is worn
    wallet, \* m_Money, m_EXP and m_Level of m_AccData
    up,     \* m_AccUp: the upgrade points and the upgrades
    alive,  \* whether the player has a character
    pet,    \* m_pPet: whether a pet follows the player
    ground  \* the items that lie around, CPickupPhys

vars == <<inv, wallet, up, alive, pet, ground>>

Wrap(n) == ((n + Half) % (2 * Half)) - Half
Min2(a, b) == IF a < b THEN a ELSE b

Sum(f, S) ==
    LET sum[T \in SUBSET S] ==
            IF T = {} THEN 0 ELSE LET t == CHOOSE t \in T : TRUE IN f[t] + sum[T \ {t}]
    IN  sum[S]

Nothing == [count |-> 0, worn |-> FALSE]

Init ==
    /\ inv = [c \in Client |-> [i \in Item |-> Nothing]]
    /\ wallet = [c \in Client |-> [money |-> 0, exp |-> 0, level |-> 1]]
    /\ up = [c \in Client |-> [points |-> 0, bought |-> [u \in Upgrade |-> 0]]]
    /\ alive = [c \in Client |-> FALSE]
    /\ pet = [c \in Client |-> FALSE]
    /\ ground = << >>
-----------------------------------------------------------------------------
\* CAccountInventory::RemItem: nothing is left of an item with a count of zero
\* or less, and nothing if the number to remove is -1.
RemItem(bag, i, n) ==
    IF bag[i].count = 0 THEN bag
    ELSE IF n = -1 \/ Wrap(bag[i].count - n) <= 0 THEN [bag EXCEPT ![i] = Nothing]
    ELSE [bag EXCEPT ![i].count = Wrap(@ - n)]

\* Slip: the limit is compared with what is held alone.
GiveItemOver(bag, i, n) ==
    IF bag[i].count = MaxCountOf[i] THEN bag
    ELSE [bag EXCEPT ![i].count = Wrap(@ + n)]

\* GiveItem: as much as the limit of the item allows; what exceeds it is lost.
GiveItem(bag, i, n) ==
    LET held == bag[i].count
        most == MaxCountOf[i]
    IN  IF held = most THEN bag
        ELSE [bag EXCEPT ![i].count =
                Wrap(held + (IF most # -1 /\ Wrap(held + n) > most THEN most - held ELSE n))]

\* What the bounds of the model allow to put into a bag, and to get from
\* outside.
Fits(bag, i, n) ==
    /\ n \in 1..MaxGain
    /\ MaxCountOf[i] = -1 => bag[i].count + n <= MaxHeld

Holds(c, i, n) ==
    LET unlimited == {j \in Item : MaxCountOf[j] = -1}
    IN  /\ Fits(inv[c], i, n)
        /\ i \in unlimited => n + Sum([j \in Item |-> inv[c][j].count], unlimited) <= MaxHeld

WornOf(bag, type) == {i \in Item : TypeOf[i] = type /\ bag[i].worn}

\* ResetTeeInfo: the pet comes and goes, if there is a character.
PetAfter(c, bag) ==
    IF ~alive[c] THEN pet[c] ELSE WornOf(bag, Pet) # {}
-----------------------------------------------------------------------------
\* GetExpForLevelUp.
GetExpForLevelUp(level) ==
    LET steps == {<<0, 250>>, <<100, 700>>, <<200, 1000>>, <<300, 1500>>, <<400, 2500>>,
                  <<500, 4000>>, <<600, 6000>>, <<700, 8000>>, <<1000, 12000>>,
                  <<1100, 13000>>, <<1200, 14000>>}
        passed == {s \in steps : level > s[1]}
    IN  level * (CHOOSE s \in passed : \A t \in passed : t[1] <= s[1])[2]

\* AddEXP: the loop that turns experience into levels.  The clan's bonus is
\* left out: food has none.
AddEXP(purse, gain) ==
    LET LevelUp[p \in [money : Int, exp : Int, level : Nat \ {0}]] ==
            LET need == GetExpForLevelUp(p.level)
            IN  IF p.level > MaxLevel \/ p.exp < need THEN p
                ELSE LevelUp[[p EXCEPT !.exp = @ - need, !.level = @ + 1]]
    IN  LevelUp[[purse EXCEPT !.exp = Wrap(@ + gain)]]

\* GetUpgradeCost.
GetUpgradeCost(u) == IF u = "spray" THEN 30 ELSE IF u \in {"damage", "ammo", "fire_speed"} THEN 2 ELSE 1

Spent(bought) == Sum([u \in Upgrade |-> bought[u] * GetUpgradeCost(u)], Upgrade)
-----------------------------------------------------------------------------
\* The head of UseItem: the count is clamped to what there is.
Using(c, i, n) == /\ TypeOf[i] = Use
                  /\ inv[c][i].count # 0
                  /\ n \in {Min2(m, inv[c][i].count) : m \in Counts}
Used(c, i, n) == inv' = [inv EXCEPT ![c] = RemItem(@, i, n)]

\* Food.  Each level brings two upgrade points.
Eat(c, i, n) ==
    /\ i \in DOMAIN Food
    /\ Using(c, i, n)
    /\ LET fed == AddEXP(wallet[c], Food[i] * n)
       IN  /\ fed.level <= MaxLevel
           /\ wallet' = [wallet EXCEPT ![c] = fed]
           /\ up' = [up EXCEPT ![c].points = @ + 2 * (fed.level - wallet[c].level)]
    /\ Used(c, i, n)
    /\ UNCHANGED <<alive, pet, ground>>

\* A bag of money: one to five for each.
OpenBag(c, i, n) ==
    /\ i \in Bags
    /\ Using(c, i, n)
    /\ \E r \in 1..5 :
          /\ wallet[c].money + r * n <= MaxMoney
          /\ wallet' = [wallet EXCEPT ![c].money = Wrap(@ + r * n)]
    /\ Used(c, i, n)
    /\ UNCHANGED <<up, alive, pet, ground>>

\* CBox::Open: each box has one of its contents, which are added up by item and
\* given at the end; of more than MaxOpened boxes MaxOpened have something.
Loot(i, n) ==
    {f \in [Boxes[i] -> 0..Min2(n, MaxOpened)] : Sum(f, Boxes[i]) = Min2(n, MaxOpened)}

OpenBox(c, i, n) ==
    /\ i \in DOMAIN Boxes
    /\ Using(c, i, n)
    /\ \E f \in Loot(i, n) :
          LET got == [j \in Item |-> Sum([p \in Boxes[i] |-> IF p[1] = j THEN p[2] * f[p] ELSE 0], Boxes[i])]
              bag == [j \in Item |-> IF got[j] = 0 THEN inv[c][j] ELSE GiveItem(inv[c], j, got[j])[j]]
          IN  /\ \A j \in Item : got[j] # 0 => Holds(c, j, got[j])
              /\ inv' = [inv EXCEPT ![c] = RemItem(bag, i, n)]
    /\ UNCHANGED <<wallet, up, alive, pet, ground>>

\* Slip: every upgrade gives one point back.
UseResetCheaply(c, i, n) ==
    /\ i \in Resets
    /\ Using(c, i, n)
    /\ up' = [up EXCEPT ![c] = [points |-> Wrap(@.points + Sum(@.bought, Upgrade)),
                                bought |-> [u \in Upgrade |-> 0]]]
    /\ Used(c, i, 1)
    /\ UNCHANGED <<wallet, alive, pet, ground>>

\* The item that resets the upgrades; one of them is used up.
UseReset(c, i, n) ==
    /\ i \in Resets
    /\ Using(c, i, n)
    /\ up' = [up EXCEPT ![c] = [points |-> Wrap(@.points + Spent(@.bought)),
                                bought |-> [u \in Upgrade |-> 0]]]
    /\ Used(c, i, 1)
    /\ UNCHANGED <<wallet, alive, pet, ground>>

\* "upgr": the cost is a product of two ints.
BuyUpgrade(c, u, n) ==
    /\ LET cost == Wrap(GetUpgradeCost(u) * n)
       IN  /\ cost <= up[c].points
           /\ up' = [up EXCEPT ![c].points = Wrap(@ - cost), ![c].bought[u] = Wrap(@ + n)]
    /\ UNCHANGED <<inv, wallet, alive, pet, ground>>

\* Slip: the level alone is asked for.
BuyItemOnCredit(c, i) ==
    /\ i \in DOMAIN Shop
    /\ wallet[c].level >= Shop[i].level
    /\ Holds(c, i, 1)
    /\ inv' = [inv EXCEPT ![c] = GiveItem(@, i, 1)]
    /\ wallet' = [wallet EXCEPT ![c].money = Wrap(@ - Shop[i].cost)]
    /\ UNCHANGED <<up, alive, pet, ground>>

\* BuyItem: the money is taken even if there was no room for the item.
BuyItem(c, i) ==
    /\ i \in DOMAIN Shop
    /\ wallet[c].level >= Shop[i].level
    /\ wallet[c].money >= Shop[i].cost
    /\ Holds(c, i, 1)
    /\ inv' = [inv EXCEPT ![c] = GiveItem(@, i, 1)]
    /\ wallet' = [wallet EXCEPT ![c].money = Wrap(@ - Shop[i].cost)]
    /\ UNCHANGED <<up, alive, pet, ground>>

\* CraftItem: likewise for the ingredients.  Each product is an int.
CraftItem(c, i, n) ==
    /\ i \in DOMAIN Crafts
    /\ LET need == Crafts[i]
           bag == [j \in Item |-> IF j \in DOMAIN need THEN RemItem(inv[c], j, Wrap(need[j] * n))[j]
                                  ELSE inv[c][j]]
       IN  /\ \A j \in DOMAIN need : inv[c][j].count >= Wrap(need[j] * n)
           /\ Fits(bag, i, n)
           /\ inv' = [inv EXCEPT ![c] = GiveItem(bag, i, n)]
    /\ UNCHANGED <<wallet, up, alive, pet, ground>>
-----------------------------------------------------------------------------
\* Slip: the old thing is kept on.
SetEquippedItemKeepsOld(c, i) ==
    /\ TypeOf[i] \in Wearable
    /\ inv[c][i].count # 0
    /\ inv' = [inv EXCEPT ![c][i].worn = ~@]
    /\ pet' = [pet EXCEPT ![c] = PetAfter(c, inv'[c])]
    /\ UNCHANGED <<wallet, up, alive, ground>>

\* "inv_item_eqp": what is worn of that type is put off, and the item is put on
\* if nothing was worn.  The menu may be older than the loss of the item: then
\* the old thing is put off all the same, and the pet is not looked at.
SetEquippedItem(c, i) ==
    /\ TypeOf[i] \in Wearable
    /\ LET worn == WornOf(inv[c], TypeOf[i])
           off == [j \in Item |-> [inv[c][j] EXCEPT !.worn = @ /\ j \notin worn]]
       IN  IF inv[c][i].count = 0
           THEN inv' = [inv EXCEPT ![c] = off] /\ pet' = pet
           ELSE /\ inv' = [inv EXCEPT ![c] = [off EXCEPT ![i].worn = (worn = {})]]
                /\ pet' = [pet EXCEPT ![c] = PetAfter(c, inv'[c])]
    /\ UNCHANGED <<wallet, up, alive, ground>>

\* Slip: what is dropped is clamped on the ground only.
DropItemUnclamped(c, i, n) ==
    /\ alive[c]
    /\ i \notin NotDroppable
    /\ inv[c][i].count # 0
    /\ Len(ground) < MaxDrops
    /\ ground' = Append(ground, [item |-> i, count |-> n])
    /\ inv' = [inv EXCEPT ![c] = RemItem(@, i, n)]
    /\ UNCHANGED <<wallet, up, alive, pet>>

\* DropItem.  A pet whose item is dropped goes on following.
DropItem(c, i, n) ==
    /\ alive[c]
    /\ i \notin NotDroppable
    /\ inv[c][i].count # 0
    /\ Len(ground) < MaxDrops
    /\ ground' = Append(ground, [item |-> i, count |-> Min2(n, inv[c][i].count)])
    /\ inv' = [inv EXCEPT ![c] = RemItem(@, i, Min2(n, inv[c][i].count))]
    /\ UNCHANGED <<wallet, up, alive, pet>>

Without(k) == [j \in 1..(Len(ground) - 1) |-> ground[IF j < k THEN j ELSE j + 1]]

\* FireWeapon, the hammer: the closest item is taken, and gone even if there was
\* no room for it.
PickUp(c, k) ==
    /\ alive[c]
    /\ Holds(c, ground[k].item, ground[k].count)
    /\ inv' = [inv EXCEPT ![c] = GiveItem(@, ground[k].item, ground[k].count)]
    /\ ground' = Without(k)
    /\ UNCHANGED <<wallet, up, alive, pet>>

\* CPickupPhys::Tick, fifteen seconds later.
Vanish(k) ==
    /\ ground' = Without(k)
    /\ UNCHANGED <<inv, wallet, up, alive, pet>>

\* CPickupJob::Damage and CMoneyBag::Tick: vegetables, ores, wood, boxes,
\* materials, bags of money.
Work(c, what) ==
    /\ alive[c]
    /\ Holds(c, what[1], what[2])
    /\ inv' = [inv EXCEPT ![c] = GiveItem(@, what[1], what[2])]
    /\ UNCHANGED <<wallet, up, alive, pet, ground>>

\* HandleMMOTile, the tile before the shop: ten materials are worth one.
SellMaterial(c) ==
    /\ alive[c]
    /\ inv[c][Material].count > 0
    /\ LET paid == inv[c][Material].count \div 10
       IN  /\ wallet[c].money + paid <= MaxMoney
           /\ wallet' = [wallet EXCEPT ![c].money = Wrap(@ + paid)]
    /\ inv' = [inv EXCEPT ![c] = RemItem(@, Material, -1)]
    /\ UNCHANGED <<up, alive, pet, ground>>

\* Slip: only putting on brings a pet.
SpawnAlone(c) ==
    /\ ~alive[c]
    /\ alive' = [alive EXCEPT ![c] = TRUE]
    /\ UNCHANGED <<inv, wallet, up, pet, ground>>

\* CCharacter::Spawn, which ends with ResetTeeInfo.
Spawn(c) ==
    /\ ~alive[c]
    /\ alive' = [alive EXCEPT ![c] = TRUE]
    /\ pet' = [pet EXCEPT ![c] = WornOf(inv[c], Pet) # {}]
    /\ UNCHANGED <<inv, wallet, up, ground>>

Die(c) ==
    /\ alive[c]
    /\ alive' = [alive EXCEPT ![c] = FALSE]
    /\ UNCHANGED <<inv, wallet, up, pet, ground>>
-----------------------------------------------------------------------------
\* What makes something out of nothing, or out of boxes and work.
Earn ==
    \/ \E c \in Client, what \in Harvest : Work(c, what)
    \/ \E c \in Client, i \in Item, n \in 1..MaxHeld : OpenBag(c, i, n) \/ OpenBox(c, i, n)

Next ==
    \/ Earn
    \/ \E c \in Client, i \in Item, n \in 1..MaxHeld : Eat(c, i, n) \/ UseReset(c, i, n)
    \/ \E c \in Client, u \in Upgrade, n \in Counts : BuyUpgrade(c, u, n)
    \/ \E c \in Client, i \in Item : BuyItem(c, i) \/ SetEquippedItem(c, i)
    \/ \E c \in Client, i \in Item, n \in Counts : CraftItem(c, i, n) \/ DropItem(c, i, n)
    \/ \E c \in Client, k \in 1..Len(ground) : PickUp(c, k)
    \/ \E k \in 1..Len(ground) : Vanish(k)
    \/ \E c \in Client : SellMaterial(c) \/ Spawn(c) \/ Die(c)

Spec == Init /\ [][Next]_vars
-----------------------------------------------------------------------------
IntRange == -Half..(Half - 1)

\* Numbers fit an int, and money and experience are never below zero.
TypeOK ==
    /\ inv \in [Client -> [Item -> [count : IntRange, worn : BOOLEAN]]]
    /\ wallet \in [Client -> [money : IntRange \cap Nat, exp : IntRange \cap Nat, level : 1..MaxLevel]]
    /\ up \in [Client -> [points : IntRange, bought : [Upgrade -> IntRange]]]
    /\ alive \in [Client -> BOOLEAN] /\ pet \in [Client -> BOOLEAN]
    /\ \A k \in 1..Len(ground) : ground[k] \in [item : Item, count : IntRange]

\* No item is held more often than items.xml allows or less than not at all,
\* whichever way it came: work, boxes, the shop, the ground, or crafts of counts
\* whose product with the recipe fits an int, as those of the instance do:
\* CraftItem wraps around beyond.
CountsInRange ==
    \A c \in Client, i \in Item :
        inv[c][i].count >= 0 /\ (MaxCountOf[i] # -1 => inv[c][i].count <= MaxCountOf[i])

\* At most one thing of each type is worn, and it is there: GetEquippedItem
\* finds the first and SetEquippedItem puts only one off.  That it is there needs
\* crafts whose products fit an int, like CountsInRange.
OneWorn ==
    \A c \in Client :
        /\ \A type \in Wearable : Cardinality(WornOf(inv[c], type)) <= 1
        /\ \A i \in Item : inv[c][i].worn => inv[c][i].count > 0

\* Who wears a pet and lives is followed by one, whether it was put on before
\* or after his character came.
PetFollows ==
    \A c \in Client : alive[c] /\ WornOf(inv[c], Pet) # {} => pet[c]

\* The points that levels brought are all there, unspent or in upgrades, and
\* none is spent twice, however upgrades and resets follow each other.  This
\* is so for counts whose product with the cost fits an int, as those of the
\* instance do: BuyUpgrade wraps around beyond.
PointsKept ==
    \A c \in Client :
        /\ up[c].points >= 0
        /\ up[c].points + Spent(up[c].bought) = 2 * (wallet[c].level - 1)

\* The worth of what all have and of what lies around: items made by crafting
\* are worth their ingredients, those of the shop their cost, others one.
Worth == [i \in Item |->
    IF i \in DOMAIN Crafts
    THEN Sum(Crafts[i], DOMAIN Crafts[i])
    ELSE IF i \in DOMAIN Shop THEN Shop[i].cost ELSE 1]
TotalWorth ==
    Sum([c \in Client |-> wallet[c].money + Sum([i \in Item |-> inv[c][i].count * Worth[i]], Item)], Client)
        + Sum([k \in 1..Len(ground) |-> ground[k].count * Worth[ground[k].item]], 1..Len(ground))

\* What keeps the products of the code in an int, and what keeps trade fair:
\* players write no counts beyond, and the tables are as the ones of the game.
SmallCrafts ==
    \A i \in DOMAIN Crafts : \A j \in DOMAIN Crafts[i], n \in Counts : Crafts[i][j] * n < Half
SmallUpgrades ==
    /\ \A u \in Upgrade, n \in Counts : GetUpgradeCost(u) * n < Half
    /\ 2 * (MaxLevel - 1) < Half
SmallMeals ==
    \A i \in DOMAIN Food, n \in 1..MaxHeld, level \in 1..MaxLevel :
        Food[i] * n + GetExpForLevelUp(level) <= Half
FairPrices ==
    /\ \A i \in DOMAIN Shop \cap Item : Worth[i] <= Shop[i].cost
    /\ \A i \in DOMAIN Crafts : \A j \in DOMAIN Crafts[i] : Worth[j] >= 1
    /\ Worth[Material] >= 1

\* Crafting, trading, dropping and picking up make nobody richer: all of them
\* take before they give, and take as often, for counts whose products fit an
\* int and prices that are fair.  CraftItem does not look whether they do.
NothingForFree == [][TotalWorth' <= TotalWorth \/ Earn]_vars
=============================================================================

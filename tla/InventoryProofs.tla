-------------------------- MODULE InventoryProofs --------------------------
(***************************************************************************)
(* Theorems about Inventory, for every number of players, every set of     *)
(* items, shops and crafts, and every bound.                               *)
(***************************************************************************)
EXTENDS Inventory, NumberFacts, SequenceTheorems

Entry == [count : IntRange, worn : BOOLEAN]
Bag == [Item -> Entry]
Thing == [item : Item, count : IntRange]

LEMMA Limits ==
    /\ MaxGain \in Nat /\ MaxHeld \in Nat /\ Half \in Nat /\ MaxHeld < Half /\ Half > 0
    /\ \A i \in Item : /\ MaxCountOf[i] = -1 \/ MaxCountOf[i] \in Nat
                       /\ MaxCountOf[i] + MaxGain < Half
    /\ Nothing \in Entry
<1>1. /\ MaxGain \in Nat /\ MaxHeld \in Nat /\ Half \in Nat /\ MaxHeld < Half /\ Half > 0
      /\ \A i \in Item : /\ MaxCountOf[i] = -1 \/ MaxCountOf[i] \in Nat
                         /\ MaxCountOf[i] + MaxGain < Half
  BY InventoryAssumption
<1>2. 0 \in IntRange
  BY <1>1 DEF IntRange
<1> QED
  BY <1>1, <1>2 DEF Nothing, Entry

\* A count is an int.
LEMMA EntryFacts ==
    \A e \in Entry : e.count \in Int /\ -Half <= e.count /\ e.count < Half /\ e.worn \in BOOLEAN
BY Limits DEF Entry, IntRange

\* Arithmetic of ints: a number, and the number itself if it fits.
LEMMA WrapFacts ==
    ASSUME NEW n \in Int
    PROVE  Wrap(n) \in Int /\ Wrap(n) \in IntRange /\ (n \in IntRange => Wrap(n) = n)
<1>1. Half \in Nat /\ 2 * Half > 0
  BY Limits
<1>2. (n + Half) % (2 * Half) \in Int /\ (n + Half) % (2 * Half) \in 0..(2 * Half - 1)
  BY <1>1
<1>3. ASSUME n \in IntRange PROVE (n + Half) % (2 * Half) = n + Half
  BY <1>1, <1>3 DEF IntRange
<1> QED
  BY <1>1, <1>2, <1>3 DEF Wrap, IntRange

\* What a bag looks like after something was removed from it or put into it:
\* all else is as before, and nothing is put on.
LEMMA RemItemShape ==
    ASSUME NEW bag \in Bag, NEW i \in Item, NEW n \in Int
    PROVE  /\ RemItem(bag, i, n) \in Bag
           /\ \A j \in Item \ {i} : RemItem(bag, i, n)[j] = bag[j]
           /\ RemItem(bag, i, n)[i] \in {bag[i], Nothing, [bag[i] EXCEPT !.count = Wrap(bag[i].count - n)]}
<1>1. bag[i] \in Entry /\ bag[i].count \in Int
  BY EntryFacts DEF Bag
<1>2. Wrap(bag[i].count - n) \in IntRange
  BY <1>1, WrapFacts
<1>3. [bag[i] EXCEPT !.count = Wrap(bag[i].count - n)] \in Entry
  BY <1>1, <1>2 DEF Entry
<1> QED
  BY <1>1, <1>3, Limits DEF RemItem, Bag

LEMMA GiveItemShape ==
    ASSUME NEW bag \in Bag, NEW i \in Item, NEW n \in Int
    PROVE  /\ GiveItem(bag, i, n) \in Bag
           /\ \A j \in Item \ {i} : GiveItem(bag, i, n)[j] = bag[j]
           /\ \A j \in Item : GiveItem(bag, i, n)[j].worn = bag[j].worn
<1> DEFINE m == IF MaxCountOf[i] # -1 /\ Wrap(bag[i].count + n) > MaxCountOf[i]
                THEN MaxCountOf[i] - bag[i].count ELSE n
           e == [bag[i] EXCEPT !.count = Wrap(bag[i].count + m)]
<1>1. bag[i] \in Entry /\ bag[i].count \in Int /\ m \in Int
  BY Limits, EntryFacts DEF Bag
<1>2. e \in Entry /\ e.worn = bag[i].worn
  <2>1. bag[i].count + m \in Int
    BY <1>1
  <2> HIDE DEF m
  <2>2. Wrap(bag[i].count + m) \in IntRange
    BY <2>1, WrapFacts
  <2> QED
    BY <1>1, <2>2 DEF Entry
<1>3. GiveItem(bag, i, n) = IF bag[i].count = MaxCountOf[i] THEN bag ELSE [bag EXCEPT ![i] = e]
  BY DEF GiveItem
<1> HIDE DEF e
<1> QED
  BY <1>1, <1>2, <1>3 DEF Bag
-----------------------------------------------------------------------------
\* An entry within the limit of its item, and a bag of such entries.
GoodEntry(i, e) ==
    /\ e.count >= 0
    /\ e.count <= IF MaxCountOf[i] = -1 THEN MaxHeld ELSE MaxCountOf[i]
    /\ e.worn => e.count > 0

Good(bag) == \A i \in Item : GoodEntry(i, bag[i])

LEMMA RemItemGood ==
    ASSUME NEW bag \in Bag, NEW i \in Item, NEW n \in Int, Good(bag), n = -1 \/ n \in 1..(Half - 1)
    PROVE  Good(RemItem(bag, i, n))
<1> DEFINE e == [bag[i] EXCEPT !.count = Wrap(bag[i].count - n)]
<1>1. /\ bag[i] \in Entry /\ bag[i].count \in Nat /\ GoodEntry(i, bag[i])
      /\ bag[i].count < Half
  BY EntryFacts DEF Bag, Good, GoodEntry
<1>2. GoodEntry(i, Nothing)
  BY Limits DEF GoodEntry, Nothing
<1>3. RemItem(bag, i, n) = IF bag[i].count = 0 THEN bag
                           ELSE IF n = -1 \/ Wrap(bag[i].count - n) <= 0
                                THEN [bag EXCEPT ![i] = Nothing] ELSE [bag EXCEPT ![i] = e]
  BY DEF RemItem
<1>4. ASSUME n # -1, Wrap(bag[i].count - n) > 0 PROVE GoodEntry(i, e)
  <2>1. bag[i].count - n \in IntRange /\ bag[i].count - n \in Int
    BY <1>1, <1>4, Limits DEF IntRange
  <2>2. Wrap(bag[i].count - n) = bag[i].count - n
    BY <2>1, WrapFacts
  <2>3. e.count = bag[i].count - n /\ e.worn = bag[i].worn
    BY <1>1, <2>2 DEF Entry
  <2> HIDE DEF e
  <2> QED
    BY <1>1, <1>4, <2>2, <2>3, Limits DEF GoodEntry
<1> HIDE DEF e
<1>5. \A j \in Item \ {i} : RemItem(bag, i, n)[j] = bag[j]
  BY <1>3 DEF Bag
<1>6. GoodEntry(i, RemItem(bag, i, n)[i])
  <2>1. CASE n = -1 \/ Wrap(bag[i].count - n) <= 0
    BY <1>1, <1>2, <1>3, <2>1 DEF Bag
  <2>2. CASE n # -1 /\ ~ (Wrap(bag[i].count - n) <= 0)
    <3>1. Wrap(bag[i].count - n) > 0
      BY <1>1, <2>2, WrapFacts
    <3> QED
      BY <1>1, <1>3, <1>4, <2>2, <3>1 DEF Bag
  <2> QED
    BY <2>1, <2>2
<1> QED
  BY <1>5, <1>6 DEF Good

LEMMA GiveItemGood ==
    ASSUME NEW bag \in Bag, NEW i \in Item, NEW n \in Int, Good(bag), Fits(bag, i, n)
    PROVE  Good(GiveItem(bag, i, n))
<1> DEFINE m == IF MaxCountOf[i] # -1 /\ Wrap(bag[i].count + n) > MaxCountOf[i]
                THEN MaxCountOf[i] - bag[i].count ELSE n
           e == [bag[i] EXCEPT !.count = Wrap(bag[i].count + m)]
<1>1. /\ bag[i] \in Entry /\ bag[i].count \in Nat /\ GoodEntry(i, bag[i])
      /\ n \in 1..MaxGain
  BY EntryFacts DEF Bag, Good, GoodEntry, Fits
<1>2. GiveItem(bag, i, n) = IF bag[i].count = MaxCountOf[i] THEN bag ELSE [bag EXCEPT ![i] = e]
  BY DEF GiveItem
<1>3. ASSUME bag[i].count # MaxCountOf[i] PROVE GoodEntry(i, e)
  <2>1. bag[i].count + n \in IntRange /\ bag[i].count + n \in Int
    BY <1>1, Limits DEF GoodEntry, Fits, IntRange
  <2>2. Wrap(bag[i].count + n) = bag[i].count + n
    BY <2>1, WrapFacts
  <2>3. m \in 1..n /\ (MaxCountOf[i] # -1 => bag[i].count + m <= MaxCountOf[i])
    <3>1. MaxCountOf[i] # -1 => MaxCountOf[i] \in Nat /\ bag[i].count < MaxCountOf[i]
      BY <1>1, <1>3, Limits DEF GoodEntry
    <3>2. CASE MaxCountOf[i] # -1 /\ bag[i].count + n > MaxCountOf[i]
      BY <1>1, <2>2, <3>1, <3>2, Limits
    <3>3. CASE ~ (MaxCountOf[i] # -1 /\ bag[i].count + n > MaxCountOf[i])
      <4>1. m = n
        BY <2>2, <3>3
      <4> HIDE DEF m
      <4> QED
        BY <1>1, <3>1, <3>3, <4>1, Limits
    <3> QED
      BY <3>2, <3>3
  <2> HIDE DEF m
  <2>4. bag[i].count + m \in IntRange /\ bag[i].count + m \in Int
    BY <1>1, <2>1, <2>3, Limits DEF IntRange
  <2>5. Wrap(bag[i].count + m) = bag[i].count + m
    BY <2>4, WrapFacts
  <2>6. e.count = bag[i].count + m
    BY <1>1, <2>5 DEF Entry
  <2> HIDE DEF e
  <2>7. MaxCountOf[i] = -1 => bag[i].count + m <= MaxHeld
    BY <1>1, <2>3, Limits DEF Fits
  <2> QED
    BY <1>1, <2>3, <2>6, <2>7, Limits DEF GoodEntry
<1> HIDE DEF e
<1>4. \A j \in Item \ {i} : GiveItem(bag, i, n)[j] = bag[j]
  BY <1>2 DEF Bag
<1>5. GoodEntry(i, GiveItem(bag, i, n)[i])
  BY <1>1, <1>2, <1>3 DEF Bag
<1> QED
  BY <1>4, <1>5 DEF Good
-----------------------------------------------------------------------------
(* What the steps do to bags.                                              *)

Shape ==
    /\ inv \in [Client -> Bag]
    /\ alive \in [Client -> BOOLEAN] /\ pet \in [Client -> BOOLEAN]
    /\ ground \in Seq(Thing)

\* A bag that comes of another by removing and putting in.
Follows(old, bag) ==
    /\ bag \in Bag
    /\ \A j \in Item : bag[j].worn => old[j].worn
    /\ SmallCrafts /\ Good(old) => Good(bag)

\* The bag of one player follows his old one, and his pet stays.
Handled == /\ \E c \in Client, bag \in Bag :
                 /\ inv' = [inv EXCEPT ![c] = bag]
                 /\ Follows(inv[c], bag)
           /\ UNCHANGED <<alive, pet>>

LEMMA RemItemWorn ==
    ASSUME NEW bag \in Bag, NEW i \in Item, NEW n \in Int, NEW j \in Item
    PROVE  RemItem(bag, i, n)[j].worn => bag[j].worn
<1>1. bag[i] \in Entry
  BY DEF Bag
<1>2. Nothing.worn = FALSE /\ [bag[i] EXCEPT !.count = Wrap(bag[i].count - n)].worn = bag[i].worn
  BY <1>1 DEF Nothing, Entry
<1>3. CASE j = i
  BY <1>2, <1>3, RemItemShape
<1>4. CASE j # i
  BY <1>4, RemItemShape
<1> QED
  BY <1>3, <1>4

LEMMA RemItemFollows ==
    ASSUME NEW bag \in Bag, NEW i \in Item, NEW n \in Int,
           Good(bag) => n = -1 \/ n \in 1..(Half - 1)
    PROVE  Follows(bag, RemItem(bag, i, n))
BY RemItemShape, RemItemWorn, RemItemGood DEF Follows

LEMMA GiveItemFollows ==
    ASSUME NEW bag \in Bag, NEW i \in Item, NEW n \in Int, Fits(bag, i, n)
    PROVE  Follows(bag, GiveItem(bag, i, n))
BY GiveItemShape, GiveItemGood DEF Follows

LEMMA FollowsTwice ==
    ASSUME NEW a, NEW b, NEW d, Follows(a, b), Follows(b, d)
    PROVE  Follows(a, d)
BY DEF Follows

\* Entries may be handled one by one.
LEMMA FollowsAll ==
    ASSUME NEW old \in Bag, NEW bag,
           bag = [j \in Item |-> bag[j]],
           \A j \in Item : \E b : Follows(old, b) /\ bag[j] = b[j]
    PROVE  Follows(old, bag)
<1>1. bag \in Bag
  <2>1. \A j \in Item : bag[j] \in Entry
    BY DEF Follows, Bag
  <2> QED
    BY <2>1 DEF Bag
<1>2. \A j \in Item : bag[j].worn => old[j].worn
  BY DEF Follows
<1>3. SmallCrafts /\ Good(old) => Good(bag)
  BY DEF Follows, Good
<1> QED
  BY <1>1, <1>2, <1>3 DEF Follows

LEMMA UsedIsHandled ==
    ASSUME Shape, NEW c \in Client, NEW i \in Item, NEW n \in 1..MaxHeld,
           NEW k \in {1, n}, Used(c, i, k), UNCHANGED <<alive, pet>>
    PROVE  Handled
<1>1. inv[c] \in Bag /\ k \in Int /\ k \in 1..(Half - 1)
  BY Limits DEF Shape
<1>2. inv' = [inv EXCEPT ![c] = RemItem(inv[c], i, k)]
  BY DEF Used
<1>3. Follows(inv[c], RemItem(inv[c], i, k)) /\ RemItem(inv[c], i, k) \in Bag
  BY <1>1, RemItemFollows, RemItemShape
<1> QED
  BY <1>2, <1>3 DEF Handled

LEMMA GivenIsHandled ==
    ASSUME Shape, NEW c \in Client, NEW i \in Item, NEW n, Fits(inv[c], i, n),
           inv' = [inv EXCEPT ![c] = GiveItem(@, i, n)], UNCHANGED <<alive, pet>>
    PROVE  Handled
<1>1. inv[c] \in Bag /\ n \in Int
  BY Limits DEF Shape, Fits
<1>2. inv' = [inv EXCEPT ![c] = GiveItem(inv[c], i, n)]
  OBVIOUS
<1>3. Follows(inv[c], GiveItem(inv[c], i, n)) /\ GiveItem(inv[c], i, n) \in Bag
  BY <1>1, GiveItemFollows, GiveItemShape
<1> QED
  BY <1>2, <1>3 DEF Handled

LEMMA OpenBoxIsHandled ==
    ASSUME Shape, NEW c \in Client, NEW i \in Item, NEW n \in 1..MaxHeld, OpenBox(c, i, n)
    PROVE  Handled
<1>1. PICK f \in Loot(i, n) :
        LET got == [j \in Item |-> Sum([p \in Boxes[i] |-> IF p[1] = j THEN p[2] * f[p] ELSE 0], Boxes[i])]
            bag == [j \in Item |-> IF got[j] = 0 THEN inv[c][j] ELSE GiveItem(inv[c], j, got[j])[j]]
        IN  /\ \A j \in Item : got[j] # 0 => Holds(c, j, got[j])
            /\ inv' = [inv EXCEPT ![c] = RemItem(bag, i, n)]
  BY DEF OpenBox
<1> DEFINE got == [j \in Item |-> Sum([p \in Boxes[i] |-> IF p[1] = j THEN p[2] * f[p] ELSE 0], Boxes[i])]
           bag == [j \in Item |-> IF got[j] = 0 THEN inv[c][j] ELSE GiveItem(inv[c], j, got[j])[j]]
<1>2. /\ \A j \in Item : got[j] # 0 => Fits(inv[c], j, got[j])
      /\ inv' = [inv EXCEPT ![c] = RemItem(bag, i, n)]
  BY <1>1 DEF Holds
<1>3. inv[c] \in Bag /\ n \in Int /\ n \in 1..(Half - 1)
  BY Limits DEF Shape
<1> HIDE DEF got
<1>4. Follows(inv[c], bag)
  <2>1. ASSUME NEW j \in Item PROVE \E b : Follows(inv[c], b) /\ bag[j] = b[j]
    <3>1. CASE got[j] = 0
      <4>1. Follows(inv[c], inv[c])
        BY <1>3 DEF Follows
      <4> QED
        BY <3>1, <4>1
    <3>2. CASE got[j] # 0
      <4>1. Fits(inv[c], j, got[j]) /\ got[j] \in Int
        BY <1>2, <3>2, Limits DEF Fits
      <4>2. Follows(inv[c], GiveItem(inv[c], j, got[j]))
        BY <1>3, <4>1, GiveItemFollows
      <4>3. bag[j] = GiveItem(inv[c], j, got[j])[j]
        BY <3>2
      <4> QED
        BY <4>2, <4>3
    <3> QED
      BY <3>1, <3>2
  <2>2. bag = [j \in Item |-> bag[j]]
    OBVIOUS
  <2> HIDE DEF bag
  <2> QED
    BY <1>3, <2>1, <2>2, FollowsAll
<1> HIDE DEF bag
<1>5. bag \in Bag
  BY <1>4 DEF Follows
<1>6. Follows(bag, RemItem(bag, i, n)) /\ RemItem(bag, i, n) \in Bag
  BY <1>3, <1>5, RemItemFollows, RemItemShape
<1>7. Follows(inv[c], RemItem(bag, i, n))
  BY <1>4, <1>6, FollowsTwice
<1>8. UNCHANGED <<alive, pet>>
  BY DEF OpenBox
<1> QED
  BY <1>2, <1>6, <1>7, <1>8 DEF Handled

LEMMA CraftIsHandled ==
    ASSUME Shape, NEW c \in Client, NEW i \in Item, NEW n \in Counts, CraftItem(c, i, n)
    PROVE  Handled
<1> DEFINE need == Crafts[i]
           bag == [j \in Item |-> IF j \in DOMAIN need THEN RemItem(inv[c], j, Wrap(need[j] * n))[j]
                                  ELSE inv[c][j]]
<1>1. /\ i \in DOMAIN Crafts /\ Fits(bag, i, n)
      /\ inv' = [inv EXCEPT ![c] = GiveItem(bag, i, n)]
      /\ UNCHANGED <<alive, pet>>
  BY DEF CraftItem
<1>2. /\ inv[c] \in Bag /\ n \in Nat \ {0}
      /\ \A j \in DOMAIN need : need[j] \in Nat \ {0} /\ need[j] * n \in Nat \ {0}
  BY <1>1, InventoryAssumption DEF Shape
<1>3. Follows(inv[c], bag)
  <2>1. ASSUME NEW j \in Item PROVE \E b : Follows(inv[c], b) /\ bag[j] = b[j]
    <3>1. CASE j \notin DOMAIN need
      <4>1. Follows(inv[c], inv[c])
        BY <1>2 DEF Follows
      <4> QED
        BY <3>1, <4>1
    <3>2. CASE j \in DOMAIN need
      <4> DEFINE k == Wrap(need[j] * n)
      <4>1. k \in Int
        BY <1>2, <3>2, WrapFacts
      <4>2. ASSUME SmallCrafts PROVE k \in 1..(Half - 1)
        <5>1. need[j] * n < Half
          BY <1>1, <3>2, <4>2 DEF SmallCrafts
        <5>2. need[j] * n \in IntRange /\ need[j] * n \in Int
          BY <1>2, <3>2, <5>1, Limits DEF IntRange
        <5>3. k = need[j] * n
          BY <5>2, WrapFacts
        <5> QED
          BY <1>2, <3>2, <5>1, <5>3, Limits
      <4> HIDE DEF k
      <4>3. RemItem(inv[c], j, k) \in Bag
        BY <1>2, <4>1, RemItemShape
      <4>4. CASE SmallCrafts
        BY <1>2, <4>1, <4>2, <4>4, RemItemFollows, <3>2 DEF k
      <4>5. CASE ~SmallCrafts
        <5>1. \A h \in Item : RemItem(inv[c], j, k)[h].worn => inv[c][h].worn
          BY <1>2, <4>1, RemItemWorn
        <5>2. Follows(inv[c], RemItem(inv[c], j, k))
          BY <4>3, <4>5, <5>1 DEF Follows
        <5> QED
          BY <3>2, <5>2 DEF k
      <4> QED
        BY <4>4, <4>5
    <3> QED
      BY <3>1, <3>2
  <2>2. bag = [j \in Item |-> bag[j]]
    OBVIOUS
  <2> HIDE DEF bag
  <2> QED
    BY <1>2, <2>1, <2>2, FollowsAll
<1> HIDE DEF bag
<1>4. bag \in Bag /\ n \in Int
  BY <1>2, <1>3 DEF Follows
<1>5. Follows(bag, GiveItem(bag, i, n)) /\ GiveItem(bag, i, n) \in Bag
  BY <1>1, <1>4, GiveItemFollows, GiveItemShape
<1>6. Follows(inv[c], GiveItem(bag, i, n))
  BY <1>3, <1>5, FollowsTwice
<1> QED
  BY <1>1, <1>5, <1>6 DEF Handled

LEMMA DropIsHandled ==
    ASSUME Shape, NEW c \in Client, NEW i \in Item, NEW n \in Counts, DropItem(c, i, n)
    PROVE  Handled /\ ground' \in Seq(Thing)
<1> DEFINE k == Min2(n, inv[c][i].count)
<1>1. /\ inv[c] \in Bag /\ n \in Nat \ {0} /\ inv[c][i].count \in Int /\ inv[c][i].count # 0
      /\ inv' = [inv EXCEPT ![c] = RemItem(inv[c], i, k)]
      /\ ground' = Append(ground, [item |-> i, count |-> k])
      /\ UNCHANGED <<alive, pet>>
  BY InventoryAssumption, EntryFacts DEF Shape, Bag, DropItem
<1>2. k \in Int /\ k \in IntRange
  <2>1. inv[c][i] \in Entry
    BY <1>1 DEF Bag
  <2>2. inv[c][i].count \in Int /\ -Half <= inv[c][i].count /\ inv[c][i].count < Half
    BY <2>1, EntryFacts
  <2>3. n \in Int /\ n >= 1 /\ Half \in Nat
    BY <1>1, Limits
  <2>4. k \in Int /\ -Half <= k /\ k < Half
    BY <2>2, <2>3 DEF Min2
  <2> HIDE DEF k
  <2> QED
    BY <2>3, <2>4 DEF IntRange
<1>3. ASSUME Good(inv[c]) PROVE k \in 1..(Half - 1)
  BY <1>1, <1>3, Limits DEF Good, GoodEntry, Min2
<1> HIDE DEF k
<1>4. Follows(inv[c], RemItem(inv[c], i, k)) /\ RemItem(inv[c], i, k) \in Bag
  BY <1>1, <1>2, <1>3, RemItemFollows, RemItemShape
<1>5. Handled
  BY <1>1, <1>4 DEF Handled
<1>6. ground' \in Seq(Thing)
  <2>1. [item |-> i, count |-> k] \in Thing
    BY <1>2 DEF Thing
  <2> QED
    BY <1>1, <2>1, AppendProperties DEF Shape
<1> QED
  BY <1>5, <1>6

LEMMA WithoutType ==
    ASSUME Shape, NEW k \in 1..Len(ground)
    PROVE  Without(k) \in Seq(Thing) /\ ground[k].item \in Item
<1> DEFINE S == Thing
<1>1. ground \in Seq(S) /\ Len(ground) \in Nat /\ \A j \in 1..Len(ground) : ground[j] \in S
  BY ElementOfSeq, LenProperties DEF Shape
<1>2. Without(k) \in [1..(Len(ground) - 1) -> S]
  BY <1>1 DEF Without
<1>3. Len(ground) - 1 \in Nat
  BY <1>1
<1> HIDE DEF S
<1>4. Without(k) \in Seq(S)
  BY <1>2, <1>3, FunctionIsSeq
<1> QED
  BY <1>1, <1>4 DEF S, Thing

\* Every step handles one bag, puts something on or off, or leaves the bags
\* alone and lets a character come or go.
Equips == \E c \in Client, i \in Item : SetEquippedItem(c, i)

ComesOrGoes ==
    /\ inv' = inv
    /\ \/ UNCHANGED <<alive, pet>>
       \/ \E c \in Client : Spawn(c) \/ Die(c)

LEMMA StepCases ==
    ASSUME Shape, [Next]_vars
    PROVE  /\ Handled \/ Equips \/ ComesOrGoes
           /\ ground' \in Seq(Thing)
<1>0. ground \in Seq(Thing)
  BY DEF Shape
<1>1. CASE \E c \in Client, what \in Harvest : Work(c, what)
  <2>1. PICK c \in Client, what \in Harvest : Work(c, what)
    BY <1>1
  <2>2. what[1] \in Item /\ Fits(inv[c], what[1], what[2])
    BY <2>1, InventoryAssumption DEF Work, Holds
  <2> QED
    BY <1>0, <2>1, <2>2, GivenIsHandled DEF Work
<1>2. CASE \E c \in Client, i \in Item, n \in 1..MaxHeld : OpenBag(c, i, n) \/ Eat(c, i, n) \/ UseReset(c, i, n)
  <2>1. PICK c \in Client, i \in Item, n \in 1..MaxHeld : OpenBag(c, i, n) \/ Eat(c, i, n) \/ UseReset(c, i, n)
    BY <1>2
  <2>2. Used(c, i, n) \/ Used(c, i, 1)
    BY <2>1 DEF OpenBag, Eat, UseReset
  <2>3. UNCHANGED <<alive, pet, ground>>
    BY <2>1 DEF OpenBag, Eat, UseReset
  <2> QED
    BY <1>0, <2>2, <2>3, UsedIsHandled
<1>3. CASE \E c \in Client, i \in Item, n \in 1..MaxHeld : OpenBox(c, i, n)
  BY <1>0, <1>3, OpenBoxIsHandled DEF OpenBox
<1>4. CASE \E c \in Client, u \in Upgrade, n \in Counts : BuyUpgrade(c, u, n)
  BY <1>0, <1>4 DEF BuyUpgrade, ComesOrGoes
<1>5. CASE \E c \in Client, i \in Item : BuyItem(c, i)
  BY <1>0, <1>5, GivenIsHandled DEF BuyItem, Holds
<1>6. CASE \E c \in Client, i \in Item, n \in Counts : CraftItem(c, i, n)
  BY <1>0, <1>6, CraftIsHandled DEF CraftItem
<1>7. CASE \E c \in Client, i \in Item, n \in Counts : DropItem(c, i, n)
  BY <1>7, DropIsHandled
<1>8. CASE \E c \in Client, k \in 1..Len(ground) : PickUp(c, k)
  <2>1. PICK c \in Client, k \in 1..Len(ground) : PickUp(c, k)
    BY <1>8
  <2>2. Without(k) \in Seq(Thing) /\ ground[k].item \in Item
    BY WithoutType
  <2> QED
    BY <2>1, <2>2, GivenIsHandled DEF PickUp, Holds
<1>9. CASE \E k \in 1..Len(ground) : Vanish(k)
  BY <1>9, WithoutType DEF Vanish, ComesOrGoes
<1>10. CASE \E c \in Client : SellMaterial(c)
  <2>1. PICK c \in Client : SellMaterial(c)
    BY <1>10
  <2>2. inv' = [inv EXCEPT ![c] = RemItem(inv[c], Material, -1)] /\ UNCHANGED <<alive, pet, ground>>
    BY <2>1 DEF SellMaterial
  <2>3. /\ Follows(inv[c], RemItem(inv[c], Material, -1))
        /\ RemItem(inv[c], Material, -1) \in Bag
    BY InventoryAssumption, RemItemFollows, RemItemShape DEF Shape
  <2> QED
    BY <1>0, <2>2, <2>3 DEF Handled
<1>11. CASE \E c \in Client : Spawn(c) \/ Die(c)
  BY <1>0, <1>11 DEF Spawn, Die, ComesOrGoes
<1>12. CASE \E c \in Client, i \in Item : SetEquippedItem(c, i)
  BY <1>0, <1>12 DEF SetEquippedItem, Equips
<1>13. CASE UNCHANGED vars
  BY <1>0, <1>13 DEF vars, ComesOrGoes
<1> QED
  BY <1>1, <1>2, <1>3, <1>4, <1>5, <1>6, <1>7, <1>8, <1>9, <1>10, <1>11, <1>12, <1>13
     DEF Next, Earn
-----------------------------------------------------------------------------
(* What is worn.                                                           *)

LEMMA WornSet ==
    ASSUME NEW e \in Entry, NEW w \in BOOLEAN
    PROVE  /\ [e EXCEPT !.worn = w] \in Entry
           /\ [e EXCEPT !.worn = w].count = e.count /\ [e EXCEPT !.worn = w].worn = w
BY DEF Entry

\* The bag after the command: counts are as before, and the pet is looked at.
Equipped(c, i, bag) ==
    /\ inv' = [inv EXCEPT ![c] = bag] /\ alive' = alive
    /\ \A j \in Item : bag[j].count = inv[c][j].count
    /\ \A j \in Item :
          bag[j].worn => \/ TypeOf[j] # TypeOf[i] /\ inv[c][j].worn
                         \/ j = i /\ inv[c][i].count # 0 /\ WornOf(inv[c], TypeOf[i]) = {}
    /\ pet' = IF inv[c][i].count = 0 THEN pet ELSE [pet EXCEPT ![c] = PetAfter(c, bag)]

LEMMA EquipEffect ==
    ASSUME Shape, NEW c \in Client, NEW i \in Item, SetEquippedItem(c, i)
    PROVE  \E bag \in Bag : Equipped(c, i, bag)
<1> DEFINE worn == WornOf(inv[c], TypeOf[i])
           off == [j \in Item |-> [inv[c][j] EXCEPT !.worn = @ /\ j \notin worn]]
           bag == IF inv[c][i].count = 0 THEN off ELSE [off EXCEPT ![i].worn = (worn = {})]
<1>1. /\ inv' = [inv EXCEPT ![c] = bag] /\ alive' = alive
      /\ inv[c][i].count = 0 => pet' = pet
      /\ inv[c][i].count # 0 => pet' = [pet EXCEPT ![c] = PetAfter(c, inv'[c])]
  BY DEF SetEquippedItem
<1>2. inv[c] \in Bag
  BY DEF Shape
<1>3. ASSUME NEW j \in Item
      PROVE  /\ off[j] \in Entry /\ off[j].count = inv[c][j].count
             /\ off[j].worn <=> inv[c][j].worn /\ j \notin worn
  <2>1. inv[c][j] \in Entry
    BY <1>2 DEF Bag
  <2> DEFINE w == inv[c][j].worn /\ j \notin worn
  <2>2. off[j] = [inv[c][j] EXCEPT !.worn = w]
    OBVIOUS
  <2>3. w \in BOOLEAN
    BY Zenon
  <2>4. w <=> inv[c][j].worn /\ j \notin worn
    OBVIOUS
  <2> HIDE DEF off, worn, w
  <2>5. off[j] \in Entry /\ off[j].count = inv[c][j].count /\ off[j].worn = w
    BY <2>1, <2>2, <2>3, WornSet
  <2> QED
    BY <2>4, <2>5
<1>4. off \in Bag
  BY <1>3 DEF Bag
<1>5. ASSUME inv[c][i].count # 0
      PROVE  /\ bag \in Bag /\ \A j \in Item \ {i} : bag[j] = off[j]
             /\ bag[i].count = inv[c][i].count /\ (bag[i].worn <=> worn = {})
  <2> HIDE DEF worn, off
  <2>1. bag = [off EXCEPT ![i] = [off[i] EXCEPT !.worn = (worn = {})]]
    BY <1>5
  <2>2. (worn = {}) \in BOOLEAN
    BY Zenon
  <2>3. [off[i] EXCEPT !.worn = (worn = {})] = [count |-> inv[c][i].count, worn |-> (worn = {})]
    BY <1>3 DEF Entry
  <2>4. off[i] \in Entry
    BY <1>3
  <2>5. [off[i] EXCEPT !.worn = (worn = {})] \in Entry
    BY <1>3, <2>2, <2>3, <2>4 DEF Entry
  <2>6. bag \in Bag /\ bag[i] = [off[i] EXCEPT !.worn = (worn = {})] /\ \A j \in Item \ {i} : bag[j] = off[j]
    BY <1>4, <2>1, <2>5 DEF Bag
  <2> HIDE DEF bag
  <2> QED
    BY <2>3, <2>6
<1>6. bag \in Bag /\ \A j \in Item : bag[j].count = inv[c][j].count
  <2> HIDE DEF off
  <2> QED
    BY <1>3, <1>4, <1>5
<1>7. ASSUME NEW j \in Item, bag[j].worn
      PROVE  \/ TypeOf[j] # TypeOf[i] /\ inv[c][j].worn
             \/ j = i /\ inv[c][i].count # 0 /\ worn = {}
  <2>1. CASE off[j].worn
    <3>1. inv[c][j].worn /\ j \notin worn
      BY <1>3, <2>1
    <3> QED
      BY <3>1 DEF WornOf
  <2>2. CASE ~ off[j].worn
    <3>1. inv[c][i].count # 0
      BY <1>7, <2>2
    <3> HIDE DEF off, worn, bag
    <3> QED
      BY <1>5, <1>7, <2>2, <3>1
  <2> QED
    BY <2>1, <2>2
<1> HIDE DEF bag
<1>8. inv'[c] = bag
  BY <1>1, <1>6 DEF Shape
<1>9. pet' = IF inv[c][i].count = 0 THEN pet ELSE [pet EXCEPT ![c] = PetAfter(c, bag)]
  BY <1>1, <1>8
<1>10. Equipped(c, i, bag)
  BY <1>1, <1>6, <1>7, <1>9 DEF Equipped
<1> QED
  BY <1>6, <1>10

LEMMA ShapeInit == Init => Shape
<1> SUFFICES ASSUME Init PROVE Shape
  OBVIOUS
<1>1. [i \in Item |-> Nothing] \in Bag
  BY Limits DEF Bag
<1>2. inv \in [Client -> Bag]
  BY <1>1 DEF Init
<1>3. alive \in [Client -> BOOLEAN] /\ pet \in [Client -> BOOLEAN]
  BY DEF Init
<1>4. ground \in Seq(Thing)
  BY EmptySeq DEF Init
<1> QED
  BY <1>2, <1>3, <1>4 DEF Shape

LEMMA ShapeNext == Shape /\ [Next]_vars => Shape'
<1> SUFFICES ASSUME Shape, [Next]_vars PROVE Shape'
  OBVIOUS
<1>1. ground' \in Seq(Thing)
  BY StepCases
<1>2. CASE Handled
  <2>1. inv' \in [Client -> Bag]
    BY <1>2 DEF Handled, Shape
  <2> QED
    BY <1>1, <1>2, <2>1 DEF Handled, Shape
<1>3. CASE Equips
  <2>1. PICK c \in Client, i \in Item : SetEquippedItem(c, i)
    BY <1>3 DEF Equips
  <2>a. PICK bag \in Bag : Equipped(c, i, bag)
    BY <2>1, EquipEffect
  <2>2. /\ inv' = [inv EXCEPT ![c] = bag] /\ alive' = alive
        /\ pet' = IF inv[c][i].count = 0 THEN pet ELSE [pet EXCEPT ![c] = PetAfter(c, bag)]
    BY <2>a DEF Equipped
  <2>3. inv' \in [Client -> Bag]
    BY <2>2 DEF Shape
  <2>4. PetAfter(c, bag) \in BOOLEAN
    BY DEF PetAfter, Shape
  <2>5. pet' \in [Client -> BOOLEAN]
    BY <2>2, <2>4 DEF Shape
  <2> QED
    BY <1>1, <2>2, <2>3, <2>5 DEF Shape
<1>4. CASE ComesOrGoes
  <2>1. CASE \E c \in Client : Spawn(c)
    <3>1. PICK c \in Client : Spawn(c)
      BY <2>1
    <3>2. (WornOf(inv[c], Pet) # {}) \in BOOLEAN
      BY Zenon
    <3>3. alive' = [alive EXCEPT ![c] = TRUE] /\ pet' = [pet EXCEPT ![c] = WornOf(inv[c], Pet) # {}]
      BY <3>1 DEF Spawn
    <3>4. alive' \in [Client -> BOOLEAN] /\ pet' \in [Client -> BOOLEAN]
      BY <3>2, <3>3 DEF Shape
    <3> QED
      BY <1>1, <1>4, <3>4 DEF ComesOrGoes, Shape
  <2>2. CASE \E c \in Client : Die(c)
    BY <1>1, <1>4, <2>2 DEF Die, ComesOrGoes, Shape
  <2>3. CASE UNCHANGED <<alive, pet>>
    BY <1>1, <1>4, <2>3 DEF ComesOrGoes, Shape
  <2> QED
    BY <1>4, <2>1, <2>2, <2>3 DEF ComesOrGoes
<1> QED
  BY <1>2, <1>3, <1>4, StepCases
-----------------------------------------------------------------------------
(* The theorems.                                                           *)

LEMMA PetNext == Shape /\ PetFollows /\ [Next]_vars => PetFollows'
<1> SUFFICES ASSUME Shape, PetFollows, [Next]_vars,
                    NEW d \in Client, alive'[d], WornOf(inv'[d], Pet) # {}
             PROVE  pet'[d]
  BY DEF PetFollows
<1>1. CASE Handled
  <2>1. PICK c \in Client, bag \in Bag :
              /\ inv' = [inv EXCEPT ![c] = bag] /\ Follows(inv[c], bag)
              /\ UNCHANGED <<alive, pet>>
    BY <1>1 DEF Handled
  <2>2. \A j \in Item : inv'[d][j].worn => inv[d][j].worn
    BY <2>1 DEF Follows, Shape
  <2>3. WornOf(inv[d], Pet) # {}
    BY <2>2 DEF WornOf
  <2> QED
    BY <2>1, <2>3 DEF PetFollows
<1>2. CASE Equips
  <2>1. PICK c \in Client, i \in Item : SetEquippedItem(c, i)
    BY <1>2 DEF Equips
  <2>a. PICK bag \in Bag : Equipped(c, i, bag)
    BY <2>1, EquipEffect
  <2>2. /\ inv' = [inv EXCEPT ![c] = bag] /\ alive' = alive
        /\ \A j \in Item :
              bag[j].worn => \/ TypeOf[j] # TypeOf[i] /\ inv[c][j].worn
                             \/ j = i /\ inv[c][i].count # 0 /\ WornOf(inv[c], TypeOf[i]) = {}
        /\ pet' = IF inv[c][i].count = 0 THEN pet ELSE [pet EXCEPT ![c] = PetAfter(c, bag)]
    BY <2>a DEF Equipped
  <2>3. CASE d # c
    <3>1. inv'[d] = inv[d] /\ pet'[d] = pet[d]
      BY <2>2, <2>3 DEF Shape
    <3> QED
      BY <2>2, <3>1 DEF PetFollows
  <2>4. CASE d = c /\ inv[c][i].count = 0
    <3>1. inv'[c] = bag
      BY <2>2 DEF Shape
    <3>2. WornOf(inv[c], Pet) # {}
      BY <2>2, <2>4, <3>1 DEF WornOf
    <3> QED
      BY <2>2, <2>4, <3>2 DEF PetFollows
  <2>5. CASE d = c /\ inv[c][i].count # 0
    <3>1. inv'[c] = bag /\ pet'[c] = PetAfter(c, bag)
      BY <2>2, <2>5 DEF Shape
    <3>2. alive[c]
      BY <2>2, <2>5
    <3> QED
      BY <2>5, <3>1, <3>2 DEF PetAfter
  <2> QED
    BY <2>3, <2>4, <2>5
<1>3. CASE ComesOrGoes
  <2>1. CASE UNCHANGED <<alive, pet>>
    BY <1>3, <2>1 DEF ComesOrGoes, PetFollows
  <2>2. ASSUME NEW c \in Client, Spawn(c) PROVE pet'[d]
    <3>1. /\ alive' = [alive EXCEPT ![c] = TRUE] /\ inv' = inv
          /\ pet' = [pet EXCEPT ![c] = WornOf(inv[c], Pet) # {}]
      BY <2>2 DEF Spawn
    <3>2. CASE d = c
      BY <3>1, <3>2 DEF Shape
    <3>3. CASE d # c
      <4>1. alive'[d] = alive[d] /\ pet'[d] = pet[d]
        BY <3>1, <3>3 DEF Shape
      <4> QED
        BY <3>1, <4>1 DEF PetFollows
    <3> QED
      BY <3>2, <3>3
  <2>3. ASSUME NEW c \in Client, Die(c) PROVE pet'[d]
    <3>1. alive' = [alive EXCEPT ![c] = FALSE] /\ inv' = inv /\ pet' = pet
      BY <2>3 DEF Die
    <3>2. alive[d]
      BY <3>1 DEF Shape
    <3> QED
      BY <3>1, <3>2 DEF PetFollows
  <2> QED
    BY <1>3, <2>1, <2>2, <2>3 DEF ComesOrGoes
<1> QED
  BY <1>1, <1>2, <1>3, StepCases

\* Who wears a pet and lives is followed by one, whatever happens to items,
\* money and characters in between.
THEOREM PetCorrect == Spec => []PetFollows
<1>1. Init => PetFollows
  BY DEF Init, PetFollows
<1> QED
  BY <1>1, ShapeInit, ShapeNext, PetNext, PTL DEF Spec

\* One thing of a type is worn at most, whatever the counts are.
OneOfType ==
    \A c \in Client : \A i, j \in Item :
        inv[c][i].worn /\ inv[c][j].worn /\ TypeOf[i] = TypeOf[j] => i = j

LEMMA OneOfTypeNext == Shape /\ OneOfType /\ [Next]_vars => OneOfType'
<1> SUFFICES ASSUME Shape, OneOfType, [Next]_vars,
                    NEW d \in Client, NEW g \in Item, NEW h \in Item,
                    inv'[d][g].worn, inv'[d][h].worn, TypeOf[g] = TypeOf[h]
             PROVE  g = h
  BY DEF OneOfType
<1>1. CASE Handled
  <2>1. PICK c \in Client, bag \in Bag : inv' = [inv EXCEPT ![c] = bag] /\ Follows(inv[c], bag)
    BY <1>1 DEF Handled
  <2>2. \A j \in Item : inv'[d][j].worn => inv[d][j].worn
    BY <2>1 DEF Follows, Shape
  <2> QED
    BY <2>2 DEF OneOfType
<1>2. CASE Equips
  <2>1. PICK c \in Client, i \in Item : SetEquippedItem(c, i)
    BY <1>2 DEF Equips
  <2>a. PICK bag \in Bag : Equipped(c, i, bag)
    BY <2>1, EquipEffect
  <2>2. /\ inv' = [inv EXCEPT ![c] = bag]
        /\ \A j \in Item :
              bag[j].worn => \/ TypeOf[j] # TypeOf[i] /\ inv[c][j].worn
                             \/ j = i /\ inv[c][i].count # 0 /\ WornOf(inv[c], TypeOf[i]) = {}
    BY <2>a DEF Equipped
  <2>3. CASE d # c
    <3>1. inv'[d] = inv[d]
      BY <2>2, <2>3 DEF Shape
    <3> QED
      BY <3>1 DEF OneOfType
  <2>4. CASE d = c
    <3>1. inv'[c] = bag
      BY <2>2 DEF Shape
    <3> QED
      BY <2>2, <2>4, <3>1 DEF OneOfType
  <2> QED
    BY <2>3, <2>4
<1>3. CASE ComesOrGoes
  BY <1>3 DEF ComesOrGoes, OneOfType
<1> QED
  BY <1>1, <1>2, <1>3, StepCases

\* One thing of a type at most is worn, for all counts that players may write.
THEOREM WornOncePerType == Spec => []OneOfType
<1>1. Init => OneOfType
  <2> SUFFICES ASSUME Init PROVE OneOfType
    OBVIOUS
  <2>1. \A c \in Client, i \in Item : inv[c][i].worn = FALSE
    BY DEF Init, Nothing
  <2> QED
    BY <2>1 DEF OneOfType
<1> QED
  BY <1>1, ShapeInit, ShapeNext, OneOfTypeNext, PTL DEF Spec

\* The bags stay good as long as players write counts that crafts can take.
AllGood == \A c \in Client : Good(inv[c])

LEMMA GoodInit == Init => AllGood
<1> SUFFICES ASSUME Init, NEW c \in Client, NEW i \in Item PROVE GoodEntry(i, inv[c][i])
  BY DEF AllGood, Good
<1>1. inv[c][i] = Nothing
  BY DEF Init
<1> QED
  BY <1>1, Limits DEF GoodEntry, Nothing

LEMMA GoodNext ==
    ASSUME SmallCrafts
    PROVE  Shape /\ AllGood /\ [Next]_vars => AllGood'
<1> SUFFICES ASSUME Shape, AllGood, [Next]_vars, NEW d \in Client PROVE Good(inv'[d])
  BY DEF AllGood
<1>1. CASE Handled
  <2>1. PICK c \in Client, bag \in Bag : inv' = [inv EXCEPT ![c] = bag] /\ Follows(inv[c], bag)
    BY <1>1 DEF Handled
  <2>2. Good(inv[c]) /\ Good(inv[d]) /\ Good(bag)
    BY <2>1 DEF AllGood, Follows
  <2>3. inv'[d] = IF d = c THEN bag ELSE inv[d]
    BY <2>1 DEF Shape
  <2> QED
    BY <2>2, <2>3
<1>2. CASE Equips
  <2>1. PICK c \in Client, i \in Item : SetEquippedItem(c, i)
    BY <1>2 DEF Equips
  <2>a. PICK bag \in Bag : Equipped(c, i, bag)
    BY <2>1, EquipEffect
  <2>2. /\ inv' = [inv EXCEPT ![c] = bag]
        /\ \A j \in Item : bag[j].count = inv[c][j].count
        /\ \A j \in Item :
              bag[j].worn => \/ TypeOf[j] # TypeOf[i] /\ inv[c][j].worn
                             \/ j = i /\ inv[c][i].count # 0 /\ WornOf(inv[c], TypeOf[i]) = {}
    BY <2>a DEF Equipped
  <2>3. Good(bag)
    <3>1. ASSUME NEW j \in Item PROVE GoodEntry(j, bag[j])
      <4>1. GoodEntry(j, inv[c][j]) /\ bag[j].count = inv[c][j].count /\ inv[c][j].count \in Int
        BY <2>2, EntryFacts DEF AllGood, Good, Shape, Bag
      <4>2. bag[j].worn => inv[c][j].worn \/ inv[c][j].count # 0
        BY <2>2
      <4> QED
        BY <4>1, <4>2 DEF GoodEntry
    <3> QED
      BY <3>1 DEF Good
  <2>4. inv'[d] = IF d = c THEN bag ELSE inv[d]
    BY <2>2 DEF Shape
  <2> QED
    BY <2>3, <2>4 DEF AllGood
<1>3. CASE ComesOrGoes
  BY <1>3 DEF ComesOrGoes, AllGood
<1> QED
  BY <1>1, <1>2, <1>3, StepCases

\* No count below zero or above the limit of the item, as long as players write
\* counts for which the products of a craft are ints.
THEOREM CountsCorrect ==
    ASSUME SmallCrafts
    PROVE  Spec => []CountsInRange
<1>1. AllGood /\ Shape => CountsInRange
  <2> SUFFICES ASSUME AllGood, Shape, NEW c \in Client, NEW i \in Item
               PROVE  /\ inv[c][i].count >= 0
                      /\ MaxCountOf[i] # -1 => inv[c][i].count <= MaxCountOf[i]
    BY DEF CountsInRange
  <2>1. GoodEntry(i, inv[c][i])
    BY DEF AllGood, Good
  <2> QED
    BY <2>1 DEF GoodEntry
<1>2. Shape /\ AllGood /\ [Next]_vars => AllGood'
  BY GoodNext
<1> QED
  BY <1>1, <1>2, GoodInit, ShapeInit, ShapeNext, PTL DEF Spec

\* What is worn is there, and one of a type at most.
THEOREM WornCorrect ==
    ASSUME SmallCrafts
    PROVE  Spec => []OneWorn
<1>1. AllGood /\ OneOfType /\ Shape => OneWorn
  <2> SUFFICES ASSUME AllGood, OneOfType, Shape, NEW c \in Client
               PROVE  /\ \A type \in Wearable : Cardinality(WornOf(inv[c], type)) <= 1
                      /\ \A i \in Item : inv[c][i].worn => inv[c][i].count > 0
    BY DEF OneWorn
  <2>1. ASSUME NEW type \in Wearable PROVE Cardinality(WornOf(inv[c], type)) <= 1
    <3>1. CASE WornOf(inv[c], type) = {}
      <4>1. Cardinality(WornOf(inv[c], type)) = 0
        BY <3>1, FS_EmptySet
      <4> QED
        BY <4>1
    <3>2. CASE WornOf(inv[c], type) # {}
      <4>1. PICK i \in WornOf(inv[c], type) : TRUE
        BY <3>2
      <4>2. WornOf(inv[c], type) = {i}
        BY <4>1 DEF WornOf, OneOfType
      <4>3. Cardinality(WornOf(inv[c], type)) = 1
        BY <4>2, FS_Singleton
      <4> QED
        BY <4>3
    <3> QED
      BY <3>1, <3>2
  <2>2. ASSUME NEW i \in Item, inv[c][i].worn PROVE inv[c][i].count > 0
    BY <2>2 DEF AllGood, Good, GoodEntry
  <2> QED
    BY <2>1, <2>2
<1>2. Shape /\ AllGood /\ [Next]_vars => AllGood'
  BY GoodNext
<1> QED
  BY <1>1, <1>2, GoodInit, ShapeInit, ShapeNext, WornOncePerType, PTL DEF Spec
-----------------------------------------------------------------------------
(* What Sum computes.                                                      *)

\* What Sum adds up is well defined: without a solution for sets of some size,
\* there would be none for smaller ones.
Body(f, T, s) == IF T = {} THEN 0 ELSE LET t == CHOOSE t \in T : TRUE IN f[t] + s[T \ {t}]

LEMMA SumExists ==
    ASSUME NEW f, NEW S, IsFiniteSet(S)
    PROVE  \E s : s = [T \in SUBSET S |-> Body(f, T, s)]
<1> DEFINE Sub(k) == {T \in SUBSET S : Cardinality(T) <= k}
           Solves(k, s) == s = [T \in Sub(k) |-> Body(f, T, s)]
           bad == {k \in Nat : ~\E s : Solves(k, s)}
<1>1. ASSUME NEW T \in SUBSET S
      PROVE  /\ IsFiniteSet(T) /\ Cardinality(T) \in Nat
             /\ Cardinality(T) = 0 <=> T = {}
             /\ \A t \in T : T \ {t} \in SUBSET S /\ Cardinality(T \ {t}) = Cardinality(T) - 1
  <2>1. IsFiniteSet(T)
    BY FS_Subset
  <2>2. Cardinality(T) \in Nat /\ (Cardinality(T) = 0 <=> T = {})
    BY <2>1, FS_CardinalityType, FS_EmptySet
  <2>3. \A t \in T : Cardinality(T \ {t}) = Cardinality(T) - 1
    BY <2>1, FS_RemoveElement
  <2> QED
    BY <2>1, <2>2, <2>3
<1>2. bad = {}
  <2> SUFFICES ASSUME bad # {} PROVE FALSE
    OBVIOUS
  <2>1. PICK k \in bad : \A y \in bad : k <= y
    BY Smallest
  <2>2. k \in Nat /\ ~\E s : Solves(k, s)
    BY <2>1
  <2>3. CASE k = 0
    <3> DEFINE s == [T \in Sub(0) |-> 0]
    <3>1. \A T \in Sub(0) : T = {}
      BY <1>1
    <3>2. \A T \in Sub(0) : Body(f, T, s) = 0
      BY <3>1 DEF Body
    <3> HIDE DEF Sub
    <3>3. s = [T \in Sub(0) |-> Body(f, T, s)]
      BY <3>2, Zenon
    <3> QED
      BY <2>2, <2>3, <3>3
  <2>4. CASE k # 0
    <3>1. k - 1 \in Nat /\ ~(k <= k - 1)
      BY <2>2, <2>4
    <3>2. PICK h : Solves(k - 1, h)
      BY <2>1, <3>1
    <3> DEFINE g == [T \in Sub(k) |-> Body(f, T, h)]
    <3>3. ASSUME NEW T \in Sub(k) PROVE Body(f, T, g) = Body(f, T, h)
      <4>1. CASE T = {}
        BY <4>1 DEF Body
      <4>2. CASE T # {}
        <5> DEFINE t == CHOOSE t \in T : TRUE
                   R == T \ {t}
        <5>1. t \in T
          BY <4>2
        <5>2. R \in SUBSET S /\ Cardinality(R) = Cardinality(T) - 1 /\ Cardinality(T) \in Nat /\ Cardinality(T) <= k
          BY <1>1, <5>1
        <5> HIDE DEF R
        <5>3. R \in Sub(k - 1) /\ R \in Sub(k)
          BY <2>2, <5>2
        <5> HIDE DEF Sub
        <5>4. [U \in Sub(k - 1) |-> Body(f, U, h)][R] = Body(f, R, h)
          BY <5>3, Zenon
        <5>5. h[R] = [U \in Sub(k - 1) |-> Body(f, U, h)][R]
          BY <3>2, Zenon
        <5>6. g[R] = Body(f, R, h)
          BY <5>3, Zenon
        <5>7. g[R] = h[R]
          BY <5>4, <5>5, <5>6, Zenon
        <5> HIDE DEF g
        <5>8. g[T \ {t}] = h[T \ {t}]
          BY <5>7 DEF R
        <5> HIDE DEF R
        <5> QED
          BY <4>2, <5>8, Zenon DEF Body
      <4> QED
        BY <4>1, <4>2
    <3> HIDE DEF Sub
    <3>4. g = [T \in Sub(k) |-> Body(f, T, g)]
      BY <3>3, Zenon
    <3> HIDE DEF g
    <3> QED
      BY <2>2, <3>4
  <2> QED
    BY <2>3, <2>4
<1> DEFINE c == Cardinality(S)
<1>3. c \in Nat
  BY FS_CardinalityType
<1>4. PICK s : Solves(c, s)
  BY <1>2, <1>3
<1>5. Sub(c) = SUBSET S
  BY FS_Subset
<1> HIDE DEF Sub
<1> QED
  BY <1>4, <1>5, Zenon

Solves(f, S, s) == s = [T \in SUBSET S |-> Body(f, T, s)]

LEMMA SumSolves ==
    ASSUME NEW f, NEW S, IsFiniteSet(S)
    PROVE  \E s : Solves(f, S, s) /\ Sum(f, S) = s[S]
<1> DEFINE s == CHOOSE s : s = [T \in SUBSET S |->
                IF T = {} THEN 0 ELSE LET t == CHOOSE t \in T : TRUE IN f[t] + s[T \ {t}]]
<1>1. PICK r : r = [T \in SUBSET S |-> Body(f, T, r)]
  BY SumExists
<1>2. r = [T \in SUBSET S |-> IF T = {} THEN 0 ELSE LET t == CHOOSE t \in T : TRUE IN f[t] + r[T \ {t}]]
  BY <1>1, Zenon DEF Body
<1>3. s = [T \in SUBSET S |-> IF T = {} THEN 0 ELSE LET t == CHOOSE t \in T : TRUE IN f[t] + s[T \ {t}]]
  BY <1>2, Zenon
<1>4. Sum(f, S) = s[S]
  BY Zenon DEF Sum
<1> HIDE DEF s
<1>5. Solves(f, S, s)
  BY <1>3, Zenon DEF Solves, Body
<1> QED
  BY <1>4, <1>5

First(T) == CHOOSE t \in T : TRUE

\* A solution takes out one element after the other.
LEMMA SolvesStep ==
    ASSUME NEW f, NEW S, NEW s, Solves(f, S, s)
    PROVE  \A T \in SUBSET S :
              /\ T = {} => s[T] = 0
              /\ T # {} => First(T) \in T /\ s[T] = f[First(T)] + s[T \ {First(T)}]
<1> SUFFICES ASSUME NEW T \in SUBSET S
             PROVE  /\ T = {} => s[T] = 0
                    /\ T # {} => First(T) \in T /\ s[T] = f[First(T)] + s[T \ {First(T)}]
  OBVIOUS
<1>1. s[T] = Body(f, T, s)
  <2>1. [U \in SUBSET S |-> Body(f, U, s)][T] = Body(f, T, s)
    BY Zenon
  <2> QED
    BY <2>1, Zenon DEF Solves
<1>2. T # {} => First(T) \in T
  BY DEF First
<1> QED
  BY <1>1, <1>2, Zenon DEF Body, First

\* Two solutions agree where both add up.
LEMMA SolvesUnique ==
    ASSUME NEW f, NEW S, IsFiniteSet(S), NEW s, Solves(f, S, s),
           NEW R \in SUBSET S, NEW r, Solves(f, R, r)
    PROVE  s[R] = r[R]
<1> DEFINE B == {T \in SUBSET R : s[T] # r[T]}
<1>1. IsFiniteSet(R)
  BY FS_Subset
<1> SUFFICES ASSUME B # {} PROVE FALSE
  OBVIOUS
<1>2. PICK T \in B : \A x \in T : T \ {x} \notin B
  BY <1>1, SmallestSet
<1>a. \A U \in SUBSET S : /\ U = {} => s[U] = 0
                          /\ U # {} => First(U) \in U /\ s[U] = f[First(U)] + s[U \ {First(U)}]
  BY SolvesStep
<1>b. \A U \in SUBSET R : /\ U = {} => r[U] = 0
                          /\ U # {} => First(U) \in U /\ r[U] = f[First(U)] + r[U \ {First(U)}]
  BY SolvesStep
<1>3. T \in SUBSET R /\ T \in SUBSET S /\ s[T] # r[T]
  BY <1>2
<1>4. T # {}
  BY <1>3, <1>a, <1>b
<1> DEFINE t == First(T)
<1>5. t \in T /\ s[T] = f[t] + s[T \ {t}]
  BY <1>3, <1>4, <1>a
<1>6. r[T] = f[t] + r[T \ {t}]
  BY <1>3, <1>4, <1>b
<1> HIDE DEF t
<1>7. T \ {t} \in SUBSET R
  BY <1>3
<1>8. s[T \ {t}] = r[T \ {t}]
  BY <1>2, <1>5, <1>7
<1> QED
  BY <1>3, <1>5, <1>6, <1>8

\* Sum adds up, in whatever order.
Addends(f, S) == IsFiniteSet(S) /\ \A x \in S : f[x] \in Int

LEMMA SumFacts ==
    ASSUME NEW f, NEW S, Addends(f, S)
    PROVE  /\ Sum(f, S) \in Int
           /\ S = {} => Sum(f, S) = 0
           /\ \A x \in S : Addends(f, S \ {x}) /\ Sum(f, S) = f[x] + Sum(f, S \ {x})
<1>1. IsFiniteSet(S) /\ \A x \in S : f[x] \in Int
  BY DEF Addends
<1>2. PICK s : Solves(f, S, s) /\ Sum(f, S) = s[S]
  BY <1>1, SumSolves
<1>3. S \in SUBSET S
  OBVIOUS
<1>a. \A U \in SUBSET S : /\ U = {} => s[U] = 0
                          /\ U # {} => First(U) \in U /\ s[U] = f[First(U)] + s[U \ {First(U)}]
  BY <1>2, SolvesStep
<1>4. \A T \in SUBSET S : s[T] \in Int
  <2> DEFINE B == {T \in SUBSET S : s[T] \notin Int}
  <2> SUFFICES ASSUME B # {} PROVE FALSE
    OBVIOUS
  <2>1. PICK T \in B : \A x \in T : T \ {x} \notin B
    BY <1>1, SmallestSet
  <2>2. T \in SUBSET S /\ s[T] \notin Int
    BY <2>1
  <2>3. T # {}
    <3>1. T = {} => s[T] = 0
      BY <1>a, <2>2
    <3> QED
      BY <2>2, <3>1
  <2>4. PICK t \in T : s[T] = f[t] + s[T \ {t}]
    BY <1>a, <2>2, <2>3
  <2>5. s[T \ {t}] \in Int
    BY <2>1, <2>2
  <2>6. f[t] \in Int
    BY <1>1, <2>2
  <2> QED
    BY <2>2, <2>4, <2>5, <2>6
<1>5. \A T \in SUBSET S : \A x \in T : s[T] = f[x] + s[T \ {x}]
  <2> DEFINE B == {T \in SUBSET S : \E x \in T : s[T] # f[x] + s[T \ {x}]}
  <2> SUFFICES ASSUME B # {} PROVE FALSE
    OBVIOUS
  <2>1. PICK T \in B : \A x \in T : T \ {x} \notin B
    BY <1>1, SmallestSet
  <2>2. T \in SUBSET S
    BY <2>1
  <2>3. PICK x \in T : s[T] # f[x] + s[T \ {x}]
    BY <2>1
  <2>4. T # {}
    BY <2>3
  <2>5. PICK t \in T : s[T] = f[t] + s[T \ {t}]
    BY <1>a, <2>2, <2>4
  <2>6. x # t
    BY <2>3, <2>5
  <2>7. /\ T \ {t} \in SUBSET S /\ T \ {x} \in SUBSET S /\ x \in T \ {t} /\ t \in T \ {x}
        /\ (T \ {t}) \ {x} \in SUBSET S /\ (T \ {t}) \ {x} = (T \ {x}) \ {t}
    BY <2>2, <2>6
  <2>8. s[T \ {t}] = f[x] + s[(T \ {t}) \ {x}]
    BY <2>1, <2>7
  <2>9. s[T \ {x}] = f[t] + s[(T \ {x}) \ {t}]
    BY <2>1, <2>7
  <2> DEFINE rest == s[(T \ {t}) \ {x}]
  <2>10. f[x] \in Int /\ f[t] \in Int /\ rest \in Int
    BY <1>1, <1>4, <2>2, <2>7
  <2>11. s[T \ {t}] = f[x] + rest /\ s[T \ {x}] = f[t] + rest
    BY <2>7, <2>8, <2>9
  <2> HIDE DEF rest
  <2>12. f[t] + (f[x] + rest) = f[x] + (f[t] + rest)
    BY <2>10
  <2>13. s[T] = f[x] + s[T \ {x}]
    BY <2>5, <2>11, <2>12
  <2> QED
    BY <2>3, <2>13
<1>6. ASSUME NEW x \in S PROVE Addends(f, S \ {x}) /\ Sum(f, S) = f[x] + Sum(f, S \ {x})
  <2> DEFINE R == S \ {x}
  <2>1. R \in SUBSET S /\ IsFiniteSet(R)
    BY <1>1, FS_Subset
  <2>2. Addends(f, R)
    BY <1>1, <2>1 DEF Addends
  <2> HIDE DEF R
  <2>3. PICK r : Solves(f, R, r) /\ Sum(f, R) = r[R]
    BY <2>1, SumSolves
  <2>4. s[R] = r[R]
    BY <1>1, <1>2, <2>1, <2>3, SolvesUnique
  <2>5. s[S] = f[x] + s[R]
    BY <1>3, <1>5 DEF R
  <2>6. Sum(f, S) = f[x] + Sum(f, R)
    BY <1>2, <2>3, <2>4, <2>5
  <2> QED
    BY <2>2, <2>6 DEF R
<1>7. S = {} => Sum(f, S) = 0
  BY <1>a, <1>2, <1>3
<1> QED
  BY <1>2, <1>3, <1>4, <1>6, <1>7

LEMMA SumMono ==
    ASSUME NEW f, NEW g, NEW S, Addends(f, S), Addends(g, S), \A x \in S : f[x] <= g[x]
    PROVE  Sum(f, S) <= Sum(g, S)
<1> DEFINE B == {T \in SUBSET S : ~(Sum(f, T) <= Sum(g, T))}
<1> SUFFICES ASSUME B # {} PROVE FALSE
  OBVIOUS
<1>1. PICK T \in B : \A x \in T : T \ {x} \notin B
  BY SmallestSet DEF Addends
<1>2. T \in SUBSET S /\ ~(Sum(f, T) <= Sum(g, T))
  BY <1>1
<1>3. Addends(f, T) /\ Addends(g, T)
  BY <1>2, FS_Subset DEF Addends
<1>4. /\ Sum(f, T) \in Int /\ (T = {} => Sum(f, T) = 0)
      /\ \A x \in T : Addends(f, T \ {x}) /\ Sum(f, T) = f[x] + Sum(f, T \ {x})
  BY <1>3, SumFacts
<1>5. /\ Sum(g, T) \in Int /\ (T = {} => Sum(g, T) = 0)
      /\ \A x \in T : Addends(g, T \ {x}) /\ Sum(g, T) = g[x] + Sum(g, T \ {x})
  BY <1>3, SumFacts
<1>6. T # {}
  BY <1>2, <1>4, <1>5
<1>7. PICK x \in T : TRUE
  BY <1>6
<1>8. Sum(f, T \ {x}) <= Sum(g, T \ {x})
  BY <1>1, <1>2
<1>9. Sum(f, T \ {x}) \in Int /\ Sum(g, T \ {x}) \in Int
  BY <1>4, <1>5, SumFacts
<1>10. f[x] \in Int /\ g[x] \in Int /\ f[x] <= g[x]
  BY <1>2 DEF Addends
<1> QED
  BY <1>2, <1>4, <1>5, <1>8, <1>9, <1>10

LEMMA SumSame ==
    ASSUME NEW f, NEW g, NEW S, Addends(f, S), \A x \in S : f[x] = g[x]
    PROVE  Addends(g, S) /\ Sum(f, S) = Sum(g, S)
<1>1. Addends(g, S) /\ \A x \in S : f[x] <= g[x] /\ g[x] <= f[x]
  BY DEF Addends
<1>2. Sum(f, S) <= Sum(g, S) /\ Sum(g, S) <= Sum(f, S)
  BY <1>1, SumMono
<1>3. Sum(f, S) \in Int /\ Sum(g, S) \in Int
  BY <1>1, SumFacts
<1> QED
  BY <1>1, <1>2, <1>3

\* One addend changes.
LEMMA SumChange ==
    ASSUME NEW f, NEW g, NEW S, Addends(f, S), Addends(g, S),
           NEW u \in S, \A x \in S \ {u} : f[x] = g[x]
    PROVE  Sum(g, S) = Sum(f, S) + (g[u] - f[u])
<1>1. Addends(f, S \ {u}) /\ Sum(f, S) = f[u] + Sum(f, S \ {u})
  BY SumFacts
<1>2. Sum(g, S) = g[u] + Sum(g, S \ {u})
  BY SumFacts
<1>3. Sum(f, S \ {u}) = Sum(g, S \ {u})
  BY <1>1, SumSame
<1>4. f[u] \in Int /\ g[u] \in Int /\ Sum(f, S \ {u}) \in Int
  BY <1>1, SumFacts DEF Addends
<1> QED
  BY <1>1, <1>2, <1>3, <1>4

\* Of addends that are the one plus k times the other.
LEMMA SumLinear ==
    ASSUME NEW f, NEW g, NEW h, NEW S, NEW k \in Int, Addends(f, S), Addends(g, S),
           \A x \in S : h[x] = f[x] + k * g[x]
    PROVE  Addends(h, S) /\ Sum(h, S) = Sum(f, S) + k * Sum(g, S)
<1> DEFINE B == {T \in SUBSET S : Sum(h, T) # Sum(f, T) + k * Sum(g, T)}
<1>0. Addends(h, S)
  BY DEF Addends
<1> SUFFICES ASSUME B # {} PROVE FALSE
  BY <1>0
<1>1. PICK T \in B : \A x \in T : T \ {x} \notin B
  BY SmallestSet DEF Addends
<1>2. T \in SUBSET S /\ Sum(h, T) # Sum(f, T) + k * Sum(g, T)
  BY <1>1
<1>3. Addends(f, T) /\ Addends(g, T) /\ Addends(h, T)
  BY <1>0, <1>2, FS_Subset DEF Addends
<1>4. /\ T = {} => Sum(f, T) = 0
      /\ \A x \in T : Addends(f, T \ {x}) /\ Sum(f, T) = f[x] + Sum(f, T \ {x})
  BY <1>3, SumFacts
<1>5. /\ T = {} => Sum(g, T) = 0
      /\ \A x \in T : Addends(g, T \ {x}) /\ Sum(g, T) = g[x] + Sum(g, T \ {x})
  BY <1>3, SumFacts
<1>6. /\ T = {} => Sum(h, T) = 0
      /\ \A x \in T : Sum(h, T) = h[x] + Sum(h, T \ {x})
  BY <1>3, SumFacts
<1>7. T # {}
  BY <1>2, <1>4, <1>5, <1>6
<1>8. PICK x \in T : TRUE
  BY <1>7
<1> DEFINE a == Sum(f, T \ {x})
           b == Sum(g, T \ {x})
<1>9. Sum(h, T \ {x}) = a + k * b
  BY <1>1, <1>2
<1>10. a \in Int /\ b \in Int
  BY <1>4, <1>5, SumFacts
<1>11. f[x] \in Int /\ g[x] \in Int /\ h[x] = f[x] + k * g[x]
  BY <1>2 DEF Addends
<1>12. Sum(f, T) = f[x] + a /\ Sum(g, T) = g[x] + b /\ Sum(h, T) = h[x] + (a + k * b)
  BY <1>4, <1>5, <1>6, <1>9
<1> HIDE DEF a, b, B
<1>13. k * (g[x] + b) = k * g[x] + k * b /\ k * g[x] \in Int /\ k * b \in Int
  BY <1>10, <1>11
<1>14. Sum(h, T) = (f[x] + a) + k * (g[x] + b)
  BY <1>10, <1>11, <1>12, <1>13
<1> QED
  BY <1>2, <1>12, <1>14

\* Addends of zero do not count.
LEMMA SumPart ==
    ASSUME NEW f, NEW S, Addends(f, S), NEW A \in SUBSET S, \A x \in S \ A : f[x] = 0
    PROVE  Addends(f, A) /\ Sum(f, S) = Sum(f, A)
<1> DEFINE B == {T \in SUBSET (S \ A) : Sum(f, A \cup T) # Sum(f, A)}
<1>0. Addends(f, A) /\ IsFiniteSet(S \ A)
  BY FS_Subset DEF Addends
<1>a. B = {}
  <2> SUFFICES ASSUME B # {} PROVE FALSE
    OBVIOUS
  <2>1. PICK T \in B : \A x \in T : T \ {x} \notin B
    BY <1>0, SmallestSet
  <2>2. T \in SUBSET (S \ A) /\ Sum(f, A \cup T) # Sum(f, A)
    BY <2>1
  <2>3. T # {}
    <3>1. A \cup {} = A
      OBVIOUS
    <3> QED
      BY <2>2, <3>1
  <2>4. PICK x \in T : TRUE
    BY <2>3
  <2> DEFINE U == A \cup T
  <2>5. U \in SUBSET S /\ x \in U /\ f[x] = 0 /\ U \ {x} = A \cup (T \ {x})
    BY <2>2
  <2>6. Addends(f, U)
    BY <2>5, FS_Subset DEF Addends
  <2> HIDE DEF U
  <2>7. Addends(f, U \ {x}) /\ Sum(f, U) = f[x] + Sum(f, U \ {x})
    BY <2>5, <2>6, SumFacts
  <2>8. Sum(f, U \ {x}) \in Int
    BY <2>7, SumFacts
  <2>9. Sum(f, U) = Sum(f, U \ {x})
    BY <2>5, <2>7, <2>8
  <2>10. Sum(f, A \cup (T \ {x})) = Sum(f, A)
    BY <2>1, <2>2
  <2> QED
    BY <2>2, <2>5, <2>9, <2>10 DEF U
<1>1. A \cup (S \ A) = S
  OBVIOUS
<1> QED
  BY <1>0, <1>a, <1>1

\* The places of addends do not matter.
Moves(f, S, e, g, T) ==
    /\ T = {e[x] : x \in S} /\ Addends(f, S)
    /\ \A x \in S : g[e[x]] = f[x]
    /\ \A x, y \in S : e[x] = e[y] => x = y

LEMMA SumMoved ==
    ASSUME NEW f, NEW g, NEW S, NEW e, NEW U, Moves(f, S, e, g, U)
    PROVE  Addends(g, U) /\ Sum(g, U) = Sum(f, S)
<1> USE DEF Moves
<1> DEFINE R(T) == {e[x] : x \in T}
           Agrees(T) == Addends(g, R(T)) /\ Sum(g, R(T)) = Sum(f, T)
           B == {T \in SUBSET S : ~Agrees(T)}
<1> SUFFICES ASSUME B # {} PROVE FALSE
  OBVIOUS
<1>1. PICK T \in B : \A x \in T : T \ {x} \notin B
  BY SmallestSet DEF Addends
<1>2. T \in SUBSET S /\ ~Agrees(T)
  BY <1>1
<1>3. Addends(f, T)
  BY <1>2, FS_Subset DEF Addends
<1>4. T # {}
  <2> SUFFICES ASSUME T = {} PROVE FALSE
    OBVIOUS
  <2>1. R(T) = {} /\ Addends(g, {})
    BY FS_EmptySet DEF Addends
  <2>2. Sum(g, {}) = 0 /\ Sum(f, T) = 0
    BY <1>3, <2>1, SumFacts
  <2> QED
    BY <1>2, <2>1, <2>2
<1>5. PICK x \in T : TRUE
  BY <1>4
<1>6. Agrees(T \ {x})
  BY <1>1, <1>2
<1>7. e[x] \in R(T) /\ R(T) \ {e[x]} = R(T \ {x}) /\ g[e[x]] = f[x] /\ R(T) = R(T \ {x}) \cup {e[x]}
  BY <1>2
<1>8. f[x] \in Int
  BY <1>2 DEF Addends
<1>9. IsFiniteSet(R(T \ {x})) /\ \A y \in R(T \ {x}) : g[y] \in Int
  BY <1>6 DEF Addends
<1> HIDE DEF R
<1>10. IsFiniteSet(R(T))
  <2> DEFINE Q == R(T \ {x})
             y == e[x]
  <2>1. IsFiniteSet(Q) /\ R(T) = Q \cup {y}
    BY <1>7, <1>9
  <2> HIDE DEF Q, y
  <2>2. IsFiniteSet(Q \cup {y})
    BY <2>1, FS_AddElement
  <2> QED
    BY <2>1, <2>2
<1>11. Addends(g, R(T))
  BY <1>7, <1>8, <1>9, <1>10 DEF Addends
<1>12. Sum(g, R(T)) = g[e[x]] + Sum(g, R(T) \ {e[x]})
  BY <1>7, <1>11, SumFacts
<1>13. Sum(f, T) = f[x] + Sum(f, T \ {x})
  BY <1>3, SumFacts
<1> QED
  BY <1>2, <1>6, <1>7, <1>11, <1>12, <1>13
-----------------------------------------------------------------------------
(* Experience and levels.                                                  *)

\* A level takes some experience.
LEMMA NeedFacts ==
    ASSUME NEW level \in Nat \ {0}
    PROVE  GetExpForLevelUp(level) \in Nat /\ GetExpForLevelUp(level) > 0
<1> DEFINE steps == {<<0, 250>>, <<100, 700>>, <<200, 1000>>, <<300, 1500>>, <<400, 2500>>,
                     <<500, 4000>>, <<600, 6000>>, <<700, 8000>>, <<1000, 12000>>,
                     <<1100, 13000>>, <<1200, 14000>>}
           passed == {s \in steps : level > s[1]}
           T == {s[1] + 1 : s \in passed}
           best == CHOOSE s \in passed : \A t \in passed : t[1] <= s[1]
<1>1. \A s \in steps : s[1] \in 0..1200 /\ s[2] \in Nat \ {0}
  OBVIOUS
<1>2. <<0, 250>> \in passed
  OBVIOUS
<1>a. \A s \in passed : s[1] \in Int /\ 0 <= s[1] /\ s[1] <= 1200 /\ s[2] \in Nat \ {0}
  BY <1>1
<1> HIDE DEF steps, passed
<1>3. T \in SUBSET (1..1201) /\ T # {}
  <2>1. \A s \in passed : s[1] + 1 \in 1..1201
    BY <1>a
  <2> QED
    BY <1>2, <2>1
<1>4. PICK x \in T : \A y \in T : y <= x
  <2> HIDE DEF T
  <2> DEFINE n == 1201
  <2>1. n \in Nat /\ T \in SUBSET (1..n) /\ T # {}
    BY <1>3
  <2> HIDE DEF n
  <2> QED
    BY <2>1, Largest
<1>5. PICK s \in passed : x = s[1] + 1
  BY <1>4
<1>6. \A t \in passed : t[1] <= s[1]
  <2> SUFFICES ASSUME NEW t \in passed PROVE t[1] <= s[1]
    OBVIOUS
  <2>1. t[1] + 1 <= s[1] + 1
    BY <1>4, <1>5
  <2>2. t[1] \in Int /\ s[1] \in Int
    BY <1>a, <1>5
  <2> QED
    BY <2>1, <2>2
<1>7. best \in passed
  BY <1>5, <1>6
<1>8. best[2] \in Nat \ {0}
  BY <1>a, <1>7
<1>9. GetExpForLevelUp(level) = level * best[2]
  BY DEF GetExpForLevelUp, best, passed, steps
<1> HIDE DEF best
<1> QED
  BY <1>8, <1>9, SMT

\* The loop of AddEXP, one turn of it, and what its recursion computes.
Purse == [money : Int, exp : Int, level : Nat \ {0}]
NextLevel(p) == [p EXCEPT !.exp = @ - GetExpForLevelUp(p.level), !.level = @ + 1]
Levels(p, h) ==
    IF p.level > MaxLevel \/ p.exp < GetExpForLevelUp(p.level) THEN p ELSE h[NextLevel(p)]

LEMMA NextLevelFacts ==
    ASSUME NEW p \in Purse
    PROVE  /\ NextLevel(p) \in Purse /\ NextLevel(p).money = p.money
           /\ NextLevel(p).level = p.level + 1
           /\ NextLevel(p).exp = p.exp - GetExpForLevelUp(p.level)
           /\ NextLevel(p).exp < p.exp
<1>1. p.level \in Nat \ {0} /\ p.exp \in Int
  BY DEF Purse
<1>2. GetExpForLevelUp(p.level) \in Nat /\ GetExpForLevelUp(p.level) > 0
  BY <1>1, NeedFacts
<1> DEFINE need == GetExpForLevelUp(p.level)
<1>3. p = [money |-> p.money, exp |-> p.exp, level |-> p.level] /\ p.money \in Int
  BY DEF Purse
<1>4. NextLevel(p) = [p EXCEPT !.exp = p.exp - need, !.level = p.level + 1]
  BY DEF NextLevel
<1> HIDE DEF need
<1>5. NextLevel(p) = [money |-> p.money, exp |-> p.exp - need, level |-> p.level + 1]
  BY <1>3, <1>4
<1>6. need \in Nat /\ need > 0
  BY <1>2 DEF need
<1>7. p.exp - need \in Int /\ p.level + 1 \in Nat \ {0} /\ p.exp - need < p.exp
  BY <1>1, <1>6
<1> QED
  BY <1>3, <1>5, <1>7 DEF Purse, need

LEMMA LevelUpExists == \E h : h = [p \in Purse |-> Levels(p, h)]
<1> DEFINE High(k) == {p \in Purse : p.level + k > MaxLevel}
           Climbs(k, h) == h = [p \in High(k) |-> Levels(p, h)]
           bad == {k \in Nat : ~\E h : Climbs(k, h)}
<1>0. MaxLevel \in Nat
  BY InventoryAssumption
<1>1. bad = {}
  <2> SUFFICES ASSUME bad # {} PROVE FALSE
    OBVIOUS
  <2>1. PICK k \in bad : \A y \in bad : k <= y
    BY Smallest
  <2>2. k \in Nat /\ ~\E h : Climbs(k, h)
    BY <2>1
  <2>3. CASE k = 0
    <3> DEFINE h == [p \in High(0) |-> p]
    <3>1. ASSUME NEW p \in High(0) PROVE Levels(p, h) = p
      <4>1. p.level > MaxLevel
        BY <1>0 DEF Purse
      <4> QED
        BY <4>1 DEF Levels
    <3> HIDE DEF High
    <3>2. h = [p \in High(0) |-> Levels(p, h)]
      BY <3>1, Zenon
    <3> QED
      BY <2>2, <2>3, <3>2
  <2>4. CASE k # 0
    <3>1. k - 1 \in Nat /\ ~(k <= k - 1)
      BY <2>2, <2>4
    <3>2. PICK h : Climbs(k - 1, h)
      BY <2>1, <3>1
    <3> DEFINE g == [p \in High(k) |-> Levels(p, h)]
    <3>3. ASSUME NEW p \in High(k) PROVE Levels(p, g) = Levels(p, h)
      <4>1. p \in Purse /\ p.level + k > MaxLevel
        BY <3>3
      <4>2. NextLevel(p) \in Purse /\ NextLevel(p).level = p.level + 1 /\ p.level \in Nat
        BY <4>1, NextLevelFacts DEF Purse
      <4> DEFINE n == NextLevel(p)
      <4> HIDE DEF n
      <4>3. n \in Purse /\ n.level = p.level + 1 /\ p.level \in Nat
        BY <4>2 DEF n
      <4>4. n \in High(k - 1) /\ n \in High(k)
        BY <1>0, <2>2, <4>1, <4>3
      <4> HIDE DEF High
      <4>5. [q \in High(k - 1) |-> Levels(q, h)][n] = Levels(n, h)
        BY <4>4, Zenon
      <4>6. h[n] = [q \in High(k - 1) |-> Levels(q, h)][n]
        BY <3>2, Zenon
      <4>7. g[n] = Levels(n, h)
        BY <4>4, Zenon
      <4>8. g[n] = h[n]
        BY <4>5, <4>6, <4>7, Zenon
      <4> HIDE DEF g
      <4> QED
        BY <4>8, Zenon DEF Levels, n
    <3> HIDE DEF High
    <3>4. g = [p \in High(k) |-> Levels(p, g)]
      BY <3>3, Zenon
    <3> HIDE DEF g
    <3> QED
      BY <2>2, <3>4
  <2> QED
    BY <2>3, <2>4
<1>2. PICK h : Climbs(MaxLevel, h)
  BY <1>0, <1>1
<1>3. High(MaxLevel) = Purse
  <2>1. \A p \in Purse : p.level + MaxLevel > MaxLevel
    BY <1>0 DEF Purse
  <2> QED
    BY <2>1
<1> HIDE DEF High
<1> QED
  BY <1>2, <1>3, Zenon

\* What comes out of the loop: the rest is less than the next level takes.
Levelled(p, q) ==
    /\ q \in Purse /\ q.money = p.money /\ q.level >= p.level
    /\ p.exp >= 0 => q.exp >= 0
    /\ q.exp <= p.exp
    /\ q.level <= MaxLevel => q.exp < GetExpForLevelUp(q.level)

LEMMA LevelUpFacts ==
    ASSUME NEW h, h = [p \in Purse |-> Levels(p, h)], NEW p \in Purse
    PROVE  Levelled(p, h[p])
<1> DEFINE bad == {k \in Nat : \E q \in Purse : q.level + k > MaxLevel /\ ~Levelled(q, h[q])}
<1>0. MaxLevel \in Nat
  BY InventoryAssumption
<1>a. ASSUME NEW q \in Purse PROVE h[q] = Levels(q, h)
  <2>1. [r \in Purse |-> Levels(r, h)][q] = Levels(q, h)
    BY Zenon
  <2> QED
    BY <2>1, Zenon
<1>1. bad = {}
  <2> SUFFICES ASSUME bad # {} PROVE FALSE
    OBVIOUS
  <2>1. PICK k \in bad : \A y \in bad : k <= y
    BY Smallest
  <2>2. PICK q \in Purse : q.level + k > MaxLevel /\ ~Levelled(q, h[q])
    BY <2>1
  <2>3. /\ q.level \in Nat \ {0} /\ q.exp \in Int /\ q.money \in Int /\ k \in Nat
        /\ GetExpForLevelUp(q.level) \in Nat
    BY NeedFacts DEF Purse
  <2>4. CASE q.level > MaxLevel \/ q.exp < GetExpForLevelUp(q.level)
    <3>1. h[q] = q
      BY <1>a, <2>4 DEF Levels
    <3>2. q.level <= MaxLevel => q.exp < GetExpForLevelUp(q.level)
      BY <1>0, <2>3, <2>4
    <3> QED
      BY <2>2, <2>3, <3>1, <3>2 DEF Levelled
  <2>5. CASE ~(q.level > MaxLevel \/ q.exp < GetExpForLevelUp(q.level))
    <3> DEFINE n == NextLevel(q)
    <3>1. h[q] = h[n]
      BY <1>a, <2>5 DEF Levels
    <3>2. /\ n \in Purse /\ n.money = q.money /\ n.level = q.level + 1
          /\ n.exp = q.exp - GetExpForLevelUp(q.level) /\ n.exp < q.exp
      BY NextLevelFacts
    <3> HIDE DEF n
    <3>3. k # 0 /\ k - 1 \in Nat /\ n.level + (k - 1) > MaxLevel
      BY <1>0, <2>2, <2>3, <2>5, <3>2
    <3>4. k - 1 \notin bad
      BY <2>1, <2>3
    <3>5. Levelled(n, h[n])
      BY <3>2, <3>3, <3>4
    <3>6. Levelled(q, h[n])
      <4>1. n.exp \in Int /\ n.exp >= 0 /\ n.exp <= q.exp /\ n.level >= q.level
        BY <2>3, <2>5, <3>2
      <4> DEFINE o == h[n]
      <4> HIDE DEF o
      <4>2. Levelled(n, o)
        BY <3>5 DEF o
      <4>3. o.exp \in Int /\ o.level \in Nat
        BY <4>2 DEF Levelled, Purse
      <4>4. Levelled(q, o)
        BY <2>3, <3>2, <4>1, <4>2, <4>3 DEF Levelled
      <4> QED
        BY <4>4 DEF o
    <3> QED
      BY <2>2, <3>1, <3>6
  <2> QED
    BY <2>4, <2>5
<1>2. p.level + MaxLevel > MaxLevel
  BY <1>0 DEF Purse
<1> QED
  BY <1>0, <1>1, <1>2

LEMMA AddEXPFacts ==
    ASSUME NEW purse \in Purse, NEW gain \in Int
    PROVE  Levelled([purse EXCEPT !.exp = Wrap(@ + gain)], AddEXP(purse, gain))
<1> DEFINE h == CHOOSE h : h = [p \in [money : Int, exp : Int, level : Nat \ {0}] |->
                LET need == GetExpForLevelUp(p.level)
                IN  IF p.level > MaxLevel \/ p.exp < need THEN p
                    ELSE h[[p EXCEPT !.exp = @ - need, !.level = @ + 1]]]
           full == [purse EXCEPT !.exp = Wrap(@ + gain)]
<1>1. PICK g : g = [p \in Purse |-> Levels(p, g)]
  BY LevelUpExists
<1>2. g = [p \in [money : Int, exp : Int, level : Nat \ {0}] |->
                LET need == GetExpForLevelUp(p.level)
                IN  IF p.level > MaxLevel \/ p.exp < need THEN p
                    ELSE g[[p EXCEPT !.exp = @ - need, !.level = @ + 1]]]
  BY <1>1, Zenon DEF Purse, Levels, NextLevel
<1>3. h = [p \in [money : Int, exp : Int, level : Nat \ {0}] |->
                LET need == GetExpForLevelUp(p.level)
                IN  IF p.level > MaxLevel \/ p.exp < need THEN p
                    ELSE h[[p EXCEPT !.exp = @ - need, !.level = @ + 1]]]
  BY <1>2, Zenon
<1>4. AddEXP(purse, gain) = h[full]
  BY Zenon DEF AddEXP
<1> HIDE DEF h
<1>5. h = [p \in Purse |-> Levels(p, h)]
  BY <1>3, Zenon DEF Purse, Levels, NextLevel
<1>6. full \in Purse
  <2>1. purse.exp + gain \in Int
    BY DEF Purse
  <2>2. Wrap(purse.exp + gain) \in Int
    BY <2>1, WrapFacts
  <2> QED
    BY <2>2 DEF Purse
<1> HIDE DEF full
<1>7. Levelled(full, h[full])
  BY <1>5, <1>6, LevelUpFacts
<1> QED
  BY <1>4, <1>7 DEF full

-----------------------------------------------------------------------------
(* Money, levels and upgrade points.                                       *)

LEMMA SumNat ==
    ASSUME NEW f, NEW S, IsFiniteSet(S), \A x \in S : f[x] \in Nat
    PROVE  /\ Addends(f, S) /\ Sum(f, S) \in Nat
           /\ \A x \in S : f[x] <= Sum(f, S)
<1>1. \A T \in SUBSET S : Addends(f, T)
  BY FS_Subset DEF Addends
<1>2. ASSUME NEW T \in SUBSET S PROVE Sum(f, T) \in Int /\ Sum(f, T) >= 0
  <2> DEFINE z == [x \in T |-> 0]
  <2>1. Addends(f, T) /\ Addends(z, T) /\ \A x \in T : z[x] <= f[x]
    BY <1>1 DEF Addends
  <2>2. Sum(z, T) = 0
    <3>1. \A x \in T \ {} : z[x] = 0
      OBVIOUS
    <3>2. {} \in SUBSET T
      OBVIOUS
    <3> HIDE DEF z
    <3>3. Addends(z, {}) /\ Sum(z, T) = Sum(z, {})
      BY <2>1, <3>1, <3>2, SumPart
    <3> QED
      BY <3>3, SumFacts
  <2> HIDE DEF z
  <2>3. Sum(z, T) <= Sum(f, T) /\ Sum(f, T) \in Int
    BY <2>1, SumMono, SumFacts
  <2> QED
    BY <2>2, <2>3
<1>3. ASSUME NEW x \in S PROVE f[x] <= Sum(f, S)
  <2>1. Sum(f, S) = f[x] + Sum(f, S \ {x})
    BY <1>1, SumFacts
  <2>2. Sum(f, S \ {x}) \in Int /\ Sum(f, S \ {x}) >= 0
    BY <1>2
  <2> QED
    BY <2>1, <2>2
<1>4. S \in SUBSET S
  OBVIOUS
<1> QED
  BY <1>1, <1>2, <1>3, <1>4

LEMMA CostFacts ==
    \A u : GetUpgradeCost(u) \in Nat /\ GetUpgradeCost(u) >= 1
BY DEF GetUpgradeCost

LEMMA SpentFacts ==
    ASSUME NEW b \in [Upgrade -> Nat]
    PROVE  /\ Spent(b) \in Nat
           /\ \A u \in Upgrade : b[u] <= Spent(b)
<1> DEFINE f == [u \in Upgrade |-> b[u] * GetUpgradeCost(u)]
<1>1. IsFiniteSet(Upgrade)
  BY InventoryAssumption
<1>2. ASSUME NEW u \in Upgrade PROVE f[u] \in Nat /\ b[u] <= f[u]
  <2> DEFINE k == GetUpgradeCost(u)
  <2>1. b[u] \in Nat /\ k \in Nat /\ k >= 1 /\ f[u] = b[u] * k
    BY CostFacts
  <2> HIDE DEF k, f
  <2> QED
    BY <2>1, SMT
<1>3. Spent(b) = Sum(f, Upgrade)
  BY DEF Spent
<1> HIDE DEF f
<1>4. Sum(f, Upgrade) \in Nat /\ \A u \in Upgrade : f[u] <= Sum(f, Upgrade)
  BY <1>1, <1>2, SumNat
<1>5. ASSUME NEW u \in Upgrade PROVE b[u] <= Sum(f, Upgrade)
  <2>1. b[u] \in Nat /\ f[u] \in Nat /\ b[u] <= f[u] /\ f[u] <= Sum(f, Upgrade)
    BY <1>2, <1>4
  <2> QED
    BY <1>4, <2>1
<1> QED
  BY <1>3, <1>4, <1>5

LEMMA SpentNothing == Spent([u \in Upgrade |-> 0]) = 0
<1> DEFINE b == [u \in Upgrade |-> 0]
           f == [u \in Upgrade |-> b[u] * GetUpgradeCost(u)]
<1>1. IsFiniteSet(Upgrade) /\ \A u \in Upgrade \ {} : f[u] = 0
  BY InventoryAssumption, CostFacts
<1>2. Spent(b) = Sum(f, Upgrade)
  BY DEF Spent
<1> HIDE DEF f
<1>3. Addends(f, Upgrade) /\ {} \in SUBSET Upgrade
  BY <1>1 DEF Addends
<1>4. Addends(f, {}) /\ Sum(f, Upgrade) = Sum(f, {})
  BY <1>1, <1>3, SumPart
<1> QED
  BY <1>2, <1>4, SumFacts

\* An upgrade bought costs what GetUpgradeCost says for each.
LEMMA SpentMore ==
    ASSUME NEW b \in [Upgrade -> Nat], NEW u \in Upgrade, NEW n \in Nat
    PROVE  Spent([b EXCEPT ![u] = b[u] + n]) = Spent(b) + GetUpgradeCost(u) * n
<1> DEFINE d == [b EXCEPT ![u] = b[u] + n]
           f == [v \in Upgrade |-> b[v] * GetUpgradeCost(v)]
           g == [v \in Upgrade |-> d[v] * GetUpgradeCost(v)]
           k == GetUpgradeCost(u)
<1>1. IsFiniteSet(Upgrade) /\ k \in Nat /\ \A v \in Upgrade : b[v] \in Nat /\ GetUpgradeCost(v) \in Nat
  BY InventoryAssumption, CostFacts
<1>2. d \in [Upgrade -> Nat] /\ d[u] = b[u] + n /\ \A v \in Upgrade \ {u} : d[v] = b[v]
  OBVIOUS
<1>3. f[u] = b[u] * k /\ g[u] = d[u] * k /\ \A v \in Upgrade \ {u} : f[v] = g[v]
  BY <1>2
<1> HIDE DEF d
<1>4. \A v \in Upgrade : f[v] \in Int /\ g[v] \in Int
  <2> SUFFICES ASSUME NEW v \in Upgrade PROVE f[v] \in Int /\ g[v] \in Int
    OBVIOUS
  <2>1. b[v] \in Nat /\ d[v] \in Nat /\ GetUpgradeCost(v) \in Nat
    BY <1>1, <1>2
  <2> QED
    BY <2>1
<1>5. Spent(b) = Sum(f, Upgrade) /\ Spent(d) = Sum(g, Upgrade)
  BY DEF Spent
<1> HIDE DEF f, g, k
<1>6. Addends(f, Upgrade) /\ Addends(g, Upgrade)
  BY <1>1, <1>4 DEF Addends
<1>7. Sum(g, Upgrade) = Sum(f, Upgrade) + (g[u] - f[u])
  BY <1>3, <1>6, SumChange
<1>8. g[u] - f[u] = k * n
  <2>1. b[u] \in Nat /\ k \in Nat /\ f[u] = b[u] * k /\ g[u] = (b[u] + n) * k
    BY <1>1, <1>2, <1>3
  <2>2. (b[u] + n) * k = b[u] * k + k * n /\ b[u] * k \in Nat /\ k * n \in Nat
    BY <2>1
  <2> QED
    BY <2>1, <2>2
<1> QED
  BY <1>5, <1>7, <1>8 DEF d, k
-----------------------------------------------------------------------------
\* The purses hold money, but not more than an int does.
PursesOK ==
    /\ wallet \in [Client -> Purse]
    /\ \A c \in Client : wallet[c].money \in 0..(Half - 1) /\ wallet[c].level <= MaxLevel

\* A step pays or earns money, feeds someone, changes upgrades, or does none of
\* this.
Coins ==
    /\ \E c \in Client, m \in 0..(Half - 1) : wallet' = [wallet EXCEPT ![c].money = m]
    /\ up' = up
Fed == \E c \in Client, i \in Item, n \in 1..MaxHeld : Eat(c, i, n)
Upgrades ==
    \/ \E c \in Client, i \in Item, n \in 1..MaxHeld : UseReset(c, i, n)
    \/ \E c \in Client, u \in Upgrade, n \in Counts : BuyUpgrade(c, u, n)

LEMMA CoinsFit ==
    ASSUME PursesOK, NEW c \in Client, NEW m \in Int, m \in 0..(Half - 1),
           wallet' = [wallet EXCEPT ![c].money = Wrap(m)], up' = up
    PROVE  Coins
<1>1. m \in IntRange
  BY Limits DEF IntRange
<1>2. Wrap(m) = m
  BY <1>1, WrapFacts
<1> QED
  BY <1>2 DEF Coins

LEMMA PurseCases ==
    ASSUME Shape, PursesOK, [Next]_vars
    PROVE  UNCHANGED <<wallet, up>> \/ Coins \/ Fed \/ Upgrades
<1>0. /\ MaxMoney \in Nat /\ MaxMoney < Half /\ Half \in Nat
      /\ \A c \in Client : wallet[c].money \in Int /\ 0 <= wallet[c].money /\ wallet[c].money < Half
  BY InventoryAssumption DEF PursesOK, Purse
<1>1. ASSUME NEW c \in Client, NEW i \in Item, NEW n \in 1..MaxHeld, OpenBag(c, i, n)
      PROVE  Coins
  <2>1. PICK r \in 1..5 : /\ wallet[c].money + r * n <= MaxMoney
                          /\ wallet' = [wallet EXCEPT ![c].money = Wrap(@ + r * n)]
    BY <1>1 DEF OpenBag
  <2> DEFINE k == r * n
  <2>2. k \in Nat
    OBVIOUS
  <2>3. wallet[c].money + k <= MaxMoney /\ wallet' = [wallet EXCEPT ![c].money = Wrap(wallet[c].money + k)]
    BY <2>1
  <2> HIDE DEF k
  <2>4. wallet[c].money + k \in Int /\ wallet[c].money + k \in 0..(Half - 1)
    BY <1>0, <2>2, <2>3
  <2>5. up' = up
    BY <1>1 DEF OpenBag
  <2> QED
    BY <2>3, <2>4, <2>5, CoinsFit
<1>2. ASSUME NEW c \in Client, NEW i \in Item, BuyItem(c, i)
      PROVE  Coins
  <2> DEFINE m == wallet[c].money - Shop[i].cost
  <2>1. Shop[i].cost \in Nat /\ wallet[c].money >= Shop[i].cost /\ up' = up
    BY <1>2, InventoryAssumption DEF BuyItem
  <2>2. m \in Int /\ m \in 0..(Half - 1)
    BY <1>0, <2>1
  <2>3. wallet' = [wallet EXCEPT ![c].money = Wrap(m)]
    BY <1>2 DEF BuyItem
  <2> HIDE DEF m
  <2> QED
    BY <2>1, <2>2, <2>3, CoinsFit
<1>3. ASSUME NEW c \in Client, SellMaterial(c)
      PROVE  Coins
  <2> DEFINE k == inv[c][Material].count
             m == wallet[c].money + (k \div 10)
  <2>1. k \in Int /\ k > 0
    BY <1>3, InventoryAssumption, EntryFacts DEF SellMaterial, Shape, Bag
  <2>2. k \div 10 \in Nat
    <3> HIDE DEF k
    <3> QED
      BY <2>1
  <2>3. m <= MaxMoney /\ wallet' = [wallet EXCEPT ![c].money = Wrap(m)] /\ up' = up
    BY <1>3 DEF SellMaterial
  <2>4. m \in Int /\ m \in 0..(Half - 1)
    <3> HIDE DEF k
    <3> QED
      BY <1>0, <2>2, <2>3
  <2> HIDE DEF m
  <2> QED
    BY <2>3, <2>4, CoinsFit
<1>4. ASSUME NEW c \in Client, Spawn(c) \/ Die(c) PROVE UNCHANGED <<wallet, up>>
  BY <1>4 DEF Spawn, Die
<1>5. ASSUME NEW c \in Client, NEW i \in Item, SetEquippedItem(c, i) PROVE UNCHANGED <<wallet, up>>
  BY <1>5 DEF SetEquippedItem
<1>6. ASSUME NEW c \in Client, NEW i \in Item, NEW n, CraftItem(c, i, n) \/ DropItem(c, i, n) \/ OpenBox(c, i, n)
      PROVE  UNCHANGED <<wallet, up>>
  BY <1>6 DEF CraftItem, DropItem, OpenBox
<1>7. ASSUME NEW c \in Client, NEW what, Work(c, what) PROVE UNCHANGED <<wallet, up>>
  BY <1>7 DEF Work
<1>8. ASSUME NEW c \in Client, NEW k, PickUp(c, k) \/ Vanish(k) PROVE UNCHANGED <<wallet, up>>
  BY <1>8 DEF PickUp, Vanish
<1>9. ASSUME NEW k, Vanish(k) PROVE UNCHANGED <<wallet, up>>
  BY <1>9 DEF Vanish
<1>10. UNCHANGED vars => UNCHANGED <<wallet, up>>
  BY DEF vars
<1> QED
  BY <1>1, <1>2, <1>3, <1>4, <1>5, <1>6, <1>7, <1>8, <1>9, <1>10 DEF Next, Earn, Fed, Upgrades

LEMMA PursesInit == Init => PursesOK
<1> SUFFICES ASSUME Init PROVE PursesOK
  OBVIOUS
<1>1. wallet = [c \in Client |-> [money |-> 0, exp |-> 0, level |-> 1]]
  BY DEF Init
<1>2. [money |-> 0, exp |-> 0, level |-> 1] \in Purse /\ 0 \in 0..(Half - 1) /\ 1 <= MaxLevel
  BY Limits, InventoryAssumption DEF Purse
<1> QED
  BY <1>1, <1>2 DEF PursesOK

\* What eating does to the one who eats.
LEMMA EatEffect ==
    ASSUME PursesOK, NEW c \in Client, NEW i \in Item, NEW n \in 1..MaxHeld, Eat(c, i, n)
    PROVE  \E fed \in Purse :
              /\ Levelled([wallet[c] EXCEPT !.exp = Wrap(@ + Food[i] * n)], fed)
              /\ fed.level <= MaxLevel /\ fed.level >= wallet[c].level
              /\ fed.money = wallet[c].money
              /\ wallet' = [wallet EXCEPT ![c] = fed]
              /\ up' = [up EXCEPT ![c].points = @ + 2 * (fed.level - wallet[c].level)]
<1> DEFINE fed == AddEXP(wallet[c], Food[i] * n)
           full == [wallet[c] EXCEPT !.exp = Wrap(@ + Food[i] * n)]
<1>1. i \in DOMAIN Food /\ Food[i] \in Nat /\ Food[i] * n \in Int
  BY InventoryAssumption DEF Eat
<1>2. wallet[c] \in Purse
  BY DEF PursesOK
<1>3. Levelled(full, fed)
  BY <1>1, <1>2, AddEXPFacts
<1>4. full.money = wallet[c].money /\ full.level = wallet[c].level
  BY <1>2 DEF Purse
<1>5. /\ fed.level <= MaxLevel
      /\ wallet' = [wallet EXCEPT ![c] = fed]
      /\ up' = [up EXCEPT ![c].points = @ + 2 * (fed.level - wallet[c].level)]
  BY DEF Eat
<1> HIDE DEF fed
<1>6. fed \in Purse /\ fed.money = full.money /\ fed.level >= full.level
  BY <1>3 DEF Levelled
<1> QED
  BY <1>3, <1>4, <1>5, <1>6

LEMMA PursesNext ==
    ASSUME Shape, PursesOK, [Next]_vars
    PROVE  PursesOK'
<1>1. CASE UNCHANGED <<wallet, up>>
  BY <1>1 DEF PursesOK
<1>2. CASE Coins
  <2>1. PICK c \in Client, m \in 0..(Half - 1) : wallet' = [wallet EXCEPT ![c].money = m]
    BY <1>2 DEF Coins
  <2>2. wallet[c] \in Purse /\ m \in Int
    BY Limits DEF PursesOK
  <2>3. /\ [wallet[c] EXCEPT !.money = m] \in Purse
        /\ [wallet[c] EXCEPT !.money = m].money = m
        /\ [wallet[c] EXCEPT !.money = m].level = wallet[c].level
    BY <2>2 DEF Purse
  <2>4. wallet' = [wallet EXCEPT ![c] = [wallet[c] EXCEPT !.money = m]]
    BY <2>1
  <2> QED
    BY <2>3, <2>4 DEF PursesOK
<1>3. CASE Fed
  <2>1. PICK c \in Client, i \in Item, n \in 1..MaxHeld : Eat(c, i, n)
    BY <1>3 DEF Fed
  <2>2. PICK fed \in Purse : /\ fed.level <= MaxLevel /\ fed.money = wallet[c].money
                             /\ wallet' = [wallet EXCEPT ![c] = fed]
    BY <2>1, EatEffect
  <2> QED
    BY <2>2 DEF PursesOK
<1>4. CASE Upgrades
  <2>1. wallet' = wallet
    BY <1>4 DEF Upgrades, UseReset, BuyUpgrade
  <2> QED
    BY <2>1 DEF PursesOK
<1> QED
  BY <1>1, <1>2, <1>3, <1>4, PurseCases

\* The upgrades bought are counted from zero, and PointsKept.
Bought == [points : Int, bought : [Upgrade -> Nat]]
PointsOK == up \in [Client -> Bought] /\ PointsKept

LEMMA PointsInit == Init => PointsOK
<1> SUFFICES ASSUME Init PROVE PointsOK
  OBVIOUS
<1> DEFINE none == [u \in Upgrade |-> 0]
<1>1. /\ wallet = [c \in Client |-> [money |-> 0, exp |-> 0, level |-> 1]]
      /\ up = [c \in Client |-> [points |-> 0, bought |-> none]]
  BY DEF Init
<1>2. none \in [Upgrade -> Nat] /\ Spent(none) = 0
  BY SpentNothing
<1> HIDE DEF none
<1>3. [points |-> 0, bought |-> none] \in Bought
  BY <1>2 DEF Bought
<1>4. up \in [Client -> Bought]
  BY <1>1, <1>3
<1>5. \A c \in Client : up[c].points = 0 /\ up[c].bought = none /\ wallet[c].level = 1
  BY <1>1
<1>6. PointsKept
  BY <1>2, <1>5 DEF PointsKept
<1> QED
  BY <1>4, <1>6 DEF PointsOK

\* What one player has: his points and upgrades make up for his levels.
Balanced(points, bought, level) ==
    points >= 0 /\ points + Spent(bought) = 2 * (level - 1)

\* It is enough to look at the one whose points and upgrades change.
LEMMA PointsChange ==
    ASSUME PointsOK, NEW c \in Client, NEW p \in Int, NEW b \in [Upgrade -> Nat],
           up' = [up EXCEPT ![c] = [points |-> p, bought |-> b]],
           Balanced(p, b, wallet'[c].level),
           \A d \in Client \ {c} : wallet'[d].level = wallet[d].level
    PROVE  PointsOK'
<1>1. [points |-> p, bought |-> b] \in Bought
  BY DEF Bought
<1>2. up' \in [Client -> Bought]
  BY <1>1 DEF PointsOK
<1>3. ASSUME NEW d \in Client
      PROVE  up'[d].points >= 0 /\ up'[d].points + Spent(up'[d].bought) = 2 * (wallet'[d].level - 1)
  <2>1. CASE d = c
    <3>1. up'[c].points = p /\ up'[c].bought = b
      BY DEF PointsOK
    <3> QED
      BY <2>1, <3>1 DEF Balanced
  <2>2. CASE d # c
    <3>1. up'[d] = up[d] /\ wallet'[d].level = wallet[d].level
      BY <2>2 DEF PointsOK
    <3> QED
      BY <3>1 DEF PointsOK, PointsKept
  <2> QED
    BY <2>1, <2>2
<1>4. PointsKept'
  BY <1>3 DEF PointsKept, Spent, Sum
<1> QED
  BY <1>2, <1>4 DEF PointsOK

LEMMA PointsSame ==
    ASSUME PointsOK, up' = up, \A d \in Client : wallet'[d].level = wallet[d].level
    PROVE  PointsOK'
<1>1. ASSUME NEW d \in Client
      PROVE  up'[d].points >= 0 /\ up'[d].points + Spent(up'[d].bought) = 2 * (wallet'[d].level - 1)
  BY DEF PointsOK, PointsKept
<1>2. PointsKept'
  BY <1>1 DEF PointsKept, Spent, Sum
<1> QED
  BY <1>2 DEF PointsOK

LEMMA PointsNext ==
    ASSUME SmallUpgrades, Shape, PursesOK, PointsOK, [Next]_vars
    PROVE  PointsOK'
<1>0. ASSUME NEW c \in Client
      PROVE  /\ up[c] = [points |-> up[c].points, bought |-> up[c].bought]
             /\ up[c].points \in Nat /\ up[c].bought \in [Upgrade -> Nat]
             /\ up[c].points + Spent(up[c].bought) = 2 * (wallet[c].level - 1)
             /\ Spent(up[c].bought) \in Nat
             /\ wallet[c].level \in Nat /\ 2 * (wallet[c].level - 1) < Half
  <2>1. up[c] \in Bought
    BY DEF PointsOK
  <2>2. up[c].points >= 0 /\ up[c].points + Spent(up[c].bought) = 2 * (wallet[c].level - 1)
    BY DEF PointsOK, PointsKept
  <2>3. up[c].bought \in [Upgrade -> Nat] /\ up[c].points \in Nat
    BY <2>1, <2>2 DEF Bought
  <2>4. wallet[c].level \in Nat /\ wallet[c].level <= MaxLevel
    BY DEF PursesOK, Purse
  <2>5. MaxLevel \in Nat /\ 2 * (MaxLevel - 1) < Half /\ Half \in Nat
    BY InventoryAssumption DEF SmallUpgrades
  <2>6. 2 * (wallet[c].level - 1) < Half
    BY <2>4, <2>5
  <2>7. Spent(up[c].bought) \in Nat
    BY <2>3, SpentFacts
  <2>8. up[c] = [points |-> up[c].points, bought |-> up[c].bought]
    BY <2>1 DEF Bought
  <2> QED
    BY <2>2, <2>3, <2>4, <2>6, <2>7, <2>8
<1>1. CASE UNCHANGED <<wallet, up>>
  BY <1>1, PointsSame
<1>2. CASE Coins
  <2>1. PICK c \in Client, m \in 0..(Half - 1) : wallet' = [wallet EXCEPT ![c].money = m]
    BY <1>2 DEF Coins
  <2>2. \A d \in Client : wallet'[d].level = wallet[d].level
    BY <2>1 DEF PursesOK, Purse
  <2>3. up' = up
    BY <1>2 DEF Coins
  <2> QED
    BY <2>2, <2>3, PointsSame
<1>3. CASE Fed
  <2>1. PICK c \in Client, i \in Item, n \in 1..MaxHeld : Eat(c, i, n)
    BY <1>3 DEF Fed
  <2>2. PICK fed \in Purse :
              /\ fed.level >= wallet[c].level
              /\ wallet' = [wallet EXCEPT ![c] = fed]
              /\ up' = [up EXCEPT ![c].points = @ + 2 * (fed.level - wallet[c].level)]
    BY <2>1, EatEffect
  <2> DEFINE p == up[c].points + 2 * (fed.level - wallet[c].level)
             b == up[c].bought
  <2>3. fed.level \in Nat
    BY DEF Purse
  <2>4. p \in Int /\ p >= 0 /\ p + Spent(b) = 2 * (fed.level - 1)
    <3> DEFINE s == Spent(b)
    <3>1. up[c].points \in Nat /\ s \in Nat /\ wallet[c].level \in Nat
          /\ up[c].points + s = 2 * (wallet[c].level - 1)
      BY <1>0
    <3> HIDE DEF s
    <3>2. p + s = 2 * (fed.level - 1) /\ p \in Int /\ p >= 0
      BY <2>2, <2>3, <3>1
    <3> HIDE DEF p, b
    <3> QED
      BY <3>2 DEF s
  <2>5. up' = [up EXCEPT ![c] = [points |-> p, bought |-> b]]
    <3>1. up' = [up EXCEPT ![c] = [up[c] EXCEPT !.points = p]]
      BY <2>2
    <3>2. up[c] = [points |-> up[c].points, bought |-> b]
      BY <1>0
    <3> HIDE DEF p, b
    <3>3. [up[c] EXCEPT !.points = p] = [points |-> p, bought |-> b]
      BY <3>2
    <3> QED
      BY <3>1, <3>3
  <2>6. wallet'[c] = fed /\ \A d \in Client \ {c} : wallet'[d] = wallet[d]
    BY <2>2 DEF PursesOK
  <2>7. b \in [Upgrade -> Nat]
    BY <1>0
  <2> HIDE DEF p, b
  <2>8. Balanced(p, b, wallet'[c].level)
    BY <2>4, <2>6 DEF Balanced
  <2> QED
    BY <2>4, <2>5, <2>6, <2>7, <2>8, PointsChange
<1>4. ASSUME NEW c \in Client, NEW i \in Item, NEW n \in 1..MaxHeld, UseReset(c, i, n)
      PROVE  PointsOK'
  <2> DEFINE p == up[c].points + Spent(up[c].bought)
             b == [u \in Upgrade |-> 0]
  <2>1. p \in Int /\ p \in IntRange /\ p >= 0 /\ p = 2 * (wallet[c].level - 1)
    <3> DEFINE s == Spent(up[c].bought)
    <3>1. up[c].points \in Nat /\ s \in Nat /\ wallet[c].level \in Nat
          /\ up[c].points + s = 2 * (wallet[c].level - 1) /\ 2 * (wallet[c].level - 1) < Half
      BY <1>0
    <3> HIDE DEF s
    <3>2. p = up[c].points + s
      BY DEF s
    <3> HIDE DEF p
    <3> QED
      BY <3>1, <3>2, Limits DEF IntRange
  <2>2. up' = [up EXCEPT ![c] = [points |-> Wrap(p), bought |-> b]] /\ wallet' = wallet
    BY <1>4 DEF UseReset
  <2>3. b \in [Upgrade -> Nat] /\ Spent(b) = 0
    BY SpentNothing
  <2> HIDE DEF p, b
  <2>4. Wrap(p) = p
    BY <2>1, WrapFacts
  <2>5. Balanced(p, b, wallet'[c].level)
    BY <2>1, <2>2, <2>3 DEF Balanced
  <2> QED
    BY <2>1, <2>2, <2>3, <2>4, <2>5, PointsChange
<1>5. ASSUME NEW c \in Client, NEW u \in Upgrade, NEW n \in Counts, BuyUpgrade(c, u, n)
      PROVE  PointsOK'
  <2> DEFINE k == GetUpgradeCost(u) * n
             b == up[c].bought
             m == b[u] + n
             d == [b EXCEPT ![u] = m]
             p == up[c].points - k
  <2>0. n \in Nat /\ k \in Nat /\ k < Half /\ n <= k
    <3>1. n \in Nat /\ GetUpgradeCost(u) \in Nat /\ GetUpgradeCost(u) >= 1
      BY InventoryAssumption, CostFacts
    <3>2. k < Half
      BY DEF SmallUpgrades
    <3> QED
      BY <3>1, <3>2, SMT
  <2>1. k \in IntRange /\ k \in Int
    BY <2>0, Limits DEF IntRange
  <2>2. Wrap(k) = k
    BY <2>1, WrapFacts
  <2>3. /\ Wrap(k) <= up[c].points
        /\ up' = [up EXCEPT ![c].points = Wrap(@ - Wrap(k)), ![c].bought[u] = Wrap(@ + n)]
        /\ wallet' = wallet
    BY <1>5 DEF BuyUpgrade
  <2>4. /\ up[c] = [points |-> up[c].points, bought |-> b] /\ b \in [Upgrade -> Nat]
        /\ up[c].points \in Nat /\ Spent(b) \in Nat
        /\ up[c].points + Spent(b) = 2 * (wallet[c].level - 1)
        /\ wallet[c].level \in Nat /\ 2 * (wallet[c].level - 1) < Half
    BY <1>0
  <2>5. b[u] \in Nat /\ b[u] <= Spent(b)
    BY <2>4, SpentFacts
  <2>6. Spent(d) = Spent(b) + k
    BY <2>0, <2>4, SpentMore
  <2> HIDE DEF k, b
  <2>7. p \in Nat /\ p < Half /\ m \in Nat /\ m < Half
    <3> DEFINE s == Spent(b)
    <3>1. /\ up[c].points \in Nat /\ s \in Nat /\ wallet[c].level \in Nat
          /\ up[c].points + s = 2 * (wallet[c].level - 1) /\ 2 * (wallet[c].level - 1) < Half
          /\ b[u] \in Nat /\ b[u] <= s
      BY <2>4, <2>5
    <3>2. k <= up[c].points /\ k \in Nat /\ n <= k /\ n \in Nat
      BY <2>0, <2>2, <2>3
    <3> HIDE DEF s
    <3> QED
      BY <3>1, <3>2, Limits
  <2>8. Wrap(p) = p /\ Wrap(m) = m
    <3> HIDE DEF p, m
    <3>1. p \in Int /\ m \in Int /\ p \in IntRange /\ m \in IntRange
      BY <2>7, Limits DEF IntRange
    <3> QED
      BY <3>1, WrapFacts
  <2>9. d \in [Upgrade -> Nat]
    BY <2>4, <2>7
  <2>10. up' = [up EXCEPT ![c] = [points |-> p, bought |-> d]]
    <3>1. up' = [up EXCEPT ![c] = [[up[c] EXCEPT !.points = Wrap(p)] EXCEPT !.bought = [b EXCEPT ![u] = Wrap(m)]]]
      BY <2>2, <2>3, <2>4 DEF b, PointsOK, Bought
    <3>2. [[up[c] EXCEPT !.points = Wrap(p)] EXCEPT !.bought = [b EXCEPT ![u] = Wrap(m)]]
            = [points |-> p, bought |-> d]
      <4>1. [b EXCEPT ![u] = Wrap(m)] = d
        BY <2>8
      <4> HIDE DEF p, d, m
      <4>2. [up[c] EXCEPT !.points = Wrap(p)] = [points |-> p, bought |-> b]
        BY <2>4, <2>8
      <4> DEFINE e == [b EXCEPT ![u] = Wrap(m)]
                 r == [up[c] EXCEPT !.points = Wrap(p)]
      <4>3. e = d /\ r = [points |-> p, bought |-> b]
        BY <4>1, <4>2
      <4> HIDE DEF e, r
      <4>4. [r EXCEPT !.bought = e] = [points |-> p, bought |-> d]
        BY <4>3
      <4> QED
        BY <4>4 DEF e, r
    <3> QED
      BY <3>1, <3>2
  <2>11. p + Spent(d) = 2 * (wallet[c].level - 1)
    <3> HIDE DEF d
    <3> QED
      BY <2>0, <2>4, <2>6
  <2>a. p \in Int /\ p >= 0
    BY <2>7
  <2> HIDE DEF p, d
  <2>12. Balanced(p, d, wallet'[c].level)
    BY <2>3, <2>a, <2>11 DEF Balanced
  <2> QED
    BY <2>3, <2>a, <2>9, <2>10, <2>12, PointsChange
<1> QED
  BY <1>1, <1>2, <1>3, <1>4, <1>5, PurseCases DEF Upgrades

\* The points that levels brought are all there, unspent or in upgrades, as long
\* as the costs players ask for are ints.
THEOREM PointsCorrect ==
    ASSUME SmallUpgrades
    PROVE  Spec => []PointsKept
<1>1. PointsOK => PointsKept
  BY DEF PointsOK
<1>2. Shape /\ PursesOK /\ PointsOK /\ [Next]_vars => PursesOK' /\ PointsOK'
  BY PursesNext, PointsNext
<1> QED
  BY <1>1, <1>2, ShapeInit, ShapeNext, PursesInit, PointsInit, PTL DEF Spec

\* The experience is less than the next level takes.
ExpOK ==
    \A c \in Client :
        /\ wallet[c].exp >= 0 /\ wallet[c].exp < Half
        /\ wallet[c].exp < GetExpForLevelUp(wallet[c].level)

LEMMA ExpInit == Init => ExpOK
<1> SUFFICES ASSUME Init, NEW c \in Client
             PROVE  /\ wallet[c].exp >= 0 /\ wallet[c].exp < Half
                    /\ wallet[c].exp < GetExpForLevelUp(wallet[c].level)
  BY DEF ExpOK
<1>1. wallet[c].exp = 0 /\ wallet[c].level = 1
  BY DEF Init
<1>2. 1 \in Nat \ {0}
  OBVIOUS
<1>3. GetExpForLevelUp(1) > 0
  BY <1>2, NeedFacts
<1> QED
  BY <1>1, <1>3, Limits

LEMMA ExpNext ==
    ASSUME SmallMeals, Shape, PursesOK, ExpOK, [Next]_vars
    PROVE  ExpOK'
<1> SUFFICES ASSUME NEW d \in Client
             PROVE  /\ wallet'[d].exp >= 0 /\ wallet'[d].exp < Half
                    /\ wallet'[d].exp < GetExpForLevelUp(wallet'[d].level)
  BY DEF ExpOK, GetExpForLevelUp
<1>0. /\ wallet[d].exp >= 0 /\ wallet[d].exp < Half
      /\ wallet[d].exp < GetExpForLevelUp(wallet[d].level)
  BY DEF ExpOK
<1>1. CASE UNCHANGED <<wallet, up>> \/ Upgrades
  <2>1. wallet' = wallet
    BY <1>1 DEF Upgrades, UseReset, BuyUpgrade
  <2> QED
    BY <1>0, <2>1
<1>2. CASE Coins
  <2>1. PICK c \in Client, m \in 0..(Half - 1) : wallet' = [wallet EXCEPT ![c].money = m]
    BY <1>2 DEF Coins
  <2>2. wallet'[d].exp = wallet[d].exp /\ wallet'[d].level = wallet[d].level
    BY <2>1 DEF PursesOK, Purse
  <2> QED
    BY <1>0, <2>2
<1>3. CASE Fed
  <2>1. PICK c \in Client, i \in Item, n \in 1..MaxHeld : Eat(c, i, n)
    BY <1>3 DEF Fed
  <2> DEFINE full == [wallet[c] EXCEPT !.exp = Wrap(@ + Food[i] * n)]
  <2>2. PICK fed \in Purse :
              /\ Levelled(full, fed) /\ fed.level <= MaxLevel
              /\ wallet' = [wallet EXCEPT ![c] = fed]
    BY <2>1, EatEffect
  <2>3. CASE d # c
    <3>1. wallet'[d] = wallet[d]
      BY <2>2, <2>3 DEF PursesOK
    <3> QED
      BY <1>0, <3>1
  <2>4. CASE d = c
    <3> DEFINE k == Food[i] * n
               need == GetExpForLevelUp(wallet[c].level)
               e == wallet[c].exp
    <3>1. /\ wallet[c] \in Purse /\ wallet[c].level \in 1..MaxLevel
          /\ wallet[c].level \in Nat \ {0} /\ e \in Int
      BY InventoryAssumption DEF PursesOK, Purse
    <3>2. i \in DOMAIN Food /\ k \in Nat
      BY <2>1, InventoryAssumption DEF Eat
    <3>3. k + need <= Half
      BY <3>1, <3>2 DEF SmallMeals
    <3>4. need \in Nat
      BY <3>1, NeedFacts
    <3>5. e >= 0 /\ e < need
      BY <1>0, <2>4
    <3>6. full.exp = Wrap(e + k)
      BY <3>1 DEF Purse
    <3> HIDE DEF k, need, e
    <3>7. e + k \in Int /\ e + k >= 0 /\ e + k < Half /\ e + k \in IntRange
      BY <3>1, <3>2, <3>3, <3>4, <3>5, Limits DEF IntRange
    <3>8. Wrap(e + k) = e + k
      BY <3>7, WrapFacts
    <3> HIDE DEF full
    <3>9. /\ fed.exp \in Int /\ fed.exp >= 0 /\ fed.exp <= full.exp
          /\ fed.exp < GetExpForLevelUp(fed.level)
      BY <2>2, <3>6, <3>7, <3>8 DEF Levelled, Purse
    <3>10. fed.exp < Half
      BY <3>6, <3>7, <3>8, <3>9, Limits
    <3>11. wallet'[d] = fed
      BY <2>2, <2>4 DEF PursesOK
    <3> QED
      BY <3>9, <3>10, <3>11
  <2> QED
    BY <2>3, <2>4
<1> QED
  BY <1>1, <1>2, <1>3, PurseCases

\* Numbers fit an int, and money and experience are never below zero, as long as
\* players write counts for which costs and meals are ints.
THEOREM TypeCorrect ==
    ASSUME SmallUpgrades, SmallMeals
    PROVE  Spec => []TypeOK
<1>1. Shape /\ PursesOK /\ PointsOK /\ ExpOK => TypeOK
  <2> SUFFICES ASSUME Shape, PursesOK, PointsOK, ExpOK PROVE TypeOK
    OBVIOUS
  <2>1. inv \in [Client -> [Item -> [count : IntRange, worn : BOOLEAN]]]
    BY DEF Shape, Bag, Entry
  <2>2. wallet \in [Client -> [money : IntRange \cap Nat, exp : IntRange \cap Nat, level : 1..MaxLevel]]
    <3>1. ASSUME NEW c \in Client
          PROVE  wallet[c] \in [money : IntRange \cap Nat, exp : IntRange \cap Nat, level : 1..MaxLevel]
      <4>1. /\ wallet[c] \in Purse /\ wallet[c].money \in 0..(Half - 1) /\ wallet[c].level <= MaxLevel
            /\ wallet[c].exp >= 0 /\ wallet[c].exp < Half
        BY DEF PursesOK, ExpOK
      <4>2. wallet[c].money \in IntRange \cap Nat /\ wallet[c].exp \in IntRange \cap Nat
        BY <4>1, Limits DEF IntRange, Purse
      <4>3. wallet[c].level \in 1..MaxLevel
        BY <4>1, InventoryAssumption DEF Purse
      <4> QED
        BY <4>1, <4>2, <4>3 DEF Purse
    <3> QED
      BY <3>1 DEF PursesOK
  <2>3. up \in [Client -> [points : IntRange, bought : [Upgrade -> IntRange]]]
    <3>1. ASSUME NEW c \in Client
          PROVE  up[c] \in [points : IntRange, bought : [Upgrade -> IntRange]]
      <4>1. /\ up[c] \in Bought /\ up[c].points >= 0
            /\ up[c].points + Spent(up[c].bought) = 2 * (wallet[c].level - 1)
        BY DEF PointsOK, PointsKept
      <4>2. up[c].bought \in [Upgrade -> Nat] /\ up[c].points \in Nat
        BY <4>1 DEF Bought
      <4> DEFINE s == Spent(up[c].bought)
      <4>3. s \in Nat /\ \A u \in Upgrade : up[c].bought[u] <= s /\ up[c].bought[u] \in Nat
        BY <4>2, SpentFacts
      <4>4. /\ wallet[c].level \in Nat /\ wallet[c].level <= MaxLevel /\ MaxLevel \in Nat
            /\ 2 * (MaxLevel - 1) < Half
        BY InventoryAssumption DEF PursesOK, Purse, SmallUpgrades
      <4>5. up[c].points + s = 2 * (wallet[c].level - 1)
        BY <4>1
      <4> HIDE DEF s
      <4>6. up[c].points < Half /\ s < Half
        BY <4>2, <4>3, <4>4, <4>5, Limits
      <4>7. up[c].points \in IntRange
        BY <4>2, <4>6, Limits DEF IntRange
      <4>8. \A u \in Upgrade : up[c].bought[u] \in IntRange
        BY <4>3, <4>6, Limits DEF IntRange
      <4>9. up[c].bought \in [Upgrade -> IntRange]
        BY <4>2, <4>8
      <4> QED
        BY <4>1, <4>7, <4>9 DEF Bought
    <3> QED
      BY <3>1 DEF PointsOK
  <2>4. alive \in [Client -> BOOLEAN] /\ pet \in [Client -> BOOLEAN]
    BY DEF Shape
  <2>5. \A k \in 1..Len(ground) : ground[k] \in [item : Item, count : IntRange]
    BY ElementOfSeq DEF Shape, Thing
  <2> QED
    BY <2>1, <2>2, <2>3, <2>4, <2>5 DEF TypeOK
<1>2. Shape /\ PursesOK /\ PointsOK /\ ExpOK /\ [Next]_vars => PursesOK' /\ PointsOK' /\ ExpOK'
  BY PursesNext, PointsNext, ExpNext
<1> QED
  BY <1>1, <1>2, ShapeInit, ShapeNext, PursesInit, PointsInit, ExpInit, PTL DEF Spec

-----------------------------------------------------------------------------
(* What things are worth.                                                  *)

BagWorth(bag) == Sum([i \in Item |-> bag[i].count * Worth[i]], Item)
GroundWorth(things) ==
    Sum([k \in 1..Len(things) |-> things[k].count * Worth[things[k].item]], 1..Len(things))
Riches(purses, bags) == Sum([c \in Client |-> purses[c].money + BagWorth(bags[c])], Client)

LEMMA WorthFacts ==
    /\ \A i \in Item : Worth[i] \in Nat
    /\ \A i \in DOMAIN Crafts : Worth[i] = Sum(Crafts[i], DOMAIN Crafts[i])
<1>1. ASSUME NEW i \in Item, i \in DOMAIN Crafts
      PROVE  Sum(Crafts[i], DOMAIN Crafts[i]) \in Nat
  <2> DEFINE f == Crafts[i]
             D == DOMAIN Crafts[i]
  <2>1. IsFiniteSet(Item) /\ D \in SUBSET Item /\ \A j \in D : f[j] \in Nat
    BY <1>1, InventoryAssumption
  <2> HIDE DEF f, D
  <2>2. IsFiniteSet(D)
    BY <2>1, FS_Subset
  <2>3. Sum(f, D) \in Nat
    BY <2>1, <2>2, SumNat
  <2> QED
    BY <2>3 DEF f, D
<1>2. DOMAIN Crafts \subseteq Item /\ \A i \in DOMAIN Shop : Shop[i].cost \in Nat
  BY InventoryAssumption
<1>3. \A i \in Item :
        Worth[i] = IF i \in DOMAIN Crafts THEN Sum(Crafts[i], DOMAIN Crafts[i])
                   ELSE IF i \in DOMAIN Shop THEN Shop[i].cost ELSE 1
  BY Zenon DEF Worth
<1> QED
  BY <1>1, <1>2, <1>3

LEMMA BagWorthFacts ==
    ASSUME NEW bag \in Bag
    PROVE  /\ Addends([i \in Item |-> bag[i].count * Worth[i]], Item)
           /\ BagWorth(bag) \in Int
<1> DEFINE f == [i \in Item |-> bag[i].count * Worth[i]]
<1>1. ASSUME NEW i \in Item PROVE f[i] \in Int
  <2>1. bag[i].count \in Int /\ Worth[i] \in Int
    BY EntryFacts, WorthFacts DEF Bag
  <2> QED
    BY <2>1
<1>2. Addends(f, Item)
  BY <1>1, InventoryAssumption DEF Addends
<1> HIDE DEF f
<1>3. Sum(f, Item) \in Int
  BY <1>2, SumFacts
<1> QED
  BY <1>2, <1>3 DEF f, BagWorth

\* A bag in which the count of one item changed.
LEMMA BagWorthChange ==
    ASSUME NEW bag \in Bag, NEW other \in Bag, NEW i \in Item,
           \A j \in Item \ {i} : other[j].count = bag[j].count
    PROVE  BagWorth(other) = BagWorth(bag) + (other[i].count - bag[i].count) * Worth[i]
<1> DEFINE f == [j \in Item |-> bag[j].count * Worth[j]]
           g == [j \in Item |-> other[j].count * Worth[j]]
<1>1. Addends(f, Item) /\ Addends(g, Item)
  BY BagWorthFacts
<1>2. \A j \in Item \ {i} : f[j] = g[j]
  OBVIOUS
<1>3. f[i] = bag[i].count * Worth[i] /\ g[i] = other[i].count * Worth[i]
  OBVIOUS
<1>4. BagWorth(bag) = Sum(f, Item) /\ BagWorth(other) = Sum(g, Item)
  BY DEF BagWorth
<1> HIDE DEF f, g
<1>5. Sum(g, Item) = Sum(f, Item) + (g[i] - f[i])
  BY <1>1, <1>2, SumChange
<1> DEFINE a == bag[i].count
           b == other[i].count
           w == Worth[i]
<1>6. a \in Int /\ b \in Int /\ w \in Int
  BY EntryFacts, WorthFacts DEF Bag
<1>7. f[i] = a * w /\ g[i] = b * w
  BY <1>3
<1> HIDE DEF a, b, w
<1>8. b * w - a * w = (b - a) * w
  BY <1>6
<1>9. BagWorth(other) = BagWorth(bag) + (b - a) * w
  BY <1>4, <1>5, <1>7, <1>8
<1> QED
  BY <1>9 DEF a, b, w

\* What is taken from a bag is missing there, and no more is put into it than
\* was given.
LEMMA RemItemTakes ==
    ASSUME NEW bag \in Bag, Good(bag), NEW i \in Item, NEW n \in Int,
           n = -1 \/ n \in 1..bag[i].count
    PROVE  RemItem(bag, i, n)[i].count = bag[i].count - (IF n = -1 THEN bag[i].count ELSE n)
<1>1. /\ bag[i] \in Entry /\ bag[i].count \in Nat /\ bag[i].count < Half
      /\ Nothing.count = 0
  BY EntryFacts DEF Bag, Good, GoodEntry, Nothing
<1>2. CASE bag[i].count = 0
  <2>1. n = -1
    BY <1>2
  <2>2. RemItem(bag, i, n) = bag
    BY <1>2 DEF RemItem
  <2> QED
    BY <1>2, <2>1, <2>2
<1>3. CASE bag[i].count # 0 /\ n = -1
  <2>1. RemItem(bag, i, n)[i] = Nothing
    BY <1>3 DEF RemItem, Bag
  <2> QED
    BY <1>1, <1>3, <2>1
<1>4. CASE bag[i].count # 0 /\ n # -1
  <2> DEFINE m == bag[i].count - n
             e == [bag[i] EXCEPT !.count = Wrap(bag[i].count - n)]
  <2>1. m \in Int /\ m >= 0 /\ m \in IntRange
    BY <1>1, <1>4, Limits DEF IntRange
  <2> HIDE DEF m
  <2>2. Wrap(m) = m
    BY <2>1, WrapFacts
  <2>3. CASE m = 0
    <3>1. Wrap(bag[i].count - n) <= 0
      BY <2>2, <2>3 DEF m
    <3>2. RemItem(bag, i, n)[i] = Nothing
      BY <1>4, <3>1 DEF RemItem, Bag
    <3> QED
      BY <1>1, <1>4, <2>3, <3>2 DEF m
  <2>4. CASE m # 0
    <3>1. ~(Wrap(bag[i].count - n) <= 0)
      BY <2>1, <2>2, <2>4 DEF m
    <3>2. RemItem(bag, i, n) = [bag EXCEPT ![i] = e]
      BY <1>4, <3>1 DEF RemItem
    <3>3. e.count = m
      BY <1>1, <2>2 DEF m, Entry
    <3> HIDE DEF e
    <3>4. RemItem(bag, i, n)[i] = e
      BY <3>2 DEF Bag
    <3> QED
      BY <1>4, <3>3, <3>4 DEF m
  <2> QED
    BY <2>3, <2>4
<1> QED
  BY <1>2, <1>3, <1>4

LEMMA RemItemWorth ==
    ASSUME NEW bag \in Bag, Good(bag), NEW i \in Item, NEW n \in Int,
           n = -1 \/ n \in 1..bag[i].count
    PROVE  BagWorth(RemItem(bag, i, n))
             = BagWorth(bag) - (IF n = -1 THEN bag[i].count ELSE n) * Worth[i]
<1> DEFINE k == IF n = -1 THEN bag[i].count ELSE n
           b == RemItem(bag, i, n)
<1>1. b \in Bag /\ \A j \in Item \ {i} : b[j] = bag[j]
  BY RemItemShape
<1>2. b[i].count = bag[i].count - k
  BY RemItemTakes
<1>3. bag[i].count \in Int /\ k \in Int /\ Worth[i] \in Int
  BY EntryFacts, WorthFacts DEF Bag
<1> HIDE DEF b, k
<1>4. BagWorth(b) = BagWorth(bag) + (b[i].count - bag[i].count) * Worth[i]
  BY <1>1, BagWorthChange
<1>5. b[i].count - bag[i].count = -k
  BY <1>2, <1>3
<1>6. (-k) * Worth[i] = -(k * Worth[i]) /\ k * Worth[i] \in Int
  BY <1>3
<1>7. BagWorth(b) = BagWorth(bag) - k * Worth[i]
  BY <1>4, <1>5, <1>6, BagWorthFacts
<1> QED
  BY <1>7 DEF b, k

LEMMA GiveItemAdds ==
    ASSUME NEW bag \in Bag, Good(bag), NEW i \in Item, NEW n, Fits(bag, i, n)
    PROVE  /\ GiveItem(bag, i, n)[i].count \in Int
           /\ GiveItem(bag, i, n)[i].count <= bag[i].count + n
<1> DEFINE m == IF MaxCountOf[i] # -1 /\ Wrap(bag[i].count + n) > MaxCountOf[i]
                THEN MaxCountOf[i] - bag[i].count ELSE n
           e == [bag[i] EXCEPT !.count = Wrap(bag[i].count + m)]
<1>1. /\ bag[i] \in Entry /\ bag[i].count \in Nat /\ bag[i].count < Half
      /\ GoodEntry(i, bag[i]) /\ n \in 1..MaxGain
  BY EntryFacts DEF Bag, Good, GoodEntry, Fits
<1>2. GiveItem(bag, i, n) = IF bag[i].count = MaxCountOf[i] THEN bag ELSE [bag EXCEPT ![i] = e]
  BY DEF GiveItem
<1>3. CASE bag[i].count = MaxCountOf[i]
  BY <1>1, <1>2, <1>3, Limits
<1>4. CASE bag[i].count # MaxCountOf[i]
  <2>1. bag[i].count + n \in IntRange /\ bag[i].count + n \in Int
    BY <1>1, Limits DEF GoodEntry, Fits, IntRange
  <2>2. Wrap(bag[i].count + n) = bag[i].count + n
    BY <2>1, WrapFacts
  <2>3. m \in Int /\ bag[i].count + m >= 0 /\ m <= n
    BY <1>1, <2>2, Limits
  <2> HIDE DEF m
  <2>4. bag[i].count + m \in IntRange /\ bag[i].count + m \in Int
    BY <1>1, <2>1, <2>3, Limits DEF IntRange
  <2>5. Wrap(bag[i].count + m) = bag[i].count + m
    BY <2>4, WrapFacts
  <2>6. e.count = bag[i].count + m
    BY <1>1, <2>5 DEF Entry
  <2> HIDE DEF e
  <2>7. GiveItem(bag, i, n)[i] = e
    BY <1>2, <1>4 DEF Bag
  <2> QED
    BY <1>1, <2>3, <2>4, <2>6, <2>7, Limits
<1> QED
  BY <1>3, <1>4

LEMMA GiveItemWorth ==
    ASSUME NEW bag \in Bag, Good(bag), NEW i \in Item, NEW n, Fits(bag, i, n)
    PROVE  BagWorth(GiveItem(bag, i, n)) <= BagWorth(bag) + n * Worth[i]
<1> DEFINE b == GiveItem(bag, i, n)
<1>0. n \in Nat
  BY Limits DEF Fits
<1>1. b \in Bag /\ \A j \in Item \ {i} : b[j] = bag[j]
  BY <1>0, GiveItemShape
<1>2. b[i].count \in Int /\ b[i].count <= bag[i].count + n
  BY GiveItemAdds
<1>3. bag[i].count \in Int /\ Worth[i] \in Nat
  BY EntryFacts, WorthFacts DEF Bag
<1> HIDE DEF b
<1>4. BagWorth(b) = BagWorth(bag) + (b[i].count - bag[i].count) * Worth[i]
  BY <1>1, BagWorthChange
<1> DEFINE x == b[i].count - bag[i].count
<1>5. x \in Int /\ x <= n
  BY <1>0, <1>2, <1>3
<1> HIDE DEF x
<1>6. x * Worth[i] <= n * Worth[i] /\ x * Worth[i] \in Int /\ n * Worth[i] \in Int
  BY <1>0, <1>3, <1>5, SMT
<1>7. BagWorth(b) = BagWorth(bag) + x * Worth[i]
  BY <1>4 DEF x
<1>8. BagWorth(b) <= BagWorth(bag) + n * Worth[i]
  <2> DEFINE y == x * Worth[i]
             z == n * Worth[i]
             v == BagWorth(bag)
  <2>1. v \in Int
    BY BagWorthFacts
  <2>2. y <= z /\ y \in Int /\ z \in Int /\ BagWorth(b) = v + y
    BY <1>6, <1>7
  <2> HIDE DEF y, z, v
  <2>3. BagWorth(b) <= v + z
    BY <2>1, <2>2
  <2> QED
    BY <2>3 DEF v, z
<1> QED
  BY <1>8 DEF b

\* The bag that is left when the ingredients are taken is worth less by no less
\* than the products.
LEMMA CraftWorth ==
    ASSUME SmallCrafts, FairPrices, NEW old \in Bag, Good(old), NEW i \in Item, i \in DOMAIN Crafts,
           NEW n \in Counts, \A j \in DOMAIN Crafts[i] : old[j].count >= Wrap(Crafts[i][j] * n),
           NEW bag \in Bag,
           \A j \in Item : bag[j] = IF j \in DOMAIN Crafts[i]
                                    THEN RemItem(old, j, Wrap(Crafts[i][j] * n))[j] ELSE old[j]
    PROVE  BagWorth(bag) + n * Worth[i] <= BagWorth(old)
<1> DEFINE need == Crafts[i]
           D == DOMAIN need
           f == [j \in Item |-> old[j].count * Worth[j]]
           g == [j \in Item |-> IF j \in D THEN need[j] * Worth[j] ELSE 0]
           h == [j \in Item |-> bag[j].count * Worth[j]]
           m == -n
<1>1. /\ D \in SUBSET Item /\ \A j \in D : need[j] \in Nat \ {0} /\ Worth[j] >= 1
      /\ n \in Nat \ {0} /\ m \in Int
  BY InventoryAssumption DEF FairPrices
<1>2. ASSUME NEW j \in Item
      PROVE  /\ f[j] \in Int /\ g[j] \in Nat /\ h[j] = f[j] + m * g[j]
             /\ j \in D => need[j] <= g[j]
  <2> DEFINE w == Worth[j]
             a == old[j].count
             b == bag[j].count
  <2>1. w \in Nat /\ a \in Nat /\ b \in Int /\ old[j] \in Entry
    BY EntryFacts, WorthFacts DEF Bag, Good, GoodEntry
  <2>2. f[j] = a * w /\ h[j] = b * w
    OBVIOUS
  <2>3. CASE j \in D
    <3> DEFINE k == need[j] * n
    <3>1. k \in Nat /\ k >= 1 /\ k < Half
      <4>1. need[j] \in Nat /\ need[j] >= 1 /\ n >= 1 /\ n \in Nat
        BY <1>1, <2>3
      <4>2. k < Half
        BY <2>3 DEF SmallCrafts
      <4> QED
        BY <4>1, <4>2, SMT
    <3>2. k \in IntRange /\ k \in Int
      BY <3>1, Limits DEF IntRange
    <3>3. Wrap(k) = k
      <4> HIDE DEF k
      <4> QED
        BY <3>2, WrapFacts
    <3>4. a >= k
      BY <2>3, <3>3
    <3>5. bag[j] = RemItem(old, j, k)[j]
      BY <2>3, <3>3
    <3>6. b = a - k
      <4> HIDE DEF k
      <4>1. k \in 1..old[j].count /\ k # -1
        BY <2>1, <3>1, <3>4
      <4>2. RemItem(old, j, k)[j].count = old[j].count - (IF k = -1 THEN old[j].count ELSE k)
        BY <3>2, <4>1, RemItemTakes
      <4> QED
        BY <3>5, <4>1, <4>2
    <3>7. g[j] = need[j] * w /\ need[j] \in Nat /\ n \in Nat /\ w >= 1
      BY <1>1, <2>3
    <3> HIDE DEF a, b, w, f, g, h, need, D, m
    <3>8. need[j] * w \in Nat /\ need[j] <= need[j] * w
      BY <2>1, <3>7, SMT
    <3>9. (a - need[j] * n) * w = a * w + (-n) * (need[j] * w) /\ a * w \in Int
      BY <2>1, <3>7, SMT
    <3> QED
      BY <2>2, <3>6, <3>7, <3>8, <3>9 DEF m
  <2>4. CASE j \notin D
    <3>1. bag[j] = old[j] /\ g[j] = 0
      BY <2>4
    <3>2. a * w \in Int /\ m * 0 = 0
      <4> HIDE DEF a, w, m
      <4> QED
        BY <1>1, <2>1
    <3> QED
      BY <2>2, <2>4, <3>1, <3>2
  <2> QED
    BY <2>3, <2>4
<1>3. BagWorth(old) = Sum(f, Item) /\ BagWorth(bag) = Sum(h, Item)
  BY DEF BagWorth
<1>4. \A j \in Item \ D : g[j] = 0
  OBVIOUS
<1>5. Worth[i] = Sum(need, D)
  BY WorthFacts
<1> HIDE DEF f, g, h, need, D, m
<1>6. IsFiniteSet(Item) /\ Addends(f, Item) /\ Addends(g, Item)
  BY <1>2, InventoryAssumption DEF Addends
<1>7. Sum(h, Item) = Sum(f, Item) + m * Sum(g, Item)
  <2>1. m \in Int /\ \A j \in Item : h[j] = f[j] + m * g[j]
    BY <1>1, <1>2
  <2>2. Addends(f, Item) /\ Addends(g, Item)
    BY <1>6
  <2> QED
    BY ONLY <2>1, <2>2, SumLinear
<1>8. Addends(g, D) /\ Sum(g, Item) = Sum(g, D)
  BY <1>1, <1>4, <1>6, SumPart
<1>9. Addends(need, D)
  BY <1>1, <1>8 DEF Addends
<1>10. Sum(need, D) <= Sum(g, D)
  <2>1. \A j \in D : need[j] <= g[j]
    BY <1>1, <1>2
  <2> QED
    BY <1>8, <1>9, <2>1, SumMono
<1> DEFINE x == Sum(need, D)
           y == Sum(g, Item)
           z == Sum(f, Item)
<1>11. x \in Int /\ y \in Int /\ z \in Int /\ x <= y
  BY <1>6, <1>8, <1>9, <1>10, SumFacts
<1>12. Sum(h, Item) = z + m * y /\ Worth[i] = x
  BY <1>5, <1>7
<1> HIDE DEF x, y, z
<1>13. n * x <= n * y /\ n * x \in Int /\ n * y \in Int /\ (-n) * y = -(n * y)
  BY <1>1, <1>11, SMT
<1>14. z + m * y + n * x <= z
  BY <1>11, <1>13 DEF m
<1> QED
  BY <1>3, <1>12, <1>14 DEF z

\* The riches of all when those of one change.
LEMMA RichesFacts ==
    ASSUME NEW p \in [Client -> Purse], NEW b \in [Client -> Bag]
    PROVE  /\ Addends([c \in Client |-> p[c].money + BagWorth(b[c])], Client)
           /\ Riches(p, b) \in Int
           /\ \A c \in Client : p[c].money \in Int /\ BagWorth(b[c]) \in Int
<1> DEFINE f == [c \in Client |-> p[c].money + BagWorth(b[c])]
<1>1. \A c \in Client : p[c].money \in Int /\ BagWorth(b[c]) \in Int
  BY BagWorthFacts DEF Purse
<1>2. Addends(f, Client)
  BY <1>1, InventoryAssumption DEF Addends
<1> HIDE DEF f
<1>3. Sum(f, Client) \in Int
  BY <1>2, SumFacts
<1> QED
  BY <1>1, <1>2, <1>3 DEF f, Riches

LEMMA RichesChange ==
    ASSUME NEW p \in [Client -> Purse], NEW b \in [Client -> Bag],
           NEW q \in [Client -> Purse], NEW d \in [Client -> Bag],
           NEW c \in Client, \A e \in Client \ {c} : q[e].money = p[e].money /\ d[e] = b[e]
    PROVE  Riches(q, d) = Riches(p, b) + ((q[c].money + BagWorth(d[c])) - (p[c].money + BagWorth(b[c])))
<1> DEFINE f == [e \in Client |-> p[e].money + BagWorth(b[e])]
           g == [e \in Client |-> q[e].money + BagWorth(d[e])]
<1>1. Addends(f, Client) /\ Addends(g, Client)
  BY RichesFacts
<1>2. \A e \in Client \ {c} : f[e] = g[e]
  OBVIOUS
<1>3. f[c] = p[c].money + BagWorth(b[c]) /\ g[c] = q[c].money + BagWorth(d[c])
  OBVIOUS
<1>4. Riches(p, b) = Sum(f, Client) /\ Riches(q, d) = Sum(g, Client)
  BY DEF Riches
<1> HIDE DEF f, g
<1>5. Sum(g, Client) = Sum(f, Client) + (g[c] - f[c])
  BY <1>1, <1>2, SumChange
<1> QED
  BY <1>3, <1>4, <1>5

\* What lies around, with one thing more and with one less.
LEMMA GroundFacts ==
    ASSUME NEW things \in Seq(Thing)
    PROVE  /\ Addends([k \in 1..Len(things) |-> things[k].count * Worth[things[k].item]], 1..Len(things))
           /\ GroundWorth(things) \in Int
           /\ \A k \in 1..Len(things) : things[k].count \in Int /\ Worth[things[k].item] \in Nat
<1> DEFINE f == [k \in 1..Len(things) |-> things[k].count * Worth[things[k].item]]
           K == 1..Len(things)
<1>1. ASSUME NEW k \in 1..Len(things) PROVE things[k].count \in Int /\ Worth[things[k].item] \in Nat
  <2>1. things[k] \in Thing
    BY ElementOfSeq
  <2>2. things[k].item \in Item /\ things[k].count \in IntRange
    BY <2>1 DEF Thing
  <2> QED
    BY <2>2, WorthFacts, Limits DEF IntRange
<1>2. \A k \in K : f[k] \in Int
  BY <1>1
<1>3. IsFiniteSet(K)
  BY LenProperties, FS_Interval
<1> HIDE DEF f, K
<1>4. Addends(f, K)
  BY <1>2, <1>3 DEF Addends
<1>5. Sum(f, K) \in Int
  BY <1>4, SumFacts
<1> QED
  BY <1>1, <1>4, <1>5 DEF f, K, GroundWorth

LEMMA GroundAppend ==
    ASSUME NEW things \in Seq(Thing), NEW t \in Thing
    PROVE  GroundWorth(Append(things, t)) = GroundWorth(things) + t.count * Worth[t.item]
<1> DEFINE n == Len(things)
           more == Append(things, t)
           f == [k \in 1..n |-> things[k].count * Worth[things[k].item]]
           g == [k \in 1..(n + 1) |-> more[k].count * Worth[more[k].item]]
<1>1. /\ n \in Nat /\ more \in Seq(Thing) /\ Len(more) = n + 1
      /\ more[n + 1] = t /\ \A k \in 1..n : more[k] = things[k]
  BY LenProperties, AppendProperties
<1>2. GroundWorth(things) = Sum(f, 1..n) /\ Addends(f, 1..n)
  BY GroundFacts DEF GroundWorth
<1>3. GroundWorth(more) = Sum(g, 1..(n + 1)) /\ Addends(g, 1..(n + 1))
  <2> HIDE DEF more
  <2> QED
    BY <1>1, GroundFacts DEF GroundWorth
<1>4. g[n + 1] = t.count * Worth[t.item] /\ \A k \in 1..n : f[k] = g[k]
  BY <1>1
<1>5. (1..(n + 1)) \ {n + 1} = 1..n /\ n + 1 \in 1..(n + 1)
  BY <1>1
<1> HIDE DEF f, g, n, more
<1>6. Sum(g, 1..(n + 1)) = g[n + 1] + Sum(g, (1..(n + 1)) \ {n + 1})
  BY <1>3, <1>5, SumFacts
<1>7. Sum(f, 1..n) = Sum(g, 1..n)
  BY <1>2, <1>4, SumSame
<1>8. Sum(f, 1..n) \in Int /\ g[n + 1] \in Int
  BY <1>2, <1>3, <1>5, SumFacts DEF Addends
<1>9. GroundWorth(more) = GroundWorth(things) + g[n + 1]
  <2> DEFINE a == Sum(f, 1..n)
             b == g[n + 1]
  <2>1. a \in Int /\ b \in Int /\ GroundWorth(things) = a /\ GroundWorth(more) = b + a
    BY <1>2, <1>3, <1>5, <1>6, <1>7, <1>8
  <2> HIDE DEF a, b
  <2>2. GroundWorth(more) = GroundWorth(things) + b
    BY <2>1
  <2> QED
    BY <2>2 DEF b
<1> QED
  BY <1>4, <1>9 DEF more

LEMMA GroundWithout ==
    ASSUME ground \in Seq(Thing), NEW k \in 1..Len(ground)
    PROVE  /\ Without(k) \in Seq(Thing)
           /\ GroundWorth(Without(k)) = GroundWorth(ground) - ground[k].count * Worth[ground[k].item]
<1> DEFINE n == Len(ground)
           less == Without(k)
           e == [j \in 1..(n - 1) |-> IF j < k THEN j ELSE j + 1]
           f == [j \in 1..n |-> ground[j].count * Worth[ground[j].item]]
           g == [j \in 1..(n - 1) |-> less[j].count * Worth[less[j].item]]
           R == {e[j] : j \in 1..(n - 1)}
<1>1. n \in Nat /\ n - 1 \in Nat /\ k \in 1..n
  BY LenProperties
<1>2. less \in [1..(n - 1) -> Thing] /\ \A j \in 1..(n - 1) : e[j] \in 1..n /\ less[j] = ground[e[j]]
  <2>1. \A j \in 1..(n - 1) : e[j] \in 1..n /\ less[j] = ground[e[j]]
    BY <1>1 DEF Without
  <2>2. \A j \in 1..(n - 1) : less[j] \in Thing
    BY <2>1, ElementOfSeq
  <2>3. less = [j \in 1..(n - 1) |-> less[j]]
    BY DEF Without
  <2> QED
    BY <2>1, <2>2, <2>3
<1>3. less \in Seq(Thing) /\ Len(less) = n - 1
  <2> HIDE DEF less
  <2> QED
    BY <1>1, <1>2, FunctionIsSeq
<1>4. \A j \in 1..(n - 1) : f[e[j]] = g[j]
  BY <1>2
<1>5. \A i, j \in 1..(n - 1) : e[i] = e[j] => i = j
  BY <1>1
<1>6. R = (1..n) \ {k}
  <2>1. \A j \in 1..(n - 1) : e[j] \in (1..n) \ {k}
    BY <1>1
  <2>2. ASSUME NEW i \in (1..n) \ {k} PROVE \E j \in 1..(n - 1) : e[j] = i
    <3>1. CASE i < k
      <4>1. i \in 1..(n - 1) /\ e[i] = i
        BY <1>1, <3>1
      <4> QED
        BY <4>1
    <3>2. CASE i > k
      <4>1. i - 1 \in 1..(n - 1) /\ ~(i - 1 < k) /\ (i - 1) + 1 = i
        BY <1>1, <3>2
      <4>2. e[i - 1] = i
        BY <4>1
      <4> QED
        BY <4>1, <4>2
    <3> QED
      BY <1>1, <3>1, <3>2
  <2> HIDE DEF e
  <2> QED
    BY <2>1, <2>2
<1>7. GroundWorth(less) = Sum(g, 1..(n - 1)) /\ Addends(g, 1..(n - 1))
  <2> HIDE DEF less
  <2> QED
    BY <1>3, GroundFacts DEF GroundWorth
<1>8. GroundWorth(ground) = Sum(f, 1..n) /\ Addends(f, 1..n)
  BY GroundFacts DEF GroundWorth
<1>9. f[k] = ground[k].count * Worth[ground[k].item]
  BY <1>1
<1> HIDE DEF f, g, e, less
<1>10. Sum(f, R) = Sum(g, 1..(n - 1))
  <2> DEFINE K == 1..(n - 1)
  <2>1. Moves(g, K, e, f, R)
    BY <1>4, <1>5, <1>7 DEF Moves
  <2> HIDE DEF K, R
  <2>2. Sum(f, R) = Sum(g, K)
    BY ONLY <2>1, SumMoved
  <2> QED
    BY <2>1, <2>2 DEF K
<1>11. Sum(f, 1..n) = f[k] + Sum(f, (1..n) \ {k}) /\ Addends(f, (1..n) \ {k})
  BY <1>1, <1>8, SumFacts
<1>12. Sum(f, (1..n) \ {k}) \in Int /\ f[k] \in Int
  BY <1>1, <1>8, <1>11, SumFacts DEF Addends
<1>13. GroundWorth(less) = GroundWorth(ground) - f[k]
  <2> DEFINE a == Sum(f, (1..n) \ {k})
             b == f[k]
  <2>1. a \in Int /\ b \in Int /\ GroundWorth(ground) = b + a
    BY <1>8, <1>11, <1>12
  <2>2. GroundWorth(less) = a
    BY <1>6, <1>7, <1>10
  <2> HIDE DEF a, b
  <2>3. GroundWorth(less) = GroundWorth(ground) - b
    BY <2>1, <2>2
  <2> QED
    BY <2>3 DEF b
<1> QED
  BY <1>3, <1>9, <1>13 DEF less

-----------------------------------------------------------------------------
(* Nothing for free.                                                       *)

\* What lies around is there.
GroundOK == \A k \in 1..Len(ground) : ground[k].count >= 1

Sound == Shape /\ AllGood /\ PursesOK /\ GroundOK

LEMMA ThingsWithout ==
    ASSUME Shape, NEW k \in 1..Len(ground)
    PROVE  /\ Without(k) \in Seq(Thing) /\ Len(Without(k)) = Len(ground) - 1
           /\ \A j \in 1..(Len(ground) - 1) :
                 \E h \in 1..Len(ground) : Without(k)[j] = ground[h]
<1>1. ground \in Seq(Thing) /\ Len(ground) \in Nat /\ Len(ground) - 1 \in Nat
  BY LenProperties DEF Shape
<1>2. ASSUME NEW j \in 1..(Len(ground) - 1)
      PROVE  \E h \in 1..Len(ground) : Without(k)[j] = ground[h]
  <2> DEFINE h == IF j < k THEN j ELSE j + 1
  <2>1. h \in 1..Len(ground)
    BY <1>1
  <2>2. Without(k)[j] = ground[h]
    BY DEF Without
  <2> QED
    BY <2>1, <2>2
<1>3. Without(k) \in Seq(Thing)
  BY WithoutType
<1>4. DOMAIN Without(k) = 1..(Len(ground) - 1)
  BY DEF Without
<1>5. Len(Without(k)) = Len(ground) - 1
  BY <1>1, <1>3, <1>4, LenProperties
<1> QED
  BY <1>2, <1>3, <1>5

\* Only what somebody has is dropped.
LEMMA DropEffect ==
    ASSUME Shape, AllGood, NEW c \in Client, NEW i \in Item, NEW n \in Counts, DropItem(c, i, n)
    PROVE  \E k \in 1..inv[c][i].count :
              /\ inv' = [inv EXCEPT ![c] = RemItem(inv[c], i, k)]
              /\ [item |-> i, count |-> k] \in Thing
              /\ ground' = Append(ground, [item |-> i, count |-> k])
<1> DEFINE k == Min2(n, inv[c][i].count)
<1>1. /\ inv' = [inv EXCEPT ![c] = RemItem(inv[c], i, k)]
      /\ ground' = Append(ground, [item |-> i, count |-> k])
      /\ inv[c][i].count # 0
  BY DEF DropItem
<1>2. /\ inv[c][i].count \in Int /\ inv[c][i].count >= 0 /\ inv[c][i].count < Half
      /\ n \in Nat /\ n >= 1 /\ Half \in Nat
  <2>1. inv[c][i] \in Entry /\ GoodEntry(i, inv[c][i])
    BY DEF Shape, Bag, AllGood, Good
  <2>2. n \in Nat \ {0}
    BY InventoryAssumption
  <2> QED
    BY <2>1, <2>2, EntryFacts, Limits DEF GoodEntry
<1>3. k \in Int /\ 1 <= k /\ k <= inv[c][i].count
  BY <1>1, <1>2 DEF Min2
<1> HIDE DEF k
<1>4. k \in IntRange
  BY <1>2, <1>3 DEF IntRange
<1>5. [item |-> i, count |-> k] \in Thing
  BY <1>4 DEF Thing
<1>6. k \in 1..inv[c][i].count
  BY <1>2, <1>3
<1> QED
  BY <1>1, <1>5, <1>6

LEMMA GroundNext ==
    ASSUME Sound, [Next]_vars
    PROVE  GroundOK'
<1>0. Shape /\ AllGood /\ GroundOK /\ ground \in Seq(Thing)
  BY DEF Sound, Shape
<1>1. CASE \E c \in Client, i \in Item, n \in Counts : DropItem(c, i, n)
  <2>1. PICK c \in Client, i \in Item, n \in Counts : DropItem(c, i, n)
    BY <1>1
  <2>2. PICK k \in 1..inv[c][i].count :
              /\ [item |-> i, count |-> k] \in Thing
              /\ ground' = Append(ground, [item |-> i, count |-> k])
    BY <1>0, <2>1, DropEffect
  <2> DEFINE t == [item |-> i, count |-> k]
  <2>3. /\ Len(ground) \in Nat /\ Len(ground') = Len(ground) + 1 /\ ground'[Len(ground) + 1] = t
        /\ \A j \in 1..Len(ground) : ground'[j] = ground[j]
    BY <1>0, <2>2, LenProperties, AppendProperties
  <2>4. t.count >= 1
    BY <2>2
  <2> HIDE DEF t
  <2> SUFFICES ASSUME NEW j \in 1..Len(ground') PROVE ground'[j].count >= 1
    BY DEF GroundOK
  <2>5. j = Len(ground) + 1 \/ j \in 1..Len(ground)
    BY <2>3
  <2> QED
    BY <1>0, <2>3, <2>4, <2>5 DEF GroundOK
<1>2. CASE \E k \in 1..Len(ground) : ground' = Without(k)
  <2>1. PICK k \in 1..Len(ground) : ground' = Without(k)
    BY <1>2
  <2>2. /\ Len(ground') = Len(ground) - 1
        /\ \A j \in 1..(Len(ground) - 1) : \E h \in 1..Len(ground) : ground'[j] = ground[h]
    BY <1>0, <2>1, ThingsWithout
  <2> QED
    BY <1>0, <2>2 DEF GroundOK
<1>3. CASE ground' = ground
  BY <1>0, <1>3 DEF GroundOK
<1>4. \/ \E c \in Client, i \in Item, n \in Counts : DropItem(c, i, n)
      \/ \E k \in 1..Len(ground) : ground' = Without(k)
      \/ ground' = ground
  <2>1. ASSUME NEW c \in Client, NEW k \in 1..Len(ground), PickUp(c, k) PROVE ground' = Without(k)
    BY <2>1 DEF PickUp
  <2>2. ASSUME NEW k \in 1..Len(ground), Vanish(k) PROVE ground' = Without(k)
    BY <2>2 DEF Vanish
  <2>3. ASSUME NEW c, NEW i, NEW n,
               \/ Work(c, i) \/ OpenBag(c, i, n) \/ OpenBox(c, i, n)
               \/ Eat(c, i, n) \/ UseReset(c, i, n) \/ BuyUpgrade(c, i, n)
        PROVE  ground' = ground
    BY <2>3 DEF Work, OpenBag, OpenBox, Eat, UseReset, BuyUpgrade
  <2>4. ASSUME NEW c, NEW i, NEW n,
               \/ BuyItem(c, i) \/ SetEquippedItem(c, i) \/ CraftItem(c, i, n)
               \/ SellMaterial(c) \/ Spawn(c) \/ Die(c)
        PROVE  ground' = ground
    BY <2>4 DEF BuyItem, SetEquippedItem, CraftItem, SellMaterial, Spawn, Die
  <2>5. UNCHANGED vars => ground' = ground
    BY DEF vars
  <2> QED
    BY <2>1, <2>2, <2>3, <2>4, <2>5 DEF Next, Earn
<1> QED
  BY <1>1, <1>2, <1>3, <1>4

LEMMA SoundInit == Init => Sound
<1>1. Init => GroundOK
  BY DEF Init, GroundOK
<1> QED
  BY <1>1, ShapeInit, GoodInit, PursesInit DEF Sound

LEMMA SoundNext ==
    ASSUME SmallCrafts
    PROVE  Sound /\ [Next]_vars => Sound'
<1> SUFFICES ASSUME Sound, [Next]_vars PROVE Sound'
  OBVIOUS
<1>1. Shape /\ AllGood /\ PursesOK
  BY DEF Sound
<1>2. Shape' /\ AllGood'
  BY <1>1, ShapeNext, GoodNext
<1>3. PursesOK'
  BY <1>1, PursesNext
<1>4. GroundOK'
  BY GroundNext
<1> QED
  BY <1>2, <1>3, <1>4 DEF Sound

\* One player's money and bag change, and what lies around.
Deal(c, bag, m) ==
    /\ inv' = [inv EXCEPT ![c] = bag]
    /\ \A d \in Client : wallet'[d].money = IF d = c THEN m ELSE wallet[d].money
    /\ m + BagWorth(bag) + GroundWorth(ground')
         <= wallet[c].money + BagWorth(inv[c]) + GroundWorth(ground)

LEMMA DealIsFair ==
    ASSUME Sound, Shape', PursesOK', NEW c \in Client, NEW bag \in Bag, NEW m \in Int, Deal(c, bag, m)
    PROVE  TotalWorth' <= TotalWorth
<1>1. /\ inv \in [Client -> Bag] /\ inv' \in [Client -> Bag]
      /\ wallet \in [Client -> Purse] /\ wallet' \in [Client -> Purse]
      /\ ground \in Seq(Thing) /\ ground' \in Seq(Thing)
  BY DEF Sound, Shape, PursesOK
<1>2. /\ inv'[c] = bag /\ \A d \in Client \ {c} : inv'[d] = inv[d]
      /\ wallet'[c].money = m /\ \A d \in Client \ {c} : wallet'[d].money = wallet[d].money
  BY <1>1 DEF Deal
<1> DEFINE r == Riches(wallet, inv)
           s == Riches(wallet', inv')
           g == GroundWorth(ground)
           h == GroundWorth(ground')
           v == BagWorth(inv[c])
           w == BagWorth(bag)
           n == wallet[c].money
<1>3. s = r + ((m + w) - (n + v))
  <2>1. s = r + ((wallet'[c].money + BagWorth(inv'[c])) - (wallet[c].money + BagWorth(inv[c])))
    <3>1. \A d \in Client \ {c} : wallet'[d].money = wallet[d].money /\ inv'[d] = inv[d]
      BY <1>2
    <3> QED
      BY <1>1, <3>1, RichesChange
  <2> QED
    BY <1>2, <2>1
<1>4. r \in Int /\ n \in Int /\ v \in Int
  BY <1>1, RichesFacts
<1>5. g \in Int /\ h \in Int
  BY <1>1, GroundFacts
<1>6. w \in Int
  BY BagWorthFacts
<1>7. m + w + h <= n + v + g
  BY DEF Deal
<1>8. TotalWorth = r + g
  BY DEF TotalWorth, Riches, BagWorth, GroundWorth
<1>9. TotalWorth' = s + h
  BY DEF TotalWorth, Riches, BagWorth, GroundWorth
<1> HIDE DEF r, s, g, h, v, w, n
<1> QED
  BY <1>3, <1>4, <1>5, <1>6, <1>7, <1>8, <1>9

\* What all the deals need to know of the player.
LEMMA PlayerFacts ==
    ASSUME Sound, NEW c \in Client
    PROVE  /\ inv[c] \in Bag /\ Good(inv[c])
           /\ wallet[c] \in Purse /\ wallet[c].money \in 0..(Half - 1)
           /\ BagWorth(inv[c]) \in Int /\ GroundWorth(ground) \in Int
           /\ \A i \in Item : inv[c][i].count \in Nat /\ Worth[i] \in Nat
<1>1. /\ inv[c] \in Bag /\ Good(inv[c]) /\ ground \in Seq(Thing)
      /\ wallet[c] \in Purse /\ wallet[c].money \in 0..(Half - 1)
  BY DEF Sound, Shape, AllGood, PursesOK
<1>2. \A i \in Item : inv[c][i].count \in Nat
  BY <1>1, EntryFacts DEF Good, GoodEntry, Bag
<1> QED
  BY <1>1, <1>2, WorthFacts, BagWorthFacts, GroundFacts

\* What is used up is lost.
LEMMA UseIsFair ==
    ASSUME Sound, Shape', PursesOK', NEW c \in Client, NEW i \in Item, NEW k \in 1..inv[c][i].count,
           Used(c, i, k), \A d \in Client : wallet'[d].money = wallet[d].money, ground' = ground
    PROVE  TotalWorth' <= TotalWorth
<1> DEFINE bag == RemItem(inv[c], i, k)
           m == wallet[c].money
           g == GroundWorth(ground)
           v == BagWorth(inv[c])
<1>1. inv[c] \in Bag /\ Good(inv[c]) /\ m \in Int /\ g \in Int /\ v \in Int /\ Worth[i] \in Nat /\ k \in Nat /\ k # -1
  BY PlayerFacts DEF Purse
<1>2. bag \in Bag
  BY <1>1, RemItemShape
<1>3. BagWorth(bag) = v - k * Worth[i]
  <2>1. BagWorth(bag) = BagWorth(inv[c]) - (IF k = -1 THEN inv[c][i].count ELSE k) * Worth[i]
    BY <1>1, RemItemWorth
  <2> QED
    BY <1>1, <2>1
<1>4. k * Worth[i] \in Nat
  BY <1>1
<1>5. inv' = [inv EXCEPT ![c] = bag]
  BY DEF Used
<1> HIDE DEF bag, m, g, v
<1>6. m + BagWorth(bag) + g <= m + v + g
  <2> DEFINE x == k * Worth[i]
  <2>1. x \in Nat /\ BagWorth(bag) = v - x
    BY <1>3, <1>4
  <2> HIDE DEF x
  <2> QED
    BY <1>1, <2>1
<1>7. Deal(c, bag, m)
  BY <1>5, <1>6 DEF Deal, m, g, v
<1> QED
  BY <1>1, <1>2, <1>7, DealIsFair

\* The shop takes what the item is worth, room or not.
LEMMA BuyIsFair ==
    ASSUME FairPrices, Sound, Shape', PursesOK', NEW c \in Client, NEW i \in Item, BuyItem(c, i)
    PROVE  TotalWorth' <= TotalWorth
<1> DEFINE bag == GiveItem(inv[c], i, 1)
           n == wallet[c].money
           p == Shop[i].cost
           m == n - p
           g == GroundWorth(ground)
           v == BagWorth(inv[c])
<1>1. inv[c] \in Bag /\ Good(inv[c]) /\ n \in 0..(Half - 1) /\ g \in Int /\ v \in Int /\ Worth[i] \in Nat
  BY PlayerFacts
<1>2. /\ i \in DOMAIN Shop /\ p \in Nat /\ n >= p /\ Fits(inv[c], i, 1) /\ ground' = ground
      /\ inv' = [inv EXCEPT ![c] = bag]
      /\ wallet' = [wallet EXCEPT ![c].money = Wrap(m)]
  BY InventoryAssumption DEF BuyItem, Holds
<1>3. Worth[i] <= p
  BY <1>2 DEF FairPrices
<1>4. m \in Int /\ m \in IntRange
  BY <1>1, <1>2, Limits DEF IntRange
<1>5. bag \in Bag
  BY <1>1, GiveItemShape
<1>6. BagWorth(bag) \in Int /\ BagWorth(bag) <= v + 1 * Worth[i]
  <2>1. BagWorth(GiveItem(inv[c], i, 1)) <= BagWorth(inv[c]) + 1 * Worth[i]
    BY <1>1, <1>2, GiveItemWorth
  <2> QED
    BY <1>5, <2>1, BagWorthFacts
<1>7. \A d \in Client : wallet'[d].money = IF d = c THEN m ELSE wallet[d].money
  <2> HIDE DEF m
  <2>1. Wrap(m) = m
    BY <1>4, WrapFacts
  <2> QED
    BY <1>2, <2>1 DEF Sound, PursesOK, Purse
<1>8. m + BagWorth(bag) + g <= n + v + g
  <2> HIDE DEF bag, n, p, g, v
  <2> QED
    BY <1>1, <1>2, <1>3, <1>6
<1>9. Deal(c, bag, m)
  <2> HIDE DEF bag, m
  <2> QED
    BY <1>2, <1>7, <1>8 DEF Deal
<1> QED
  <2> HIDE DEF bag, m
  <2> QED
    BY <1>4, <1>5, <1>9, DealIsFair

\* The products of a craft are worth the ingredients.
LEMMA CraftIsFair ==
    ASSUME SmallCrafts, FairPrices, Sound, Shape', PursesOK',
           NEW c \in Client, NEW i \in Item, NEW n \in Counts, CraftItem(c, i, n)
    PROVE  TotalWorth' <= TotalWorth
<1> DEFINE need == Crafts[i]
           old == inv[c]
           bag == [j \in Item |-> IF j \in DOMAIN need THEN RemItem(old, j, Wrap(need[j] * n))[j] ELSE old[j]]
           more == GiveItem(bag, i, n)
           m == wallet[c].money
           g == GroundWorth(ground)
           v == BagWorth(old)
           w == BagWorth(bag)
<1>1. old \in Bag /\ Good(old) /\ m \in Int /\ g \in Int /\ v \in Int /\ Worth[i] \in Nat
  BY PlayerFacts
<1>2. /\ i \in DOMAIN Crafts /\ Fits(bag, i, n) /\ n \in Nat
      /\ \A j \in DOMAIN need : old[j].count >= Wrap(need[j] * n)
      /\ inv' = [inv EXCEPT ![c] = more]
      /\ wallet' = wallet /\ ground' = ground
  BY InventoryAssumption DEF CraftItem
<1>3. bag \in Bag /\ Good(bag)
  <2>1. ASSUME NEW j \in Item PROVE bag[j] \in Entry /\ GoodEntry(j, bag[j])
    <3>1. CASE j \in DOMAIN need
      <4> DEFINE k == need[j] * n
      <4>1. n \in Nat \ {0} /\ need[j] \in Nat \ {0}
        BY <1>2, <3>1, InventoryAssumption
      <4>2. k < Half
        BY <1>2, <3>1 DEF SmallCrafts
      <4>3. k \in Nat /\ k >= 1
        BY <4>1
      <4>4. k \in Int /\ k \in IntRange /\ k \in 1..(Half - 1)
        <5> HIDE DEF k
        <5> QED
          BY <4>2, <4>3, Limits DEF IntRange
      <4> HIDE DEF k
      <4>5. Wrap(k) = k
        BY <4>4, WrapFacts
      <4>6. Follows(old, RemItem(old, j, k))
        <5> HIDE DEF old
        <5> QED
          BY <1>1, <4>4, RemItemFollows
      <4>7. bag[j] = RemItem(old, j, k)[j]
        BY <3>1, <4>5 DEF k
      <4> HIDE DEF bag, old
      <4> QED
        BY <1>1, <4>6, <4>7 DEF Follows, Good, Bag
    <3>2. CASE j \notin DOMAIN need
      BY <1>1, <3>2 DEF Bag, Good
    <3> QED
      BY <3>1, <3>2
  <2>2. bag = [j \in Item |-> bag[j]]
    OBVIOUS
  <2> HIDE DEF bag
  <2> QED
    BY <2>1, <2>2 DEF Bag, Good
<1>4. w + n * Worth[i] <= v
  <2>1. \A j \in Item : bag[j] = IF j \in DOMAIN Crafts[i]
                                 THEN RemItem(old, j, Wrap(Crafts[i][j] * n))[j] ELSE old[j]
    OBVIOUS
  <2>2. \A j \in DOMAIN Crafts[i] : old[j].count >= Wrap(Crafts[i][j] * n)
    BY <1>2
  <2>3. i \in DOMAIN Crafts
    BY <1>2
  <2> HIDE DEF bag, old, need
  <2> QED
    BY <1>1, <1>3, <2>1, <2>2, <2>3, CraftWorth
<1> HIDE DEF bag
<1>5. more \in Bag /\ BagWorth(more) <= w + n * Worth[i]
  BY <1>2, <1>3, GiveItemShape, GiveItemWorth
<1>6. w \in Int /\ BagWorth(more) \in Int
  BY <1>3, <1>5, BagWorthFacts
<1> HIDE DEF more, m, g, v, w, old, need
<1>7. m + BagWorth(more) + g <= m + v + g
  <2> DEFINE x == n * Worth[i]
  <2>1. x \in Int /\ w + x <= v /\ BagWorth(more) <= w + x
    BY <1>1, <1>2, <1>4, <1>5
  <2> HIDE DEF x
  <2> QED
    BY <1>1, <1>6, <2>1
<1>8. Deal(c, more, m)
  BY <1>2, <1>7 DEF Deal, m, g, v, old
<1> QED
  BY <1>1, <1>5, <1>8, DealIsFair

\* What is put on or off stays what it is.
LEMMA EquipIsFair ==
    ASSUME Sound, Shape', PursesOK', NEW c \in Client, NEW i \in Item, SetEquippedItem(c, i)
    PROVE  TotalWorth' <= TotalWorth
<1>0. Shape
  BY DEF Sound
<1>a. PICK bag \in Bag : Equipped(c, i, bag)
  BY <1>0, EquipEffect
<1>1. inv' = [inv EXCEPT ![c] = bag] /\ \A j \in Item : bag[j].count = inv[c][j].count
  BY <1>a DEF Equipped
<1> DEFINE m == wallet[c].money
           g == GroundWorth(ground)
           v == BagWorth(inv[c])
<1>2. m \in Int /\ g \in Int /\ v \in Int
  BY PlayerFacts
<1>3. BagWorth(bag) = v
  <2>1. [j \in Item |-> bag[j].count * Worth[j]] = [j \in Item |-> inv[c][j].count * Worth[j]]
    BY <1>1
  <2> QED
    BY <2>1 DEF BagWorth
<1>4. wallet' = wallet /\ ground' = ground
  BY DEF SetEquippedItem
<1> HIDE DEF m, g, v
<1>5. m + BagWorth(bag) + g <= m + v + g
  BY <1>2, <1>3
<1>6. Deal(c, bag, m)
  BY <1>1, <1>4, <1>5 DEF Deal, m, g, v
<1> QED
  BY <1>2, <1>6, DealIsFair

\* What is dropped is on the ground.
LEMMA DropIsFair ==
    ASSUME Sound, Shape', PursesOK', NEW c \in Client, NEW i \in Item, NEW n \in Counts, DropItem(c, i, n)
    PROVE  TotalWorth' <= TotalWorth
<1>0. Shape /\ AllGood /\ ground \in Seq(Thing)
  BY DEF Sound, Shape
<1>1. PICK k \in 1..inv[c][i].count :
              /\ inv' = [inv EXCEPT ![c] = RemItem(inv[c], i, k)]
              /\ [item |-> i, count |-> k] \in Thing
              /\ ground' = Append(ground, [item |-> i, count |-> k])
  BY <1>0, DropEffect
<1> DEFINE bag == RemItem(inv[c], i, k)
           m == wallet[c].money
           g == GroundWorth(ground)
           v == BagWorth(inv[c])
           x == k * Worth[i]
<1>2. inv[c] \in Bag /\ Good(inv[c]) /\ m \in Int /\ g \in Int /\ v \in Int /\ Worth[i] \in Nat /\ k \in Nat /\ k # -1
  BY PlayerFacts
<1>3. bag \in Bag
  BY <1>2, RemItemShape
<1>4. BagWorth(bag) = v - x
  <2>1. BagWorth(bag) = BagWorth(inv[c]) - (IF k = -1 THEN inv[c][i].count ELSE k) * Worth[i]
    BY <1>2, RemItemWorth
  <2> QED
    BY <1>2, <2>1
<1>5. GroundWorth(ground') = g + x
  <2> DEFINE t == [item |-> i, count |-> k]
  <2>1. t \in Thing /\ t.item = i /\ t.count = k /\ ground' = Append(ground, t)
    BY <1>1
  <2> HIDE DEF t
  <2>2. GroundWorth(ground') = GroundWorth(ground) + t.count * Worth[t.item]
    BY <1>0, <2>1, GroundAppend
  <2> QED
    BY <2>1, <2>2
<1>6. x \in Nat
  BY <1>2
<1>7. wallet' = wallet /\ inv' = [inv EXCEPT ![c] = bag]
  BY <1>1 DEF DropItem
<1> HIDE DEF bag, m, g, v, x
<1>8. m + BagWorth(bag) + GroundWorth(ground') <= m + v + g
  BY <1>2, <1>4, <1>5, <1>6
<1>9. Deal(c, bag, m)
  BY <1>7, <1>8 DEF Deal, m, g, v
<1> QED
  BY <1>2, <1>3, <1>9, DealIsFair

\* What is picked up, or vanishes, is no longer there.
LEMMA PickUpIsFair ==
    ASSUME Sound, Shape', PursesOK', NEW c \in Client, NEW k \in 1..Len(ground), PickUp(c, k)
    PROVE  TotalWorth' <= TotalWorth
<1> DEFINE i == ground[k].item
           n == ground[k].count
           bag == GiveItem(inv[c], i, n)
           m == wallet[c].money
           g == GroundWorth(ground)
           v == BagWorth(inv[c])
           x == n * Worth[i]
<1>1. Shape /\ ground \in Seq(Thing)
  BY DEF Sound, Shape
<1>2. i \in Item
  BY <1>1, WithoutType
<1>3. /\ inv[c] \in Bag /\ Good(inv[c]) /\ m \in Int /\ g \in Int /\ v \in Int /\ Worth[i] \in Nat
  BY <1>2, PlayerFacts
<1>4. /\ Fits(inv[c], i, n) /\ inv' = [inv EXCEPT ![c] = bag] /\ ground' = Without(k) /\ wallet' = wallet
  BY DEF PickUp, Holds
<1>5. n \in Nat
  BY <1>4, Limits DEF Fits
<1>6. GroundWorth(ground') = g - x
  BY <1>1, <1>4, GroundWithout
<1> HIDE DEF i, n
<1>7. bag \in Bag /\ BagWorth(bag) <= v + x
  BY <1>2, <1>3, <1>4, <1>5, GiveItemShape, GiveItemWorth
<1>8. x \in Nat /\ BagWorth(bag) \in Int
  <2>1. x \in Nat
    BY <1>3, <1>5
  <2>2. BagWorth(bag) \in Int
    <3> HIDE DEF bag
    <3> QED
      BY <1>7, BagWorthFacts
  <2> QED
    BY <2>1, <2>2
<1> HIDE DEF bag, m, g, v, x
<1>9. m + BagWorth(bag) + GroundWorth(ground') <= m + v + g
  BY <1>3, <1>6, <1>7, <1>8
<1>10. Deal(c, bag, m)
  BY <1>4, <1>9 DEF Deal, m, g, v
<1> QED
  BY <1>3, <1>7, <1>10, DealIsFair

LEMMA VanishIsFair ==
    ASSUME Sound, NEW k \in 1..Len(ground), Vanish(k)
    PROVE  TotalWorth' <= TotalWorth
<1>1. ground \in Seq(Thing) /\ inv \in [Client -> Bag] /\ wallet \in [Client -> Purse]
  BY DEF Sound, Shape, PursesOK
<1> DEFINE r == Riches(wallet, inv)
           g == GroundWorth(ground)
           h == GroundWorth(ground')
           x == ground[k].count * Worth[ground[k].item]
<1>2. ground' = Without(k) /\ inv' = inv /\ wallet' = wallet
  BY DEF Vanish
<1>3. h = g - x
  BY <1>1, <1>2, GroundWithout
<1>4. r \in Int /\ g \in Int
  BY <1>1, RichesFacts, GroundFacts
<1>5. x \in Nat
  <2>1. ground[k].count \in Int /\ ground[k].count >= 1 /\ Worth[ground[k].item] \in Nat
    BY <1>1, GroundFacts DEF Sound, GroundOK
  <2> QED
    BY <2>1
<1>6. TotalWorth = r + g
  BY DEF TotalWorth, Riches, BagWorth, GroundWorth
<1>7. TotalWorth' = r + h
  BY <1>2 DEF TotalWorth, Riches, BagWorth, GroundWorth
<1> HIDE DEF r, g, h, x
<1> QED
  BY <1>3, <1>4, <1>5, <1>6, <1>7

\* Materials are sold below their worth.
LEMMA SellIsFair ==
    ASSUME FairPrices, Sound, Shape', PursesOK', NEW c \in Client, SellMaterial(c)
    PROVE  TotalWorth' <= TotalWorth
<1> DEFINE a == inv[c][Material].count
           bag == RemItem(inv[c], Material, -1)
           n == wallet[c].money
           m == n + (a \div 10)
           g == GroundWorth(ground)
           v == BagWorth(inv[c])
           x == a * Worth[Material]
<1>0. Material \in Item /\ MaxMoney \in Nat /\ MaxMoney < Half /\ Half \in Nat
  BY InventoryAssumption
<1>1. /\ inv[c] \in Bag /\ Good(inv[c]) /\ n \in 0..(Half - 1) /\ g \in Int /\ v \in Int
      /\ a \in Nat /\ Worth[Material] \in Nat
  BY <1>0, PlayerFacts
<1>2. /\ m <= MaxMoney /\ wallet' = [wallet EXCEPT ![c].money = Wrap(m)] /\ ground' = ground
      /\ inv' = [inv EXCEPT ![c] = bag]
  BY DEF SellMaterial
<1>3. bag \in Bag
  BY <1>0, <1>1, RemItemShape
<1>4. BagWorth(bag) = v - x
  <2>1. -1 \in Int
    OBVIOUS
  <2>2. BagWorth(bag) = BagWorth(inv[c]) - (IF -1 = -1 THEN inv[c][Material].count ELSE -1) * Worth[Material]
    BY <1>0, <1>1, <2>1, RemItemWorth
  <2> QED
    BY <1>1, <2>2
<1>5. Worth[Material] >= 1
  BY DEF FairPrices
<1> HIDE DEF a
<1>6. a \div 10 \in Nat /\ a \div 10 <= a
  BY <1>1
<1>7. x \in Nat /\ a <= x
  <2> DEFINE w == Worth[Material]
  <2>1. w \in Nat /\ w >= 1
    BY <1>1, <1>5
  <2> HIDE DEF w
  <2>2. a * w \in Nat /\ a <= a * w
    BY <1>1, <2>1, SMT
  <2> QED
    BY <2>2 DEF w
<1>8. m \in Int /\ m \in IntRange
  BY <1>0, <1>1, <1>2, <1>6 DEF IntRange
<1>9. m + BagWorth(bag) + g <= n + v + g
  <2> HIDE DEF bag, n, g, v, x
  <2> QED
    BY <1>1, <1>4, <1>6, <1>7
<1> HIDE DEF m
<1>10. \A d \in Client : wallet'[d].money = IF d = c THEN m ELSE wallet[d].money
  <2>1. Wrap(m) = m
    BY <1>8, WrapFacts
  <2> QED
    BY <1>2, <2>1 DEF Sound, PursesOK, Purse
<1> HIDE DEF bag
<1>11. Deal(c, bag, m)
  BY <1>2, <1>9, <1>10 DEF Deal
<1> QED
  BY <1>3, <1>8, <1>11, DealIsFair

\* Upgrades, and coming and going, are about no wealth.
LEMMA NothingIsFair ==
    ASSUME Sound, UNCHANGED <<inv, ground>>, wallet' = wallet
    PROVE  TotalWorth' <= TotalWorth
<1> DEFINE r == Riches(wallet, inv)
           g == GroundWorth(ground)
<1>1. r \in Int /\ g \in Int
  BY RichesFacts, GroundFacts DEF Sound, Shape, PursesOK
<1>2. TotalWorth = r + g /\ TotalWorth' = r + g
  BY DEF TotalWorth, Riches, BagWorth, GroundWorth
<1> HIDE DEF r, g
<1> QED
  BY <1>1, <1>2

\* Nobody gets richer but by work, bags of money and boxes, as long as players
\* write counts for which the products of a craft are ints, and the shop asks
\* for what an item is worth and more.
THEOREM NothingForFreeCorrect ==
    ASSUME SmallCrafts, FairPrices
    PROVE  Spec => NothingForFree
<1>1. Sound /\ [Next]_vars => [TotalWorth' <= TotalWorth \/ Earn]_vars
  <2> SUFFICES ASSUME Sound, Next, ~Earn PROVE TotalWorth' <= TotalWorth
    OBVIOUS
  <2>0. Sound' /\ Shape' /\ PursesOK'
    <3>1. Sound'
      BY SoundNext
    <3> QED
      BY <3>1 DEF Sound
  <2>1. ASSUME NEW c \in Client, NEW i \in Item, NEW n \in 1..MaxHeld, Eat(c, i, n)
        PROVE  TotalWorth' <= TotalWorth
    <3>1. n \in 1..inv[c][i].count
      <4>1. PICK m \in Counts : n = Min2(m, inv[c][i].count)
        BY <2>1 DEF Eat, Using
      <4>2. m \in Nat \ {0} /\ inv[c][i].count \in Nat
        BY PlayerFacts, InventoryAssumption
      <4> QED
        BY <4>1, <4>2 DEF Min2
    <3>2. \A d \in Client : wallet'[d].money = wallet[d].money
      <4>1. PursesOK
        BY DEF Sound
      <4>2. PICK fed \in Purse : fed.money = wallet[c].money /\ wallet' = [wallet EXCEPT ![c] = fed]
        BY <2>1, <4>1, EatEffect
      <4> QED
        BY <4>1, <4>2 DEF PursesOK
    <3>3. Used(c, i, n) /\ ground' = ground
      BY <2>1 DEF Eat
    <3> QED
      BY <2>0, <3>1, <3>2, <3>3, UseIsFair
  <2>2. ASSUME NEW c \in Client, NEW i \in Item, NEW n \in 1..MaxHeld, UseReset(c, i, n)
        PROVE  TotalWorth' <= TotalWorth
    <3>1. 1 \in 1..inv[c][i].count
      <4>1. inv[c][i].count \in Nat /\ inv[c][i].count # 0
        BY <2>2, PlayerFacts DEF UseReset, Using
      <4> QED
        BY <4>1
    <3>2. Used(c, i, 1) /\ ground' = ground /\ wallet' = wallet
      BY <2>2 DEF UseReset
    <3> QED
      BY <2>0, <3>1, <3>2, UseIsFair
  <2>3. ASSUME NEW c, NEW u, NEW n, BuyUpgrade(c, u, n) \/ Spawn(c) \/ Die(c)
        PROVE  TotalWorth' <= TotalWorth
    <3>1. UNCHANGED <<inv, ground>> /\ wallet' = wallet
      BY <2>3 DEF BuyUpgrade, Spawn, Die
    <3> QED
      BY <3>1, NothingIsFair
  <2>4. ASSUME NEW c \in Client, NEW i \in Item, BuyItem(c, i) \/ SetEquippedItem(c, i)
        PROVE  TotalWorth' <= TotalWorth
    BY <2>0, <2>4, BuyIsFair, EquipIsFair
  <2>5. ASSUME NEW c \in Client, NEW i \in Item, NEW n \in Counts, CraftItem(c, i, n) \/ DropItem(c, i, n)
        PROVE  TotalWorth' <= TotalWorth
    BY <2>0, <2>5, CraftIsFair, DropIsFair
  <2>6. ASSUME NEW c \in Client, NEW k \in 1..Len(ground), PickUp(c, k)
        PROVE  TotalWorth' <= TotalWorth
    BY <2>0, <2>6, PickUpIsFair
  <2>7. ASSUME NEW k \in 1..Len(ground), Vanish(k)
        PROVE  TotalWorth' <= TotalWorth
    BY <2>7, VanishIsFair
  <2>8. ASSUME NEW c \in Client, SellMaterial(c)
        PROVE  TotalWorth' <= TotalWorth
    BY <2>0, <2>8, SellIsFair
  <2> QED
    BY <2>1, <2>2, <2>3, <2>4, <2>5, <2>6, <2>7, <2>8 DEF Next
<1>2. Sound /\ [Next]_vars => Sound'
  BY SoundNext
<1> QED
  BY <1>1, <1>2, SoundInit, PTL DEF Spec, NothingForFree
=============================================================================

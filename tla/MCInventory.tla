----------------------------- MODULE MCInventory -----------------------------
EXTENDS Inventory, TLC

\* Two things to wear of one type, a pet that is bought, what a pet is made of,
\* something limited, and the items of use.
MCItem == {"ore", "hat", "cap", "pet", "carrot", "box", "material", "reset", "bag"}
MCTypeOf == [i \in MCItem |->
    CASE i \in {"hat", "cap"} -> "body"
      [] i = "pet" -> "pet"
      [] i \in {"carrot", "box", "reset", "bag"} -> "use"
      [] OTHER -> "other"]
MCMaxCountOf == [i \in MCItem |-> IF i = "material" THEN 12 ELSE -1]
MCFood == [i \in {"carrot"} |-> 250]
MCBoxes == [i \in {"box"} |-> {<<"hat", 1>>, <<"ore", 1>>}]
MCShop == [i \in {"reset"} |-> [cost |-> 1, level |-> 2]]
MCCrafts == [i \in {"cap", "pet"} |-> [j \in {"ore"} |-> IF i = "cap" THEN 1 ELSE 2]]
MCHarvest == {<<"ore", 1>>, <<"carrot", 1>>, <<"box", 1>>, <<"bag", 1>>, <<"material", 8>>}

\* The run meets what the theorems assume.
ASSUME MCInventoryAssumption == SmallCrafts /\ SmallUpgrades /\ SmallMeals /\ FairPrices
=============================================================================

---------------------------- MODULE SeederProofs ----------------------------
(***************************************************************************)
(* Theorems about Seeder, for any seeds, any number of crashes, failing    *)
(* calls and requests.  The invariant says what the seeder knows of the    *)
(* table it works on, and what a calm boot has left behind.                *)
(***************************************************************************)
EXTENDS Seeder, SequenceTheorems, TLAPS

Items == {"resolve", "create", "find", "update"}
Looking == {"create", "update"}

(* What the phases of the seeder stand for.                                *)
PhaseInv ==
    /\ phase \in {"seed", "count", "clean"} => at.item = 1
    /\ phase \in Items \cup {"count", "clean"} => at.seed \in DOMAIN Seeds
    /\ phase = "count" => Seed.rule = "once"
    /\ phase = "clean" => Seed.rule \in {"truncate", "delete"}
    /\ phase \in Items => Seed.rule # "never"
    /\ phase = "find" => Seed.rule \in Looking
    /\ phase = "update" => Seed.rule = "update"
    /\ phase = "done" => at.seed = Len(Seeds) + 1

(* A seed that does not look for its items found its table empty, or has   *)
(* emptied it, and has sown the items before the current one.              *)
Earlier(k, n) == {Seeds[k].data[j].name : j \in {i \in DOMAIN Seeds[k].data : i < n}}
NewOnly(k, n) ==
    \A i \in LiveAt(Seeds[k].model) :
        table[Seeds[k].model][i].name \in Earlier(k, n) \cup {"own"}
FreshInv == phase \in Items /\ Seed.rule \notin Looking => NewOnly(at.seed, at.item)

(* One that looks has not found the item it is about to create.            *)
MissingInv ==
    phase = "create" /\ Seed.rule \in Looking => Named(Seed.model, Item.name) = {}

(* Item j of seed k is as its rule says, and so are the names in its table.*)
Good(k, j) ==
    LET m == Seeds[k].model
        n == Seeds[k].data[j].name
    IN /\ Named(m, n) # {}
       /\ Seeds[k].rule = "update" => \A i \in Named(m, n) : table[m][i].text = "seed"
Tidy(k) ==
    Seeds[k].rule \in {"delete", "truncate"} =>
        \A i \in LiveAt(Seeds[k].model) :
            table[Seeds[k].model][i].name \in Names(Seeds[k].model)
Healed(k) ==
    Seeds[k].rule \notin {"never", "once"} =>
        Tidy(k) /\ \A j \in DOMAIN Seeds[k].data : Good(k, j)

(* What a calm boot has passed is healed.                                  *)
HealInv ==
    calm /\ phase # "down" =>
        /\ \A k \in DOMAIN Seeds : k < at.seed => Healed(k)
        /\ phase \in Items =>
              /\ Tidy(at.seed)
              /\ \A j \in DOMAIN Seed.data : j < at.item => Good(at.seed, j)
        /\ phase = "update" => found \in Named(Seed.model, Item.name)

(* The inductive invariant.                                                *)
IInv == TypeOK /\ PhaseInv /\ NoSeedTwice /\ FreshInv /\ MissingInv /\ HealInv

-----------------------------------------------------------------------------
(* The seeds are a sequence, and so are their items, each with one name.   *)
LEMMA SeedFacts ==
    /\ Len(Seeds) \in Nat /\ DOMAIN Seeds = 1..Len(Seeds)
    /\ \A k \in DOMAIN Seeds :
         LET data == Seeds[k].data
         IN /\ Len(data) \in Nat /\ DOMAIN data = 1..Len(data)
            /\ data # <<>> => 1 \in DOMAIN data
            /\ data = <<>> => DOMAIN data = {}
<1>1. Seeds \in Seq({Seeds[i] : i \in DOMAIN Seeds})
  BY SeedsAssumption DEF IsSequence
<1>2. Len(Seeds) \in Nat /\ DOMAIN Seeds = 1..Len(Seeds)
  BY <1>1, LenProperties
<1>3. ASSUME NEW k \in DOMAIN Seeds
      PROVE  LET data == Seeds[k].data
             IN /\ Len(data) \in Nat /\ DOMAIN data = 1..Len(data)
                /\ data # <<>> => 1 \in DOMAIN data
                /\ data = <<>> => DOMAIN data = {}
  <2> DEFINE data == Seeds[k].data
             S == {data[i] : i \in DOMAIN data}
  <2>1. data \in Seq(S)
    BY SeedsAssumption DEF IsSequence
  <2> HIDE DEF S
  <2>2. Len(data) \in Nat /\ DOMAIN data = 1..Len(data)
    BY <2>1, LenProperties
  <2>3. data # <<>> => Len(data) \in Nat \ {0}
    BY <2>1, EmptySeq
  <2>4. data = <<>> => Len(data) = 0
    BY EmptySeq
  <2> QED  BY <2>2, <2>3, <2>4
<1> QED  BY <1>2, <1>3

(* The names in the table of a seed are its own.                           *)
LEMMA NamesOfSeed ==
    ASSUME NEW k \in DOMAIN Seeds
    PROVE  /\ Seeds[k].model \in Models
           /\ Names(Seeds[k].model) = {Seeds[k].data[j].name : j \in DOMAIN Seeds[k].data}
           /\ "own" \notin Names(Seeds[k].model)
<1>1. {l \in DOMAIN Seeds : Seeds[l].model = Seeds[k].model} = {k}
  BY SeedsAssumption
<1>2. Names(Seeds[k].model) = {Seeds[k].data[j].name : j \in DOMAIN Seeds[k].data}
  BY <1>1 DEF Names
<1>3. \A j \in DOMAIN Seeds[k].data : Seeds[k].data[j].name # "own"
  BY SeedsAssumption
<1> QED  BY <1>2, <1>3 DEF Models

-----------------------------------------------------------------------------
(* What a step does to the tables.                                         *)
Typed == /\ DOMAIN table = Models
         /\ \A m \in Models : table[m] \in Seq(RowsOf(m))
Only(m) == \A x \in Models : x # m => table'[x] = table[x]

(* One table is replaced.                                                  *)
LEMMA Replaced ==
    ASSUME TypeOK, NEW m \in Models, NEW s \in Seq(RowsOf(m)),
           table' = [table EXCEPT ![m] = s]
    PROVE  Typed' /\ Only(m) /\ table'[m] = s
BY DEF TypeOK, Typed, Only

(* A row is added.                                                         *)
Added(m, r) ==
    \E n : /\ n \notin DOMAIN table[m] /\ DOMAIN table'[m] = DOMAIN table[m] \cup {n}
           /\ table'[m][n] = r
           /\ \A i \in DOMAIN table[m] : table'[m][i] = table[m][i]

LEMMA Appended ==
    ASSUME TypeOK, NEW m \in Models, NEW r \in RowsOf(m),
           table' = [table EXCEPT ![m] = Append(@, r)]
    PROVE  Typed' /\ Only(m) /\ Added(m, r)
<1> DEFINE s == Append(table[m], r)
<1>1. table[m] \in Seq(RowsOf(m)) /\ DOMAIN table = Models
  BY DEF TypeOK
<1>2. /\ s \in Seq(RowsOf(m)) /\ Len(s) = Len(table[m]) + 1
      /\ \A i \in 1..Len(table[m]) : s[i] = table[m][i]
      /\ s[Len(s)] = r
  BY <1>1, AppendProperties
<1>3. /\ Len(table[m]) \in Nat /\ DOMAIN table[m] = 1..Len(table[m])
      /\ DOMAIN s = 1..Len(s)
  BY <1>1, <1>2, LenProperties
<1>4. table' = [table EXCEPT ![m] = s]
  OBVIOUS
<1> HIDE DEF s
<1>5. Typed' /\ Only(m) /\ table'[m] = s
  BY <1>2, <1>4, Replaced
<1>6. Len(s) \notin DOMAIN table[m] /\ DOMAIN s = DOMAIN table[m] \cup {Len(s)}
  BY <1>2, <1>3
<1> QED  BY <1>2, <1>3, <1>5, <1>6 DEF Added

(* A row is changed.                                                       *)
LEMMA Changed ==
    ASSUME TypeOK, NEW m \in Models, NEW i \in DOMAIN table[m], NEW r \in RowsOf(m),
           table' = [table EXCEPT ![m][i] = r]
    PROVE  /\ Typed' /\ Only(m) /\ DOMAIN table'[m] = DOMAIN table[m]
           /\ \A j \in DOMAIN table[m] : table'[m][j] = IF j = i THEN r ELSE table[m][j]
<1> DEFINE s == [table[m] EXCEPT ![i] = r]
<1>1. table[m] \in Seq(RowsOf(m)) /\ DOMAIN table = Models
  BY DEF TypeOK
<1>2. DOMAIN table[m] = 1..Len(table[m])
  BY <1>1, LenProperties
<1>3. s \in Seq(RowsOf(m))
  BY <1>1, <1>2, ExceptSeq
<1>4. table' = [table EXCEPT ![m] = s]
  OBVIOUS
<1>5. DOMAIN s = DOMAIN table[m] /\ \A j \in DOMAIN s : s[j] = IF j = i THEN r ELSE table[m][j]
  OBVIOUS
<1> HIDE DEF s
<1>6. Typed' /\ Only(m) /\ table'[m] = s
  BY <1>3, <1>4, Replaced
<1> QED  BY <1>5, <1>6

(* What holds of a seed depends on its own table alone.                    *)
LEMMA Elsewhere ==
    ASSUME NEW k \in DOMAIN Seeds, table'[Seeds[k].model] = table[Seeds[k].model]
    PROVE  /\ \A n : NewOnly(k, n)' <=> NewOnly(k, n)
           /\ \A j : Good(k, j)' <=> Good(k, j)
           /\ Tidy(k)' <=> Tidy(k)
           /\ Healed(k)' <=> Healed(k)
BY DEF NewOnly, Good, Tidy, Healed, Named, LiveAt

(* Another seed has another table.                                         *)
LEMMA Others ==
    ASSUME NEW k \in DOMAIN Seeds, NEW l \in DOMAIN Seeds, k # l, Only(Seeds[l].model)
    PROVE  Healed(k)' <=> Healed(k)
<1>1. Seeds[k].model # Seeds[l].model
  BY SeedsAssumption
<1>2. table'[Seeds[k].model] = table[Seeds[k].model]
  BY <1>1, NamesOfSeed DEF Only
<1> QED  BY <1>2, Elsewhere

-----------------------------------------------------------------------------
(* A step of the seeder: nobody else is at work.                           *)
Mild == /\ engine' = engine /\ parent' \in {"none", "null", "parent"}
        /\ calm' \in BOOLEAN /\ (calm' => calm)
        /\ faults' \in 0..MaxFaults /\ acts' \in 0..MaxActs
        /\ Typed' /\ NoSeedTwice'

(* On to the next seed: the one that is left is healed, if calm.           *)
LEMMA LeaveSeed ==
    ASSUME IInv, Mild, NextSeed, NEW k \in DOMAIN Seeds, k = at.seed,
           Only(Seeds[k].model), phase # "down", calm' => Healed(k)'
    PROVE  IInv'
<1>1. /\ at' = [seed |-> k + 1, item |-> 1] /\ phase' = "seed"
      /\ k \in 1..Len(Seeds) /\ Len(Seeds) \in Nat
  BY SeedFacts DEF NextSeed
<1>2. TypeOK'
  BY <1>1 DEF IInv, TypeOK, Mild, Typed, Seed, Item
<1>3. PhaseInv' /\ FreshInv' /\ MissingInv'
  BY <1>1 DEF PhaseInv, FreshInv, MissingInv, Items, Seed, Item
<1>4. HealInv'
  <2> SUFFICES ASSUME calm', NEW l \in DOMAIN Seeds, l < k + 1
               PROVE  Healed(l)'
    BY <1>1 DEF HealInv, Items, Seed, Item
  <2>1. CASE l = k
    BY <2>1
  <2>2. CASE l # k
    <3>1. l < at.seed
      BY <1>1, <2>2, SeedFacts
    <3>2. Healed(l)
      BY <3>1 DEF IInv, HealInv, Mild, Seed, Item
    <3> QED  BY <2>2, <3>2, Others
  <2> QED  BY <2>1, <2>2
<1> QED  BY <1>2, <1>3, <1>4 DEF IInv, Mild

(* The first item of a seed that is to be sown.                            *)
LEMMA EnterSeed ==
    ASSUME IInv, Mild, FirstItem, NEW k \in DOMAIN Seeds, k = at.seed,
           Only(Seeds[k].model), phase \in {"seed", "count", "clean"},
           Seeds[k].rule # "never",
           Seeds[k].rule \notin Looking => LiveAt(Seeds[k].model)' = {}
    PROVE  IInv'
<1>1. Tidy(k)' /\ (Seeds[k].rule \notin Looking => NewOnly(k, 1)')
  BY DEF Tidy, NewOnly, Looking
<1>2. CASE Seeds[k].data = <<>>
  <2>1. NextSeed /\ Healed(k)'
    BY <1>1, <1>2, SeedFacts DEF FirstItem, Healed, Seed, Item
  <2> QED  BY <2>1, LeaveSeed
<1>3. CASE Seeds[k].data # <<>>
  <2>1. at' = at /\ phase' = "resolve" /\ at.item = 1 /\ 1 \in DOMAIN Seeds[k].data
    BY <1>3, SeedFacts DEF FirstItem, IInv, PhaseInv, Seed, Item
  <2>2. TypeOK'
    BY <2>1 DEF IInv, TypeOK, Mild, Typed, Seed, Item
  <2>3. PhaseInv' /\ MissingInv'
    BY <2>1 DEF PhaseInv, MissingInv, Items, Seed, Item
  <2>4. FreshInv'
    BY <1>1, <2>1 DEF FreshInv, Seed, Item
  <2>5. HealInv'
    <3> SUFFICES ASSUME calm'
                 PROVE  /\ \A l \in DOMAIN Seeds : l < k => Healed(l)'
                        /\ Tidy(k)' /\ \A j \in DOMAIN Seeds[k].data : ~(j < 1)
      BY <2>1 DEF HealInv, Items, Seed, Item
    <3>1. ASSUME NEW l \in DOMAIN Seeds, l < k PROVE Healed(l)'
      <4>1. Healed(l) /\ l # k
        BY <3>1, SeedFacts DEF IInv, HealInv, Mild, Seed, Item
      <4> QED  BY <4>1, Others
    <3> QED  BY <1>1, <3>1, SeedFacts
  <2> QED  BY <2>2, <2>3, <2>4, <2>5 DEF IInv, Mild
<1> QED  BY <1>2, <1>3

(* On to the next item: the one that is left is there, if calm.            *)
LEMMA LeaveItem ==
    ASSUME IInv, Mild, NextItem, phase \in Items, NEW k \in DOMAIN Seeds, k = at.seed,
           Only(Seeds[k].model), NEW n, n = at.item,
           Seeds[k].rule \notin Looking => NewOnly(k, n + 1)',
           calm' => /\ Tidy(k)'
                    /\ \A j \in DOMAIN Seeds[k].data : j <= at.item => Good(k, j)'
    PROVE  IInv'
<1> DEFINE data == Seeds[k].data
<1>1. /\ Len(data) \in Nat /\ DOMAIN data = 1..Len(data) /\ at.item \in 1..Len(data)
      /\ Seeds[k].rule # "never" /\ DOMAIN Seeds = 1..Len(Seeds) /\ Len(Seeds) \in Nat
  BY SeedFacts DEF IInv, TypeOK, PhaseInv, Items, Seed, Item
<1>2. CASE at.item < Len(data)
  <2>1. /\ at' = [at EXCEPT !.item = @ + 1] /\ phase' = "resolve"
        /\ at \in [seed : 1..Len(Seeds) + 1, item : Nat \ {0}]
    BY <1>2 DEF NextItem, IInv, TypeOK, Seed, Item
  <2>2. at'.seed = k /\ at'.item = at.item + 1 /\ at'.item \in DOMAIN data
        /\ at' \in [seed : 1..Len(Seeds) + 1, item : Nat \ {0}]
    BY <1>1, <1>2, <2>1
  <2>3. TypeOK'
    BY <2>1, <2>2 DEF IInv, TypeOK, Mild, Typed, Seed, Item
  <2>4. PhaseInv' /\ MissingInv'
    BY <1>1, <2>1, <2>2 DEF PhaseInv, MissingInv, Items, Seed, Item
  <2>5. FreshInv'
    BY <2>1, <2>2 DEF FreshInv, Seed, Item
  <2>6. HealInv'
    <3> SUFFICES ASSUME calm'
                 PROVE  /\ \A l \in DOMAIN Seeds : l < k => Healed(l)'
                        /\ Tidy(k)' /\ \A j \in DOMAIN data : j < at.item + 1 => Good(k, j)'
      BY <2>1, <2>2 DEF HealInv, Items, Seed, Item
    <3>1. ASSUME NEW l \in DOMAIN Seeds, l < k PROVE Healed(l)'
      <4>1. Healed(l) /\ l # k
        BY <1>1, <3>1 DEF IInv, HealInv, Mild, Items, Seed, Item
      <4> QED  BY <4>1, Others
    <3> QED  BY <1>1, <3>1
  <2> QED  BY <2>3, <2>4, <2>5, <2>6 DEF IInv, Mild
<1>3. CASE ~(at.item < Len(data))
  <2>1. NextSeed
    BY <1>3 DEF NextItem, Seed, Item
  <2>2. calm' => Healed(k)'
    BY <1>1, <1>3 DEF Healed
  <2>3. phase # "down"
    BY DEF Items
  <2> QED  BY <2>1, <2>2, <2>3, LeaveSeed
<1> QED  BY <1>2, <1>3

-----------------------------------------------------------------------------
(* The actions.                                                            *)

LEMMA StartSeedKeeps == ASSUME IInv, StartSeed PROVE IInv'
<1>1. /\ phase = "seed" /\ at.item = 1 /\ at.seed \in 1..Len(Seeds) + 1
      /\ DOMAIN Seeds = 1..Len(Seeds) /\ Len(Seeds) \in Nat
  BY SeedFacts DEF StartSeed, IInv, TypeOK, PhaseInv
<1>2. Mild
  BY DEF StartSeed, Rest, Mild, IInv, TypeOK, Typed, NoSeedTwice, LiveAt
<1>3. CASE at.seed > Len(Seeds)
  <2>1. phase' = "done" /\ at' = at /\ UNCHANGED <<table, parent, found>>
    BY <1>3 DEF StartSeed
  <2>2. TypeOK'
    BY <1>2, <2>1 DEF IInv, TypeOK, Mild, Typed
  <2>3. PhaseInv' /\ FreshInv' /\ MissingInv'
    BY <1>1, <1>3, <2>1 DEF PhaseInv, FreshInv, MissingInv, Items
  <2>4. HealInv'
    BY <1>1, <1>2, <2>1, Elsewhere DEF IInv, HealInv, Mild, Items
  <2> QED  BY <1>2, <2>2, <2>3, <2>4 DEF IInv, Mild
<1>4. CASE at.seed <= Len(Seeds)
  <2>0. PICK k \in DOMAIN Seeds : k = at.seed
    BY <1>1, <1>4
  <2>1. /\ Only(Seeds[k].model) /\ UNCHANGED <<table, parent, found>>
        /\ ~(at.seed > Len(Seeds)) /\ Seeds[k].rule \in Rules
    BY <1>1, <1>4, SeedsAssumption DEF Only, StartSeed
  <2>2. CASE Seeds[k].rule = "never"
    <3>1. NextSeed /\ Healed(k)'
      BY <2>0, <2>1, <2>2 DEF StartSeed, Seed, Healed
    <3> QED  BY <1>1, <1>2, <2>0, <2>1, <3>1, LeaveSeed
  <2>3. CASE Seeds[k].rule \in {"once", "truncate", "delete"}
    <3>1. /\ at' = at
          /\ phase' = IF Seeds[k].rule = "once" THEN "count" ELSE "clean"
      BY <2>0, <2>1, <2>3 DEF StartSeed, Seed
    <3>2. TypeOK'
      BY <1>2, <3>1 DEF IInv, TypeOK, Mild, Typed
    <3>3. PhaseInv' /\ FreshInv' /\ MissingInv'
      BY <1>1, <2>0, <2>1, <2>3, <3>1 DEF PhaseInv, FreshInv, MissingInv, Items, Seed
    <3>4. HealInv'
      BY <1>1, <1>2, <2>0, <2>1, <3>1, Elsewhere DEF IInv, HealInv, Mild, Items
    <3> QED  BY <1>2, <3>2, <3>3, <3>4 DEF IInv, Mild
  <2>4. CASE Seeds[k].rule \in Looking
    <3>1. FirstItem
      BY <2>0, <2>1, <2>4 DEF StartSeed, Seed, Looking
    <3>2. Seeds[k].rule # "never"
      BY <2>4 DEF Looking
    <3> QED  BY <1>1, <1>2, <2>0, <2>1, <2>4, <3>1, <3>2, EnterSeed
  <2> QED  BY <2>0, <2>1, <2>2, <2>3, <2>4 DEF Rules, Looking
<1> QED  BY <1>1, <1>3, <1>4

(* A seed of rule "once" goes on only when its table is empty.             *)
LEMMA ShouldSkipSeedKeeps == ASSUME IInv, ShouldSkipSeed PROVE IInv'
<1>0. PICK k \in DOMAIN Seeds : k = at.seed
  BY DEF ShouldSkipSeed, IInv, PhaseInv
<1>1. phase = "count" /\ Seeds[k].rule = "once"
  BY <1>0 DEF ShouldSkipSeed, IInv, PhaseInv, Seed
<1>2. Mild /\ Only(Seeds[k].model)
  BY DEF ShouldSkipSeed, Rest, Mild, Only, IInv, TypeOK, Typed, NoSeedTwice, LiveAt
<1>3. CASE LiveAt(Seeds[k].model) # {}
  <2>1. NextSeed /\ Healed(k)'
    BY <1>0, <1>1, <1>3 DEF ShouldSkipSeed, Seed, Healed
  <2> QED  BY <1>0, <1>1, <1>2, <2>1, LeaveSeed
<1>4. CASE LiveAt(Seeds[k].model) = {}
  <2>1. FirstItem /\ LiveAt(Seeds[k].model)' = {}
    BY <1>0, <1>4 DEF ShouldSkipSeed, Seed, LiveAt
  <2> QED  BY <1>0, <1>1, <1>2, <2>1, EnterSeed
<1> QED  BY <1>3, <1>4

(* Whatever was live is gone.                                              *)
LEMMA CleanKeeps == ASSUME IInv, CleanExistingData PROVE IInv'
<1>0. PICK k \in DOMAIN Seeds : k = at.seed
  BY DEF CleanExistingData, IInv, PhaseInv
<1> DEFINE m == Seeds[k].model
<1>1. /\ phase = "clean" /\ Seeds[k].rule \in {"truncate", "delete"}
      /\ m \in Models
  BY <1>0, NamesOfSeed DEF CleanExistingData, IInv, PhaseInv, Seed
<1>2. table[m] \in Seq(RowsOf(m)) /\ DOMAIN table = Models
  BY <1>1 DEF IInv, TypeOK
<1>3. PICK s \in Seq(RowsOf(m)) :
         /\ table' = [table EXCEPT ![m] = s]
         /\ \A i \in DOMAIN s : s[i].is = "deleted"
  <2>1. CASE table' = [table EXCEPT ![m] = <<>>]
    <3>1. <<>> \in Seq(RowsOf(m)) /\ DOMAIN <<>> = {}
      BY EmptySeq
    <3> QED  BY <2>1, <3>1
  <2>2. CASE table' = [table EXCEPT ![m] = [i \in DOMAIN @ |-> [@[i] EXCEPT !.is = "deleted"]]]
    <3> DEFINE s == [i \in DOMAIN table[m] |-> [table[m][i] EXCEPT !.is = "deleted"]]
    <3>1. table[m] \in [1..Len(table[m]) -> RowsOf(m)] /\ Len(table[m]) \in Nat
      BY <1>2, LenProperties
    <3>2. s \in [1..Len(table[m]) -> RowsOf(m)]
      BY <3>1 DEF RowsOf
    <3>3. s \in Seq(RowsOf(m))
      <4> HIDE DEF s
      <4>1. Seq(RowsOf(m)) = UNION {[1..n -> RowsOf(m)] : n \in Nat}
        BY SeqDef
      <4> QED  BY <3>1, <3>2, <4>1
    <3>4. \A i \in DOMAIN s : s[i].is = "deleted"
      BY <3>1 DEF RowsOf
    <3>5. table' = [table EXCEPT ![m] = s]
      BY <2>2
    <3> QED  BY <3>3, <3>4, <3>5
  <2> QED  BY <1>0, <2>1, <2>2 DEF CleanExistingData, SqlClean, MongoClean, Seed
<1>4. Typed' /\ Only(m) /\ table'[m] = s
  BY <1>1, <1>3, Replaced DEF IInv
<1>5. LiveAt(m)' = {}
  BY <1>3, <1>4 DEF LiveAt
<1>6. NoSeedTwice'
  <2> SUFFICES ASSUME NEW x \in Models, NEW i \in LiveAt(x)', NEW j \in LiveAt(x)',
                      i # j, table'[x][i].name = table'[x][j].name
               PROVE  table'[x][i].name = "own"
    BY DEF NoSeedTwice
  <2>1. x # m
    BY <1>5
  <2>2. table'[x] = table[x]
    BY <1>4, <2>1 DEF Only
  <2> QED  BY <2>2 DEF IInv, NoSeedTwice, LiveAt
<1>7. Mild /\ FirstItem
  BY <1>4, <1>6 DEF CleanExistingData, Rest, Mild, IInv, TypeOK
<1>8. Seeds[k].rule # "never"
  BY <1>1
<1> QED  BY <1>0, <1>1, <1>4, <1>5, <1>7, <1>8, EnterSeed

(* An item that is to be sown without a look is not there.                 *)
LEMMA Unsown ==
    ASSUME IInv, phase \in Items, NEW k \in DOMAIN Seeds, k = at.seed,
           Seeds[k].rule \notin Looking
    PROVE  Named(Seeds[k].model, Seeds[k].data[at.item].name) = {}
<1>1. NewOnly(k, at.item) /\ at.item \in DOMAIN Seeds[k].data
  BY DEF IInv, FreshInv, TypeOK, Items, Seed
<1>2. Seeds[k].data[at.item].name \notin Earlier(k, at.item) \cup {"own"}
  BY <1>1, SeedsAssumption, SeedFacts DEF Earlier
<1> QED  BY <1>1, <1>2 DEF NewOnly, Named

(* A step that leaves the tables as they are.                              *)
LEMMA SameTables ==
    ASSUME IInv, table' = table
    PROVE  Typed' /\ NoSeedTwice' /\ \A m \in Models : Only(m)
BY DEF IInv, TypeOK, Typed, NoSeedTwice, LiveAt, Only

(* A step that stays with its item knows what it knew.                     *)
LEMMA HealStays ==
    ASSUME IInv, UNCHANGED <<table, at, calm>>, phase \in Items,
           phase' = "update" => found' \in Named(Seed.model, Item.name)
    PROVE  HealInv'
<1> SUFFICES ASSUME calm' PROVE HealInv'
  BY DEF HealInv
<1>1. PICK k \in DOMAIN Seeds : k = at.seed
  BY DEF IInv, PhaseInv
<1>2. \A l \in DOMAIN Seeds : l < k => Healed(l)'
  BY <1>1, Elsewhere DEF IInv, HealInv, Items
<1>3. Tidy(k)' /\ \A j \in DOMAIN Seeds[k].data : j < at.item => Good(k, j)'
  BY <1>1, Elsewhere DEF IInv, HealInv, Items, Seed
<1>4. phase' = "update" => found' \in Named(Seed.model, Item.name)'
  BY DEF Named, LiveAt, Seed, Item
<1> QED  BY <1>1, <1>2, <1>3, <1>4 DEF HealInv, Seed

(* The reference of the item is looked up, and no row written.             *)
LEMMA ResolveKeeps == ASSUME IInv, Resolve PROVE IInv'
<1>1. /\ phase = "resolve" /\ at' = at /\ UNCHANGED <<table, found, engine, calm, faults, acts>>
      /\ parent' \in {"none", "null", "parent"}
      /\ phase' = IF Seed.rule \in Looking THEN "find" ELSE "create"
  BY DEF Resolve, Rest, Looking
<1>2. TypeOK'
  BY <1>1 DEF IInv, TypeOK, Seed
<1>3. PhaseInv' /\ MissingInv'
  BY <1>1 DEF IInv, PhaseInv, MissingInv, Items, Seed
<1>4. FreshInv' /\ NoSeedTwice'
  BY <1>1 DEF IInv, FreshInv, NewOnly, NoSeedTwice, LiveAt, Items, Seed
<1>5. HealInv'
  BY <1>1, HealStays DEF Items
<1> QED  BY <1>2, <1>3, <1>4, <1>5 DEF IInv

(* An item that is not there is sown.                                      *)
LEMMA SowItem ==
    ASSUME IInv, Created, NextItem, Rest, parent' = parent, phase \in Items,
           Named(Seed.model, Item.name) = {}
    PROVE  IInv'
<1>1. PICK k \in DOMAIN Seeds : k = at.seed
  BY DEF IInv, PhaseInv
<1>2. PICK n \in DOMAIN Seeds[k].data : n = at.item
  BY <1>1 DEF IInv, TypeOK, Items, Seed
<1> DEFINE m == Seeds[k].model
           name == Seeds[k].data[n].name
           body == Body
<1>3. /\ m \in Models /\ name \in Names(m) /\ Named(m, name) = {}
      /\ body = Row(name, "seed", parent, "live") /\ name # "own"
  <2>1. Seed = Seeds[k] /\ Item = Seeds[k].data[n]
    BY <1>1, <1>2 DEF Seed, Item
  <2>2. m \in Models /\ name \in Names(m) /\ "own" \notin Names(m)
    BY NamesOfSeed
  <2> QED  BY <2>1, <2>2 DEF Body
<1>4. body \in RowsOf(m)
  BY <1>3 DEF IInv, TypeOK, RowsOf, Row
<1>5. table' = [table EXCEPT ![m] = Append(@, body)]
  BY <1>1 DEF Created, Seed
<1>6. body.name = name /\ body.text = "seed" /\ body.is = "live"
  BY <1>3 DEF Row
<1> HIDE DEF body
<1>7. Typed' /\ Only(m) /\ Added(m, body)
  BY <1>3, <1>4, <1>5, Appended DEF IInv
<1>8. PICK x : /\ x \notin DOMAIN table[m] /\ DOMAIN table'[m] = DOMAIN table[m] \cup {x}
               /\ table'[m][x] = body
               /\ \A i \in DOMAIN table[m] : table'[m][i] = table[m][i]
  BY <1>7 DEF Added
<1>9. /\ LiveAt(m)' = LiveAt(m) \cup {x} /\ LiveAt(m) \subseteq DOMAIN table[m]
      /\ \A i \in LiveAt(m) : table[m][i].name # name
  BY <1>3, <1>6, <1>8 DEF LiveAt, Named
<1>10. /\ Named(m, name)' = {x}
       /\ \A o : o # name => Named(m, o)' = Named(m, o)
  BY <1>6, <1>8, <1>9 DEF Named
<1>11. NoSeedTwice'
  <2> SUFFICES ASSUME NEW y \in Models, NEW i \in LiveAt(y)', NEW j \in LiveAt(y)',
                      i # j, table'[y][i].name = table'[y][j].name
               PROVE  table'[y][i].name = "own"
    BY DEF NoSeedTwice
  <2>1. CASE y = m
    BY <1>6, <1>8, <1>9, <2>1 DEF IInv, NoSeedTwice
  <2>2. CASE y # m
    <3>1. table'[y] = table[y]
      BY <1>7, <2>2 DEF Only
    <3> QED  BY <3>1 DEF IInv, NoSeedTwice, LiveAt
  <2> QED  BY <2>1, <2>2
<1>12. Mild
  BY <1>7, <1>11 DEF Mild, Rest, IInv, TypeOK
<1>13. Seeds[k].rule \notin Looking => NewOnly(k, n + 1)'
  <2> SUFFICES ASSUME Seeds[k].rule \notin Looking, NEW i \in LiveAt(m)'
               PROVE  table'[m][i].name \in Earlier(k, n + 1) \cup {"own"}
    BY DEF NewOnly
  <2>1. NewOnly(k, n)
    BY <1>1, <1>2 DEF IInv, FreshInv, Seed
  <2>2. Earlier(k, n) \subseteq Earlier(k, n + 1) /\ name \in Earlier(k, n + 1)
    BY SeedFacts DEF Earlier
  <2> QED  BY <1>6, <1>8, <1>9, <2>1, <2>2 DEF NewOnly
<1>14. calm' => /\ Tidy(k)'
                /\ \A j \in DOMAIN Seeds[k].data : j <= n => Good(k, j)'
  <2> SUFFICES ASSUME calm'
               PROVE  Tidy(k)' /\ \A j \in DOMAIN Seeds[k].data : j <= n => Good(k, j)'
    OBVIOUS
  <2>1. /\ Tidy(k)
        /\ \A j \in DOMAIN Seeds[k].data : j < n => Good(k, j)
    BY <1>1, <1>2 DEF Rest, IInv, HealInv, Seed, Items
  <2>2. Tidy(k)'
    BY <1>3, <1>6, <1>8, <1>9, <2>1 DEF Tidy
  <2>3. ASSUME NEW j \in DOMAIN Seeds[k].data, j <= n PROVE Good(k, j)'
    <3>1. CASE j = n
      BY <1>6, <1>8, <1>10, <3>1 DEF Good
    <3>2. CASE j # n
      <4>1. Good(k, j) /\ Seeds[k].data[j].name # name
        BY <2>1, <2>3, <3>2, SeedsAssumption, SeedFacts
      <4>2. Named(m, Seeds[k].data[j].name) \subseteq DOMAIN table[m]
        BY DEF Named, LiveAt
      <4> QED  BY <1>8, <1>10, <4>1, <4>2 DEF Good
    <3> QED  BY <3>1, <3>2
  <2> QED  BY <2>2, <2>3
<1> QED  BY <1>1, <1>2, <1>7, <1>12, <1>13, <1>14, LeaveItem

(* An item that is there, and is not to be updated, is left as it is.      *)
LEMMA KeepItem ==
    ASSUME IInv, NextItem, Rest, UNCHANGED <<table, parent>>, phase \in Items,
           Named(Seed.model, Item.name) # {}, Seed.rule = "create"
    PROVE  IInv'
<1>1. PICK k \in DOMAIN Seeds : k = at.seed
  BY DEF IInv, PhaseInv
<1>2. PICK n : n = at.item
  OBVIOUS
<1>3. Mild /\ Only(Seeds[k].model)
  BY SameTables, NamesOfSeed DEF Mild, Rest, IInv, TypeOK
<1>4. Good(k, n)
  BY <1>1, <1>2 DEF Good, Seed, Item
<1>5. calm' => Tidy(k)' /\ \A j \in DOMAIN Seeds[k].data : j <= n => Good(k, j)'
  <2> SUFFICES ASSUME calm', NEW j \in DOMAIN Seeds[k].data, j <= n
               PROVE  Tidy(k)' /\ Good(k, j)'
    BY <1>1, Elsewhere DEF IInv, HealInv, Rest, Items, Seed
  <2>1. Tidy(k) /\ (j < n => Good(k, j))
    BY <1>1, <1>2 DEF IInv, HealInv, Rest, Items, Seed
  <2>2. j < n \/ j = n
    BY <1>2, SeedFacts DEF IInv, TypeOK
  <2> QED  BY <1>4, <2>1, <2>2, Elsewhere
<1>6. Seeds[k].rule \in Looking
  BY <1>1 DEF Seed, Looking
<1> QED  BY <1>1, <1>2, <1>3, <1>5, <1>6, LeaveItem

(* The row the item is looked for under is there.                          *)
LEMMA KeepKeeps ==
    ASSUME IInv, phase = "find", NEW i \in Named(Seed.model, Item.name), Keep(i),
           parent' = parent, Rest
    PROVE  IInv'
<1>1. Seed.rule \in Looking
  BY DEF IInv, PhaseInv
<1>2. CASE Seed.rule = "create"
  <2>1. NextItem /\ table' = table
    BY <1>2 DEF Keep
  <2> QED  BY <1>2, <2>1, KeepItem DEF Items
<1>3. CASE Seed.rule = "update"
  <2>1. /\ phase' = "update" /\ at' = at /\ found' = i
        /\ UNCHANGED <<table, parent, engine, calm, faults, acts>>
    BY <1>3 DEF Keep, Rest
  <2>2. i \in DOMAIN table[Seed.model]
    BY DEF Named, LiveAt
  <2>3. TypeOK'
    BY <2>1, <2>2 DEF IInv, TypeOK, Seed
  <2>4. PhaseInv' /\ MissingInv'
    BY <1>3, <2>1 DEF IInv, PhaseInv, MissingInv, Items, Seed
  <2>5. FreshInv' /\ NoSeedTwice'
    BY <2>1 DEF IInv, FreshInv, NewOnly, NoSeedTwice, LiveAt, Items, Seed
  <2>6. HealInv'
    BY <2>1, HealStays DEF Items
  <2> QED  BY <2>3, <2>4, <2>5, <2>6 DEF IInv
<1> QED  BY <1>1, <1>2, <1>3 DEF Looking

(* A row is created under a name its table does not have.                  *)
LEMMA CreateKeeps == ASSUME IInv, Create PROVE IInv'
<1>1. PICK k \in DOMAIN Seeds : k = at.seed
  BY DEF Create, IInv, PhaseInv, Items
<1>2. Named(Seed.model, Item.name) = {}
  BY <1>1, Unsown DEF Create, IInv, MissingInv, Items, Seed, Item
<1> QED  BY <1>2, SowItem DEF Create, Items

(* SQL finds or creates in one step.                                       *)
LEMMA SqlFindOrCreateKeeps == ASSUME IInv, SqlFindOrCreate PROVE IInv'
<1>1. CASE \E i \in Named(Seed.model, Item.name) : Keep(i)
  BY <1>1, KeepKeeps DEF SqlFindOrCreate
<1>2. CASE Named(Seed.model, Item.name) = {} /\ Created /\ NextItem
  BY <1>2, SowItem DEF SqlFindOrCreate, Items
<1> QED  BY <1>1, <1>2 DEF SqlFindOrCreate

(* Mongo finds, and creates in a step of its own.                          *)
LEMMA MongoFindKeeps == ASSUME IInv, MongoFind PROVE IInv'
<1>1. CASE \E i \in Named(Seed.model, Item.name) : Keep(i)
  BY <1>1, KeepKeeps DEF MongoFind
<1>2. CASE /\ Named(Seed.model, Item.name) = {}
           /\ phase' = "create" /\ UNCHANGED <<table, at, found>>
  <2>1. /\ phase = "find" /\ UNCHANGED <<parent, engine, calm, faults, acts>>
        /\ Seed.rule \in Looking
    BY DEF MongoFind, Rest, IInv, PhaseInv
  <2>2. TypeOK'
    BY <1>2, <2>1 DEF IInv, TypeOK, Seed
  <2>3. PhaseInv' /\ FreshInv'
    BY <1>2, <2>1 DEF IInv, PhaseInv, FreshInv, Items, Seed
  <2>4. MissingInv' /\ NoSeedTwice'
    BY <1>2, <2>1 DEF IInv, MissingInv, NoSeedTwice, Named, LiveAt, Seed, Item
  <2>5. HealInv'
    BY <1>2, <2>1, HealStays DEF Items
  <2> QED  BY <2>2, <2>3, <2>4, <2>5 DEF IInv
<1> QED  BY <1>1, <1>2 DEF MongoFind

(* The row that was found says again what the seed says.                   *)
LEMMA UpdateKeeps == ASSUME IInv, Update PROVE IInv'
<1>1. PICK k \in DOMAIN Seeds : k = at.seed
  BY DEF Update, IInv, PhaseInv, Items
<1>2. PICK n \in DOMAIN Seeds[k].data : n = at.item
  BY <1>1 DEF Update, IInv, TypeOK, Seed
<1> DEFINE m == Seeds[k].model
           name == Seeds[k].data[n].name
           row == [table[m][found] EXCEPT !.text = "seed", !.ref = parent]
<1>3. /\ m \in Models /\ found \in DOMAIN table[m] /\ Seeds[k].rule = "update"
      /\ Seed = Seeds[k] /\ Item = Seeds[k].data[n] /\ name # "own"
  BY <1>1, <1>2, NamesOfSeed, SeedsAssumption
     DEF Update, IInv, TypeOK, PhaseInv, Seed, Item
<1>4. table[m][found] \in RowsOf(m)
  BY <1>3, LenProperties, ElementOfSeq DEF IInv, TypeOK
<1>5. /\ row \in RowsOf(m) /\ row.name = table[m][found].name
      /\ row.is = table[m][found].is /\ row.text = "seed"
  BY <1>4 DEF RowsOf, IInv, TypeOK
<1>6. table' = [table EXCEPT ![m][found] = row]
  BY <1>3 DEF Update
<1> HIDE DEF row
<1>7. /\ Typed' /\ Only(m) /\ DOMAIN table'[m] = DOMAIN table[m]
      /\ \A i \in DOMAIN table[m] : table'[m][i] = IF i = found THEN row ELSE table[m][i]
  BY <1>3, <1>5, <1>6, Changed DEF IInv
<1>8. \A i \in DOMAIN table[m] :
         /\ table'[m][i].name = table[m][i].name /\ table'[m][i].is = table[m][i].is
         /\ table'[m][i].text = table[m][i].text \/ table'[m][i].text = "seed"
  BY <1>5, <1>7
<1>9. LiveAt(m)' = LiveAt(m) /\ \A o : Named(m, o)' = Named(m, o)
  BY <1>7, <1>8 DEF LiveAt, Named
<1>10. NoSeedTwice'
  <2> SUFFICES ASSUME NEW y \in Models, NEW i \in LiveAt(y)', NEW j \in LiveAt(y)',
                      i # j, table'[y][i].name = table'[y][j].name
               PROVE  table'[y][i].name = "own"
    BY DEF NoSeedTwice
  <2>1. CASE y = m
    BY <1>8, <1>9, <2>1 DEF IInv, NoSeedTwice, LiveAt
  <2>2. CASE y # m
    <3>1. table'[y] = table[y]
      BY <1>7, <2>2 DEF Only
    <3> QED  BY <3>1 DEF IInv, NoSeedTwice, LiveAt
  <2> QED  BY <2>1, <2>2
<1>11. Mild
  BY <1>7, <1>10 DEF Mild, Update, Rest, IInv, TypeOK
<1>12. ASSUME calm'
       PROVE  Tidy(k)' /\ \A j \in DOMAIN Seeds[k].data : j <= n => Good(k, j)'
  <2>1. /\ \A j \in DOMAIN Seeds[k].data : j < n => Good(k, j)
        /\ found \in Named(m, name)
    BY <1>1, <1>2, <1>3, <1>12 DEF Update, Rest, IInv, HealInv, Items
  <2>2. Tidy(k)'
    BY <1>3 DEF Tidy
  <2>3. ASSUME NEW j \in DOMAIN Seeds[k].data, j <= n PROVE Good(k, j)'
    <3> DEFINE o == Seeds[k].data[j].name
    <3>1. Named(m, o) \subseteq DOMAIN table[m]
      BY DEF Named, LiveAt
    <3>2. CASE j = n
      <4>1. \A i \in Named(m, name) : i = found
        BY <1>3, <2>1 DEF IInv, NoSeedTwice, Named
      <4>2. table'[m][found].text = "seed"
        BY <1>3, <1>5, <1>7
      <4> QED  BY <1>9, <2>1, <3>2, <4>1, <4>2 DEF Good
    <3>3. CASE j # n
      <4>1. Good(k, j)
        BY <2>1, <2>3, <3>3, SeedFacts
      <4> QED  BY <1>8, <1>9, <3>1, <4>1 DEF Good
    <3> QED  BY <3>2, <3>3
  <2> QED  BY <2>2, <2>3
<1>13. Seeds[k].rule \in Looking /\ phase \in Items /\ NextItem
  BY <1>3 DEF Looking, Update, Items
<1> QED  BY <1>1, <1>2, <1>7, <1>11, <1>12, <1>13, LeaveItem

(* After a failing call nothing is promised until the next boot.           *)
LEMMA CallFailsKeeps == ASSUME IInv, CallFails PROVE IInv'
<1>1. PICK k \in DOMAIN Seeds : k = at.seed
  BY DEF CallFails, IInv, PhaseInv, Items
<1>2. /\ calm' = FALSE /\ faults' = faults + 1 /\ faults < MaxFaults
      /\ UNCHANGED <<engine, table, found, acts>>
  BY DEF CallFails, IInv, TypeOK
<1>3. CASE parent' \in {"none", "null", "parent"}
  <2>1. Mild /\ Only(Seeds[k].model)
    <3>1. TypeOK /\ NoSeedTwice
      BY DEF IInv
    <3>2. Typed' /\ NoSeedTwice' /\ Only(Seeds[k].model)
      BY <1>2, <3>1, SameTables, NamesOfSeed
    <3>3. faults' \in 0..MaxFaults /\ acts' \in 0..MaxActs /\ engine' \in {"sql", "mongo"}
      BY <1>2, <3>1, SeedsAssumption DEF TypeOK
    <3> QED  BY <1>2, <1>3, <3>2, <3>3 DEF Mild
  <2>2. CASE phase \in {"count", "clean"}
    <3>1. NextSeed
      BY <2>2 DEF CallFails
    <3> QED  BY <1>1, <1>2, <2>1, <2>2, <3>1, LeaveSeed
  <2>3. CASE phase = "resolve"
    <3>1. at' = at /\ phase' = IF Seed.rule \in Looking THEN "find" ELSE "create"
      BY <2>3 DEF CallFails, Looking
    <3>2. TypeOK'
      BY <2>1, <2>3, <3>1 DEF IInv, TypeOK, Mild, Typed, Seed
    <3>3. PhaseInv' /\ MissingInv' /\ HealInv'
      BY <1>2, <2>3, <3>1 DEF IInv, PhaseInv, MissingInv, HealInv, Items, Seed
    <3>4. FreshInv'
      BY <1>2, <2>3, <3>1 DEF IInv, FreshInv, NewOnly, LiveAt, Items, Seed
    <3> QED  BY <2>1, <3>2, <3>3, <3>4 DEF IInv, Mild
  <2>4. CASE phase \in {"create", "find", "update"}
    <3>1. NextItem /\ phase \in Items
      BY <2>4 DEF CallFails, Items
    <3>2. PICK n : n = at.item
      OBVIOUS
    <3>3. Seeds[k].rule \notin Looking => NewOnly(k, n + 1)'
      <4>1. Seeds[k].rule \notin Looking => NewOnly(k, n)
        BY <1>1, <3>1, <3>2 DEF IInv, FreshInv, Seed
      <4>2. Earlier(k, n) \subseteq Earlier(k, n + 1)
        BY <3>2, SeedFacts DEF Earlier, IInv, TypeOK
      <4> QED  BY <1>2, <4>1, <4>2 DEF NewOnly, LiveAt
    <3> QED  BY <1>1, <1>2, <2>1, <3>1, <3>2, <3>3, LeaveItem
  <2> QED  BY <2>2, <2>3, <2>4 DEF CallFails
<1>4. parent' \in {"none", "null", "parent"}
  BY DEF CallFails, IInv, TypeOK
<1> QED  BY <1>3, <1>4

(* A boot has passed no seed yet.                                          *)
LEMMA BootKeeps == ASSUME IInv, Boot PROVE IInv'
<1>1. /\ phase' = "seed" /\ at' = [seed |-> 1, item |-> 1]
      /\ UNCHANGED <<engine, table, parent, found, faults, acts>> /\ calm' = TRUE
      /\ Len(Seeds) \in Nat /\ DOMAIN Seeds = 1..Len(Seeds)
  BY SeedFacts DEF Boot
<1>2. TypeOK' /\ NoSeedTwice'
  BY <1>1, SameTables DEF IInv, TypeOK
<1>3. PhaseInv' /\ FreshInv' /\ MissingInv' /\ HealInv'
  BY <1>1 DEF PhaseInv, FreshInv, MissingInv, HealInv, Items
<1> QED  BY <1>2, <1>3 DEF IInv

(* What a crash leaves is what the seeder knows nothing of.                *)
LEMMA CrashKeeps == ASSUME IInv, Crash PROVE IInv'
<1>1. /\ phase' = "down" /\ faults' = faults + 1 /\ faults < MaxFaults
      /\ UNCHANGED <<engine, table, at, parent, found, calm, acts>>
  BY DEF Crash
<1>2. TypeOK' /\ NoSeedTwice'
  BY <1>1, SameTables, SeedsAssumption DEF IInv, TypeOK
<1>3. PhaseInv' /\ FreshInv' /\ MissingInv' /\ HealInv'
  BY <1>1 DEF PhaseInv, FreshInv, MissingInv, HealInv, Items
<1> QED  BY <1>2, <1>3 DEF IInv

(* A request adds rows of its own, edits or deletes.                       *)
LEMMA RequestKeeps ==
    ASSUME IInv, Request, Typed', NEW m \in Models, Only(m),
           DOMAIN table[m] \subseteq DOMAIN table'[m],
           \A i \in LiveAt(m)' :
              \/ table'[m][i].name = "own"
              \/ i \in LiveAt(m) /\ table'[m][i].name = table[m][i].name
    PROVE  IInv'
<1>1. /\ acts' = acts + 1 /\ acts < MaxActs /\ calm' = FALSE
      /\ UNCHANGED <<engine, phase, at, parent, found, faults>>
  BY DEF Request
<1>2. \A x \in Models : \A i \in LiveAt(x)' :
         \/ table'[x][i].name = "own"
         \/ i \in LiveAt(x) /\ table'[x][i].name = table[x][i].name
  <2> SUFFICES ASSUME NEW x \in Models, x # m, NEW i \in LiveAt(x)'
               PROVE  i \in LiveAt(x) /\ table'[x][i].name = table[x][i].name
    OBVIOUS
  <2>1. table'[x] = table[x]
    BY DEF Only
  <2> QED  BY <2>1 DEF LiveAt
<1>3. NoSeedTwice'
  BY <1>2 DEF IInv, NoSeedTwice
<1>4. phase \in Items => /\ at.seed \in DOMAIN Seeds /\ Seed.model \in Models
                         /\ at.item \in DOMAIN Seed.data /\ Item.name # "own"
  BY SeedsAssumption DEF IInv, TypeOK, PhaseInv, Items, Seed, Item, Models
<1>5. TypeOK'
  <2>1. phase = "update" => found \in DOMAIN table'[Seed.model]
    BY <1>4 DEF IInv, TypeOK, Only, Items
  <2>2. acts' \in 0..MaxActs /\ Typed'
    BY <1>1, SeedsAssumption DEF IInv, TypeOK
  <2>3. /\ faults' \in 0..MaxFaults /\ engine' \in {"sql", "mongo"}
        /\ at' \in [seed : 1..Len(Seeds) + 1, item : Nat \ {0}]
        /\ parent' \in {"none", "null", "parent"} /\ calm' \in BOOLEAN
    BY <1>1 DEF IInv, TypeOK
  <2>4. /\ phase' \in {"down", "seed", "count", "clean", "resolve", "create", "find",
                       "update", "done"}
        /\ phase \in {"resolve", "create", "find", "update"} => at.item \in DOMAIN Seed.data
    BY <1>1 DEF IInv, TypeOK
  <2>5. phase' = phase /\ at' = at /\ found' = found /\ Seed' = Seed
    BY <1>1 DEF Seed
  <2> QED  BY <2>1, <2>2, <2>3, <2>4, <2>5 DEF TypeOK, Typed
<1>6. PhaseInv' /\ HealInv'
  BY <1>1 DEF IInv, PhaseInv, HealInv, Items, Seed
<1>7. FreshInv'
  <2> SUFFICES ASSUME phase \in Items, Seed.rule \notin Looking
               PROVE  NewOnly(at.seed, at.item)'
    BY <1>1 DEF FreshInv, Seed
  <2>1. NewOnly(at.seed, at.item)
    BY DEF IInv, FreshInv
  <2> QED  BY <1>1, <1>2, <1>4, <2>1 DEF NewOnly, Earlier, Seed
<1>8. MissingInv'
  <2> SUFFICES ASSUME phase = "create", Seed.rule \in Looking
               PROVE  Named(Seed.model, Item.name)' = {}
    BY <1>1 DEF MissingInv, Seed
  <2>1. Named(Seed.model, Item.name) = {}
    BY DEF IInv, MissingInv
  <2> QED  BY <1>1, <1>2, <1>4, <2>1 DEF Named, Items, Seed, Item
<1> QED  BY <1>3, <1>5, <1>6, <1>7, <1>8 DEF IInv

(* A request creates a row of its own.                                     *)
LEMMA UserCreatesKeeps == ASSUME IInv, NEW m \in Models, UserCreates(m) PROVE IInv'
<1> DEFINE r == Row("own", "own", "none", "live")
<1>1. r \in RowsOf(m) /\ r.name = "own"
  BY DEF Row, RowsOf
<1>2. table' = [table EXCEPT ![m] = Append(@, r)] /\ Request
  BY DEF UserCreates
<1> HIDE DEF r
<1>3. Typed' /\ Only(m) /\ Added(m, r)
  BY <1>1, <1>2, Appended DEF IInv
<1>4. \A i \in LiveAt(m)' : \/ table'[m][i].name = "own"
                            \/ i \in LiveAt(m) /\ table'[m][i].name = table[m][i].name
  BY <1>1, <1>3 DEF Added, LiveAt
<1>5. DOMAIN table[m] \subseteq DOMAIN table'[m]
  BY <1>3 DEF Added
<1> QED  BY <1>2, <1>3, <1>4, <1>5, RequestKeeps

(* A request edits or deletes a row.                                       *)
LEMMA UserChangesKeeps ==
    ASSUME IInv, NEW m \in Models, UserEdits(m) \/ UserDeletes(m)
    PROVE  IInv'
<1>1. PICK i \in LiveAt(m) :
         \/ table' = [table EXCEPT ![m][i].text = "own"]
         \/ table' = [table EXCEPT ![m][i].is = "deleted"]
  BY DEF UserEdits, UserDeletes
<1>2. table[m][i] \in RowsOf(m) /\ i \in DOMAIN table[m]
  BY LenProperties, ElementOfSeq DEF IInv, TypeOK, LiveAt
<1>3. PICK r \in RowsOf(m) : /\ table' = [table EXCEPT ![m][i] = r]
                             /\ r.name = table[m][i].name
  <2>1. CASE table' = [table EXCEPT ![m][i].text = "own"]
    <3> DEFINE r == [table[m][i] EXCEPT !.text = "own"]
    <3>1. r \in RowsOf(m) /\ r.name = table[m][i].name
      BY <1>2 DEF RowsOf
    <3>2. table' = [table EXCEPT ![m][i] = r]
      BY <2>1
    <3> QED  BY <3>1, <3>2
  <2>2. CASE table' = [table EXCEPT ![m][i].is = "deleted"]
    <3> DEFINE r == [table[m][i] EXCEPT !.is = "deleted"]
    <3>1. r \in RowsOf(m) /\ r.name = table[m][i].name
      BY <1>2 DEF RowsOf
    <3>2. table' = [table EXCEPT ![m][i] = r]
      BY <2>2
    <3> QED  BY <3>1, <3>2
  <2> QED  BY <1>1, <2>1, <2>2
<1>4. /\ Typed' /\ Only(m) /\ DOMAIN table'[m] = DOMAIN table[m]
      /\ \A j \in DOMAIN table[m] : table'[m][j] = IF j = i THEN r ELSE table[m][j]
  BY <1>2, <1>3, Changed DEF IInv
<1>5. \A j \in LiveAt(m)' : j \in LiveAt(m) /\ table'[m][j].name = table[m][j].name
  BY <1>3, <1>4 DEF LiveAt
<1>6. Request
  BY DEF UserEdits, UserDeletes
<1> QED  BY <1>4, <1>5, <1>6, RequestKeeps

-----------------------------------------------------------------------------
(* The invariant holds, whatever the seeds: of a step each seeder takes,   *)
(* of a failing call, of a crash and of what requests do meanwhile.        *)
THEOREM Invariant == Spec => []IInv
<1>1. Init => IInv
  <2> SUFFICES ASSUME Init PROVE IInv
    OBVIOUS
  <2>1. \A m \in Models : table[m] = <<>> /\ table[m] \in Seq(RowsOf(m)) /\ LiveAt(m) = {}
    <3>1. DOMAIN <<>> = {}
      OBVIOUS
    <3> QED  BY <3>1, EmptySeq DEF Init, LiveAt
  <2>2. NoSeedTwice
    BY <2>1 DEF NoSeedTwice
  <2>3. TypeOK
    <3>1. DOMAIN table = Models /\ \A m \in Models : table[m] \in Seq(RowsOf(m))
      BY <2>1 DEF Init
    <3>2. at \in [seed : 1..Len(Seeds) + 1, item : Nat \ {0}]
      BY SeedFacts DEF Init
    <3>3. faults \in 0..MaxFaults /\ acts \in 0..MaxActs
      BY SeedsAssumption DEF Init
    <3> QED  BY <3>1, <3>2, <3>3 DEF Init, TypeOK
  <2>4. PhaseInv /\ FreshInv /\ MissingInv /\ HealInv
    BY DEF Init, PhaseInv, FreshInv, MissingInv, HealInv, Items
  <2> QED  BY <2>2, <2>3, <2>4 DEF IInv
<1>2. IInv /\ [Next]_vars => IInv'
  <2> SUFFICES ASSUME IInv, [Next]_vars PROVE IInv'
    OBVIOUS
  <2>1. CASE SeederStep
    BY <2>1, StartSeedKeeps, ShouldSkipSeedKeeps, CleanKeeps, ResolveKeeps, CreateKeeps,
       SqlFindOrCreateKeeps, MongoFindKeeps, UpdateKeeps DEF SeederStep
  <2>2. CASE CallFails \/ Boot \/ Crash
    BY <2>2, CallFailsKeeps, BootKeeps, CrashKeeps
  <2>3. CASE \E m \in Models : UserCreates(m) \/ UserEdits(m) \/ UserDeletes(m)
    BY <2>3, UserCreatesKeeps, UserChangesKeeps
  <2>4. CASE UNCHANGED vars
    <3>1. /\ UNCHANGED <<engine, table, phase, at, parent, found, calm, faults, acts>>
          /\ Seed' = Seed /\ Item' = Item
      BY <2>4 DEF vars, Seed, Item
    <3>2. TypeOK' /\ PhaseInv'
      BY <3>1 DEF IInv, TypeOK, PhaseInv
    <3>3. NoSeedTwice' /\ FreshInv' /\ MissingInv'
      BY <3>1 DEF IInv, NoSeedTwice, FreshInv, NewOnly, MissingInv, Named, LiveAt
    <3>4. HealInv'
      BY <3>1 DEF IInv, HealInv, Healed, Tidy, Good, Named, LiveAt
    <3> QED  BY <3>2, <3>3, <3>4 DEF IInv
  <2> QED  BY <2>1, <2>2, <2>3, <2>4 DEF Next
<1> QED  BY <1>1, <1>2, PTL DEF Spec

(* Every variable keeps its type.                                          *)
THEOREM TypeCorrect == Spec => []TypeOK
<1>1. IInv => TypeOK
  BY DEF IInv
<1> QED  BY <1>1, Invariant, PTL

(* However often the seeder is interrupted and starts again, no item is in *)
(* its table twice.                                                        *)
THEOREM NeverTwice == Spec => []NoSeedTwice
<1>1. IInv => NoSeedTwice
  BY DEF IInv
<1> QED  BY <1>1, Invariant, PTL

(* A boot that nothing disturbs leaves every table as the rule of its seed *)
(* says, whatever earlier boots and requests have left.                    *)
THEOREM HealedByBoot == Spec => []BootHeals
<1>1. IInv => BootHeals
  <2> SUFFICES ASSUME IInv, phase = "done", calm, NEW k \in DOMAIN Seeds,
                      Seeds[k].rule \notin {"never", "once"}
               PROVE  LET m == Seeds[k].model  r == Seeds[k].rule
                      IN /\ \A n \in Names(m) : Named(m, n) # {}
                         /\ r = "update" => \A n \in Names(m) : \A i \in Named(m, n) :
                                               table[m][i].text = "seed"
                         /\ r \in {"delete", "truncate"} =>
                               \A i \in LiveAt(m) : table[m][i].name \in Names(m)
    BY DEF BootHeals
  <2>1. k < at.seed
    BY SeedFacts DEF IInv, PhaseInv
  <2>2. Healed(k)
    BY <2>1 DEF IInv, HealInv
  <2>3. Names(Seeds[k].model) = {Seeds[k].data[j].name : j \in DOMAIN Seeds[k].data}
    BY NamesOfSeed
  <2> QED  BY <2>2, <2>3 DEF Healed, Tidy, Good
<1> QED  BY <1>1, Invariant, PTL

=============================================================================

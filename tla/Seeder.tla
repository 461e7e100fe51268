------------------------------- MODULE Seeder -------------------------------
(***************************************************************************)
(* The seeders of SQL and Mongo, which the primary instance runs when it   *)
(* boots, in the background unless SEEDER_AWAIT is set: seed after seed,   *)
(* item after item, each call to the database a step of its own.  Requests *)
(* meanwhile create, edit and delete rows; the process may die and boots   *)
(* again; a failing call is logged and passed over.                        *)
(***************************************************************************)
EXTENDS Naturals, Sequences, FiniteSets

CONSTANTS
    Seeds,      \* src/seeds: a sequence of [model, rule, data]
    Await,      \* SEEDER_AWAIT
    MaxFaults, MaxActs

Models == {Seeds[k].model : k \in DOMAIN Seeds}
Rules == {"never", "once", "truncate", "delete", "create", "update"}

IsSequence(s) == s \in Seq({s[i] : i \in DOMAIN s})

(* As in src/seeds: a model has one seed, and no name is in it twice.      *)
ASSUME SeedsAssumption ==
    /\ IsSequence(Seeds)
    /\ \A k \in DOMAIN Seeds :
         LET data == Seeds[k].data
         IN /\ Seeds[k].rule \in Rules /\ IsSequence(data)
            /\ \A l \in DOMAIN Seeds : Seeds[k].model = Seeds[l].model => k = l
            /\ \A i \in DOMAIN data : data[i].name # "own"
            /\ \A i, j \in DOMAIN data : data[i].name = data[j].name => i = j
    /\ Await \in BOOLEAN /\ MaxFaults \in Nat /\ MaxActs \in Nat

VARIABLES engine,  \* of the seeder: "sql" or "mongo"
          table,   \* of each model; the position of a row is its id
          phase,   \* of the seeder: which call comes next
          at,      \* [seed, item]: where its two loops are
          parent,  \* what the reference of the item resolved to
          found,   \* the row an 'update' rule writes over
          calm,    \* no call failed and no request wrote since the boot
          faults, acts

vars == <<engine, table, phase, at, parent, found, calm, faults, acts>>

Seed == Seeds[at.seed]
Item == Seed.data[at.item]

(* A row: what it is called, what it says, what it refers to.              *)
Row(name, text, ref, is) == [name |-> name, text |-> text, ref |-> ref, is |-> is]
LiveAt(m) == {i \in DOMAIN table[m] : table[m][i].is = "live"}
Named(m, n) == {i \in LiveAt(m) : table[m][i].name = n}
Names(m) == UNION {{Seeds[k].data[j].name : j \in DOMAIN Seeds[k].data} :
                     k \in {l \in DOMAIN Seeds : Seeds[l].model = m}}
RowsOf(m) == [name : Names(m) \cup {"own"}, text : {"seed", "own"},
              ref : {"none", "null", "parent"}, is : {"live", "deleted"}]

-----------------------------------------------------------------------------
(* Mutant: the loop does not advance.                                      *)
SameSeed == /\ at' = [at EXCEPT !.item = 1]
            /\ phase' = "seed"

(* The loop of seed(): on to the next seed, or item.                       *)
NextSeed == /\ at' = [seed |-> at.seed + 1, item |-> 1]
            /\ phase' = "seed"

FirstItem == IF Seed.data = <<>> THEN NextSeed ELSE at' = at /\ phase' = "resolve"

(* Mutant: one item too many.                                              *)
NextItemAndOne == IF at.item <= Len(Seed.data)
                  THEN at' = [at EXCEPT !.item = @ + 1] /\ phase' = "resolve"
                  ELSE NextSeed

NextItem == IF at.item < Len(Seed.data)
            THEN at' = [at EXCEPT !.item = @ + 1] /\ phase' = "resolve"
            ELSE NextSeed

Rest == UNCHANGED <<engine, calm, faults, acts>>

(* seed(): what the action of the seed asks for.                           *)
StartSeed ==
    /\ phase = "seed"
    /\ IF at.seed > Len(Seeds) THEN phase' = "done" /\ at' = at
       ELSE CASE Seed.rule = "never" -> NextSeed
              [] Seed.rule = "once" -> phase' = "count" /\ at' = at
              [] Seed.rule \in {"truncate", "delete"} -> phase' = "clean" /\ at' = at
              [] OTHER -> FirstItem
    /\ UNCHANGED <<table, parent, found>> /\ Rest

(* Mutant: the seed is not skipped when the table has rows.                *)
SeedAnyway ==
    /\ phase = "count" /\ FirstItem
    /\ UNCHANGED <<table, parent, found>> /\ Rest

(* shouldSkipSeed: count() leaves deleted rows out.                        *)
ShouldSkipSeed ==
    /\ phase = "count"
    /\ IF LiveAt(Seed.model) # {} THEN NextSeed ELSE FirstItem
    /\ UNCHANGED <<table, parent, found>> /\ Rest

(* destroy with force, or a soft delete.                                   *)
SqlClean ==
    /\ table' = [table EXCEPT ![Seed.model] =
                   IF Seed.rule = "truncate" THEN <<>>
                   ELSE [i \in DOMAIN @ |-> [@[i] EXCEPT !.is = "deleted"]]]

(* collection.drop, or deleteMany.                                         *)
MongoClean == table' = [table EXCEPT ![Seed.model] = <<>>]

CleanExistingData ==
    /\ phase = "clean"
    /\ IF engine = "sql" THEN SqlClean ELSE MongoClean
    /\ FirstItem
    /\ UNCHANGED <<parent, found>> /\ Rest

(* resolveReferences: the id of the parent, null without one.              *)
Resolve ==
    /\ phase = "resolve"
    /\ LET ref == Item.ref
           parents == IF ref = <<>> THEN {} ELSE Named(ref[1], ref[2])
       IN \/ ref = <<>> /\ parent' = "none"
          \/ ref # <<>> /\ parents = {} /\ parent' = "null"
          \/ \E i \in parents : parent' = "parent"
    /\ phase' = IF Seed.rule \in {"create", "update"} THEN "find" ELSE "create"
    /\ UNCHANGED <<table, at, found>> /\ Rest

Body == Row(Item.name, "seed", parent, "live")
Created == table' = [table EXCEPT ![Seed.model] = Append(@, Body)]

Create == /\ phase = "create" /\ Created /\ NextItem
          /\ UNCHANGED <<parent, found>> /\ Rest

(* Mutant: a row that is there is left as it is.                           *)
KeepAsIs(i) == found' = i /\ table' = table /\ NextItem

Keep(i) == /\ found' = i /\ table' = table
           /\ IF Seed.rule = "update" THEN phase' = "update" /\ at' = at ELSE NextItem

(* Model.findOrCreate, in one transaction.                                 *)
SqlFindOrCreate ==
    /\ engine = "sql" /\ phase = "find"
    /\ \/ \E i \in Named(Seed.model, Item.name) : Keep(i)
       \/ Named(Seed.model, Item.name) = {} /\ Created /\ NextItem /\ UNCHANGED found
    /\ UNCHANGED parent /\ Rest

(* findOne, then create.                                                   *)
MongoFind ==
    /\ engine = "mongo" /\ phase = "find"
    /\ \/ \E i \in Named(Seed.model, Item.name) : Keep(i)
       \/ /\ Named(Seed.model, Item.name) = {}
          /\ phase' = "create" /\ UNCHANGED <<table, at, found>>
    /\ UNCHANGED parent /\ Rest

(* record.update(body): by id, deleted meanwhile or not.                   *)
Update ==
    /\ phase = "update"
    /\ table' = [table EXCEPT ![Seed.model][found] =
                   [@ EXCEPT !.text = "seed", !.ref = parent]]
    /\ NextItem
    /\ UNCHANGED <<parent, found>> /\ Rest

(* A failing call is logged.  Counting or emptying: the seed is left out;  *)
(* a reference: null; a row: the item is left out.                         *)
CallFails ==
    /\ phase \in {"count", "clean", "resolve", "create", "find", "update"}
    /\ faults < MaxFaults /\ faults' = faults + 1 /\ calm' = FALSE
    /\ CASE phase \in {"count", "clean"} -> NextSeed /\ UNCHANGED parent
         [] phase = "resolve" ->
              /\ Item.ref # <<>> /\ parent' = "null" /\ at' = at
              /\ phase' = IF Seed.rule \in {"create", "update"} THEN "find" ELSE "create"
         [] OTHER -> NextItem /\ UNCHANGED parent
    /\ UNCHANGED <<engine, table, found, acts>>

-----------------------------------------------------------------------------
(* onModuleInit of the primary: a boot.                                    *)
Boot == /\ phase = "down"
        /\ phase' = "seed" /\ at' = [seed |-> 1, item |-> 1] /\ calm' = TRUE
        /\ UNCHANGED <<engine, table, parent, found, faults, acts>>

Crash == /\ phase # "down"
         /\ faults < MaxFaults /\ faults' = faults + 1
         /\ phase' = "down"
         /\ UNCHANGED <<engine, table, at, parent, found, calm, acts>>

(* Requests are served once the seeder is done, or from the boot on.       *)
Serving == phase = "done" \/ (~Await /\ phase # "down")

Request == /\ Serving /\ acts < MaxActs /\ acts' = acts + 1 /\ calm' = FALSE
           /\ UNCHANGED <<engine, phase, at, parent, found, faults>>

UserCreates(m) ==
    /\ Request
    /\ table' = [table EXCEPT ![m] = Append(@, Row("own", "own", "none", "live"))]

UserEdits(m) ==
    /\ Request
    /\ \E i \in LiveAt(m) : table' = [table EXCEPT ![m][i].text = "own"]

UserDeletes(m) ==
    /\ Request
    /\ \E i \in LiveAt(m) : table' = [table EXCEPT ![m][i].is = "deleted"]

-----------------------------------------------------------------------------
Init == /\ engine \in {"sql", "mongo"}
        /\ table = [m \in Models |-> <<>>]
        /\ phase = "down" /\ at = [seed |-> 1, item |-> 1]
        /\ parent = "none" /\ found = 0
        /\ calm = TRUE /\ faults = 0 /\ acts = 0

SeederStep == \/ StartSeed \/ ShouldSkipSeed \/ CleanExistingData \/ Resolve
              \/ Create \/ SqlFindOrCreate \/ MongoFind \/ Update

Next == \/ SeederStep \/ CallFails \/ Boot \/ Crash
        \/ \E m \in Models : UserCreates(m) \/ UserEdits(m) \/ UserDeletes(m)

(* pm2 boots a process that died, and the event loop resumes the seeder.   *)
Spec == Init /\ [][Next]_vars /\ WF_vars(SeederStep) /\ WF_vars(Boot)

-----------------------------------------------------------------------------
TypeOK ==
    /\ engine \in {"sql", "mongo"}
    /\ DOMAIN table = Models
    /\ \A m \in Models : table[m] \in Seq(RowsOf(m))
    /\ phase \in {"down", "seed", "count", "clean", "resolve", "create", "find",
                  "update", "done"}
    /\ at \in [seed : 1..Len(Seeds) + 1, item : Nat \ {0}]
    /\ phase \in {"resolve", "create", "find", "update"} => at.item \in DOMAIN Seed.data
    /\ parent \in {"none", "null", "parent"} /\ calm \in BOOLEAN
    /\ phase = "update" => found \in DOMAIN table[Seed.model]
    /\ faults \in 0..MaxFaults /\ acts \in 0..MaxActs

(* However often the process dies while it seeds and boots again, no item  *)
(* is in its table twice.                                                  *)
NoSeedTwice ==
    \A m \in Models : \A i, j \in LiveAt(m) :
        i # j /\ table[m][i].name = table[m][j].name => table[m][i].name = "own"

(* Whatever earlier boots left, one that nothing disturbs leaves each table*)
(* that is seeded always as its rule says: 'update' and 'create' with every*)
(* item, 'update' as seeded, 'delete' and 'truncate' with nothing else.    *)
BootHeals ==
    phase = "done" /\ calm =>
        \A k \in DOMAIN Seeds :
            LET m == Seeds[k].model  r == Seeds[k].rule
            IN r \notin {"never", "once"} =>
                 /\ \A n \in Names(m) : Named(m, n) # {}
                 /\ r = "update" => \A n \in Names(m) : \A i \in Named(m, n) :
                                       table[m][i].text = "seed"
                 /\ r \in {"delete", "truncate"} =>
                       \A i \in LiveAt(m) : table[m][i].name \in Names(m)

(* Seeding comes to its end after the last crash.                          *)
SeedingEnds == <>[](phase = "done")
=============================================================================

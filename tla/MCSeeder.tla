------------------------------ MODULE MCSeeder ------------------------------
(***************************************************************************)
(* Seeds of every rule, with a reference as states have to countries.      *)
(***************************************************************************)
EXTENDS Seeder

Plain(n) == [name |-> n, ref |-> <<>>]
MCSeeds == <<
    [model |-> "Page", rule |-> "update", data |-> <<Plain("about"), Plain("terms")>>],
    [model |-> "Country", rule |-> "once", data |-> <<Plain("US"), Plain("CA")>>],
    [model |-> "State", rule |-> "once", data |-> <<[name |-> "AL", ref |-> <<"Country", "US">>]>>],
    [model |-> "Demo", rule |-> "never", data |-> <<Plain("demo")>>],
    [model |-> "Role", rule |-> "create", data |-> <<Plain("admin")>>],
    [model |-> "Menu", rule |-> "delete", data |-> <<Plain("main")>>],
    [model |-> "Rate", rule |-> "truncate", data |-> <<Plain("base")>>],
    [model |-> "Plan", rule |-> "once", data |-> <<>>] >>
=============================================================================

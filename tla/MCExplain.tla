----------------------------- MODULE MCExplain ------------------------------
(***************************************************************************)
(* Plans for Explain: a root with one or two members, which are leaves,    *)
(* maps, arrays of up to two leaves or maps, or arrays in arrays, under    *)
(* keys of every list and of none.                                         *)
(***************************************************************************)
EXTENDS Explain, TLC
LOCAL INSTANCE SequencesExt

\* Lists of trees: a member or item is the tree below one step.
Leaf(sort) == <<>> :> sort
Below(step, tree) == [v \in {<<step>> \o w : w \in DOMAIN tree} |-> tree[Tail(v)]]
Tree(sort, members) ==
    [v \in {<<>>} \cup UNION {DOMAIN m : m \in members} |->
        IF v = <<>> THEN sort ELSE (CHOOSE m \in members : v \in DOMAIN m)[v]]

At(step, trees) == [i \in DOMAIN trees |-> Below(step, trees[i])]
With(sort, members) == [i \in DOMAIN members |-> Tree(sort, {members[i]})]
WithBoth(sort, members, others) ==
    FlattenSeq([i \in DOMAIN members |->
                   [k \in DOMAIN others |-> Tree(sort, {members[i], others[k]})]])
Arrays(items) ==
    <<Tree("array", {})>> \o With("array", At("0", items))
        \o WithBoth("array", At("0", items), At("1", items))

Leaves == <<Leaf("string"), Leaf("number"), Leaf("bool"), Leaf("null")>>
Texts == <<Leaf("string"), Leaf("null")>>
Values == Leaves \o Arrays(Texts)
Maps == With("map", At("table_name", Texts) \o At("filtered", Values))
Nested == Arrays(Arrays(<<Leaf("number")>>))

RootedPlans ==
    <<Leaf("string"), Tree("array", {}), Tree("map", {})>>
        \o With("map", At("key", Leaves) \o At("filtered", Leaves \o Nested)
                           \o At("using_index", Values) \o At("query_block", Maps)
                           \o At("possible_keys", Values \o Arrays(Maps)))
        \o WithBoth("map", At("possible_keys", Values), At("attached_condition", Values))
        \o WithBoth("map", At("key", Texts), At("query_block", Maps))

\* TLC computes this list once, and not wherever Plans is used.
SmallPlans == RootedPlans
=============================================================================

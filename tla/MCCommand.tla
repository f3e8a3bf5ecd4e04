----------------------------- MODULE MCCommand -----------------------------
(* Command for TLC.  Index 1 is an optional unique field, 2 a unique code,  *)
(* 3 a number that is not unique.                                           *)
EXTENDS Command, SequencesExt

Lit(v)    == [from |-> "lit", v |-> v]
Gen       == [from |-> "gen"]
Item      == [from |-> "item"]
None      == [from |-> "none"]
Always    == [test |-> "always"]
All       == [x |-> 0, src |-> Lit(0)]
Where(x, src) == [x |-> x, src |-> src]

(* Take a code if nobody has code 1, and say so.                            *)
Claim == [required |-> FALSE, ret |-> 0, steps |-> <<
    [op |-> "find_one", when |-> Always, as |-> "f", where |-> Where(2, Lit(1)), required |-> FALSE],
    [op |-> "create", when |-> [test |-> "absent", name |-> "f"], as |-> "r",
     input |-> <<None, Gen, Lit(0)>>],
    [op |-> "emit_event", when |-> [test |-> "present", name |-> "r"], as |-> "e"]>>]

(* One record per item, under a key.                                        *)
Import == [required |-> TRUE, ret |-> 1, steps |-> <<
    [op |-> "foreach", when |-> Always, as |-> "e", steps |-> <<
        [op |-> "create", when |-> Always, as |-> "r", input |-> <<Item, Gen, Lit(0)>>],
        [op |-> "query", when |-> Always, as |-> "f", where |-> All]>>]>>]

(* Remove the unused ones and issue a new code.                             *)
Renew == [required |-> FALSE, ret |-> 0, steps |-> <<
    [op |-> "delete_where", when |-> Always, as |-> "e", where |-> Where(3, Lit(0))],
    [op |-> "create", when |-> Always, as |-> "r", input |-> <<None, Gen, Lit(1)>>]>>]

(* Count a use of every record and change its code.                         *)
Use == [required |-> FALSE, ret |-> 0, steps |-> <<
    [op |-> "find_one", when |-> Always, as |-> "f", where |-> All, required |-> TRUE],
    [op |-> "increment_where", when |-> Always, as |-> "e", where |-> All, field |-> 3],
    [op |-> "update_where", when |-> [test |-> "eq", name |-> "f", x |-> 2, v |-> 1], as |-> "e",
     where |-> All, set |-> <<None, Gen, None>>]>>]

MCPrograms == <<Claim, Import, Renew, Use>>
MCStepLists == {MCPrograms[g].steps : g \in DOMAIN MCPrograms} \cup {Import.steps[1].steps}
(* One record that is in use by nobody yet.                                 *)
MCEarlier  == {[id |-> NoId, data |-> <<1, 0, 0>>, key |-> NoKey, named |-> Named, ret |-> 0]}
MCItems    == {NoList, <<1, 1>>, <<1, 2>>}
(* The entries of an index lie together, its values in some order.         *)
MCKeyRank  ==
    [e \in Indexes \X Values |->
        e[1] * Cardinality(Values) + (CHOOSE n \in 1 .. Cardinality(Values) : SetToSeq(Values)[n] = e[2])]
Symm       == Permutations(Calls)
=============================================================================

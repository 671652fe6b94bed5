------------------------------ MODULE MCAccounts ------------------------------
(* Small values for the constants of Accounts: a school that is registered *)
(* twice, two teachers with the same front of their email, pupils of       *)
(* one name.                                                               *)
EXTENDS Accounts, TLC

CONSTANTS identity, name

MCIdentityOf == [s \in Schools |-> identity]

MCUsernameOf == [t \in Teachers |-> "teacher"]

MCNameOf == [p \in Pupils |-> name]

\* All of a kind are alike, and nothing is chosen among them.
Symmetry == Permutations(Teachers) \union Permutations(Pupils) \union Permutations(Rooms)
                \union Permutations(Schools)
===============================================================================

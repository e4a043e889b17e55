----------------------------- MODULE MCAccounts -----------------------------
(***************************************************************************)
(* Small instances of Accounts for TLC.                                    *)
(***************************************************************************)
EXTENDS Accounts, TLC

Symmetry == Permutations(Threads) \cup Permutations(Tokens)

Fresh == [u \in Ids |-> NoUser]

\* An installation in use: two administrators, the second with a hash from
\* before the current parameters.
InUse ==
    LET second == CHOOSE u \in Ids : u # CHOOSE v \in Ids : TRUE
        first == CHOOSE v \in Ids : TRUE
        name == CHOOSE n \in Names : n # DefaultName
    IN [Fresh EXCEPT ![first] = Account(DefaultName, DefaultPw, "admin"),
                     ![second] = [Account(name, DefaultPw, "admin") EXCEPT !.weak = TRUE]]

FreshOrInUse == {Fresh, InUse}

\* Demotion, a new password, and both a new name and a new password.
SomeUpdates ==
    {Fields(Keep, Keep, "viewer"), Fields(Keep, Keep, "admin")}
        \cup {Fields(Keep, p, Keep) : p \in Passwords}
        \cup {Fields(n, p, Keep) : n \in Names, p \in Passwords}
=============================================================================

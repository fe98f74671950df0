------------------------ MODULE MCEconomyPersistence ------------------------
(* Instances of EconomyPersistence.  The mutations are the ones the server  *)
(* makes: the starting credits of an account (ServerHost.h BindAccountBase, *)
(* enqueued again at a later login), a credit and a debit of an account,    *)
(* and the combat and build events of ERServer.cpp, whose accountId is 0.   *)
EXTENDS EconomyPersistence

Mutation(key, account, amount, ref) ==
    [idemKey |-> key, accountId |-> account, amount |-> amount, ref |-> ref]

Seed(a) == Mutation(<<"seed", a>>, a, 2, <<"Account", a>>)
Cargo(a) == Mutation(<<"cargo", 8>>, a, -1, <<"Cargo", 8>>)

SafetyMutations == {Seed(1), Seed(2), Cargo(1)}

\* A build completion and a loot claim as ERServer.cpp enqueues them.
SimMutations == { Mutation(<<"build", 5>>, 0, 0, <<"Build", 5>>) }
=============================================================================

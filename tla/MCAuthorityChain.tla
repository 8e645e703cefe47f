-------------------------- MODULE MCAuthorityChain --------------------------
(* AuthorityChain with a root grant and one that allows one action more, for  *)
(* which there is also a rotation that its own key signed.                    *)
EXTENDS AuthorityChain, TLC

RootAllowed == [root |-> {"a"}, next |-> {"a", "b"}]
TwoKeys == [root |-> 1, next |-> 2]
TwoEpochs == [root |-> 1, next |-> 2]
SelfSigned == {[from |-> "root", to |-> "next", key |-> 2, anchor |-> <<>>]}

Interchangeable ==
    Permutations(Paths) \cup Permutations(Contexts) \cup Permutations(Calls)
=============================================================================

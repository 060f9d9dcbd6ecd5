-------------------------- MODULE MCGeneratedService --------------------------
(* An instance for TLC: loans of books by members, where a loan names both and a book  *)
(* its owner, so that a delete of a member reaches a loan on two ways.                  *)
EXTENDS GeneratedService, TLC

CreationOrder == <<"Member", "Book", "Loan">>
Relations     == [Member |-> <<>>, Book |-> <<"Member">>, Loan |-> <<"Book", "Member">>]
Symmetry      == Permutations(Clients)
=============================================================================

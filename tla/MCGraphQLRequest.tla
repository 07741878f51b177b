-------------------------- MODULE MCGraphQLRequest ---------------------------
(***************************************************************************)
(* Instances of GraphQLRequest for TLC: three sub-mutations, so that one   *)
(* can run before and one after the one that goes wrong.                   *)
(***************************************************************************)
EXTENDS GraphQLRequest, TLC

Interchangeable == Permutations(Mutations)
==============================================================================

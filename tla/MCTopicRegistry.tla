-------------------------- MODULE MCTopicRegistry --------------------------
(* Two wildcards, one of which covers the other, and two plain names.      *)
EXTENDS TopicRegistry

MCNames == {<<"a", "/", "b">>, <<"c">>}
MCFilters == {<<"a", "/", "#">>, <<"a", "/", "+">>}

\* The gateway gives out any id that is free.
IdSymmetry == Permutations(Ids)
=============================================================================

---------------------------- MODULE MCParticipants ----------------------------
(* A small instance of Participants for TLC: requests on a contest with up *)
(* to two participants, of whom two people take part alone, in teams or    *)
(* from a list.                                                            *)
EXTENDS Participants, TLC

CONSTANTS a, b, t

SomeTeams == {{a}, {a, b}}
SomeLists == {{a, t}}
SomeFiles == {{2, 3}}

Symmetry == Permutations(Requests) \cup Permutations(Ids)
=============================================================================

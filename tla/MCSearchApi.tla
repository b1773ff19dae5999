---------------------------- MODULE MCSearchApi ----------------------------
(***************************************************************************)
(* Small instances of SearchApi for TLC.                                   *)
(***************************************************************************)
EXTENDS SearchApi, TLC

CONSTANTS
    one, two,                 \* normalised queries
    One, oneSpaced, Two, spaces   \* queries as they arrive

MCRawQueries == {One, oneSpaced, Two, spaces}

MCNormalise ==
    (One :> one) @@ (oneSpaced :> one) @@ (Two :> two) @@ (spaces :> Blank)

\* Instances with a single query.
OneRawQueries == {One, spaces}

OneNormalise == (One :> one) @@ (spaces :> Blank)

RequestSymmetry == Permutations(Requests)

=============================================================================

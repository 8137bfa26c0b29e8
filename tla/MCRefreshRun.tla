---------------------------- MODULE MCRefreshRun ----------------------------
(***************************************************************************)
(* Small instances of RefreshRun: a credential with a file, one of another *)
(* provider without, a second listing of the first one under another       *)
(* index, and what becomes of them between the listing and their turn.     *)
(***************************************************************************)
EXTENDS RefreshRun

Cred(i, j, p, n) ==
    [NoAuth EXCEPT !.id = i, !.index = j, !.provider = p, !.priority = n,
                   !.file = TRUE]

Low == Cred(1, 1, 1, 0)
High == [Cred(2, 2, 2, 5) EXCEPT !.file = FALSE, !.runtimeOnly = TRUE]
Middle == Cred(3, 3, 1, 3)
Again == Cred(1, 4, 1, 0)
Unnamed == Cred(0, 3, 1, 9)
Down == [Low EXCEPT !.unavailable = TRUE]
Off == [Middle EXCEPT !.disabled = TRUE]

Records == {Low, High, Middle, Again, Unnamed, Down, Off}

MCListings == {<<>>, <<Middle, High, Low>>, <<Low, High, Again>>}
    \cup {<<a, b>> : a, b \in Records}

MCRuntimes == {Low, High, Middle, Again, Down, Off}

All == [providers |-> {}, include |-> {}, exclude |-> {},
        skipUnavailable |-> TRUE, physicalFilesOnly |-> FALSE,
        temporaryPriority |-> TRUE]

MCConfigs == {All,
              [All EXCEPT !.providers = {1}, !.exclude = {3},
                          !.skipUnavailable = FALSE],
              [All EXCEPT !.include = {1, 2}, !.temporaryPriority = FALSE,
                          !.physicalFilesOnly = TRUE]}

Anyone == [well |-> TRUE, dry |-> FALSE, given |-> FALSE, indices |-> <<>>]

Naming(s) == [Anyone EXCEPT !.given = TRUE, !.indices = s]

MCBodies == {Anyone, Naming(<<1>>), Naming(<<3, 1, 3>>), Naming(<<>>),
             Naming(<<0>>), Naming(<<1, 2, 3, 4>>),
             [Anyone EXCEPT !.dry = TRUE], [Anyone EXCEPT !.well = FALSE]}
=============================================================================

--------------------------- MODULE MCPriorityLease ---------------------------
(***************************************************************************)
(* Small instances of PriorityLease.                                       *)
(*                                                                         *)
(* "files": two credentials share one file and a third has one whose       *)
(* marker may be unreadable, below a runtime-only one of higher priority,  *)
(* so that both files are raised in turn. "churn": one file that others    *)
(* keep writing, so that all three attempts of a save are used up.         *)
(***************************************************************************)
EXTENDS PriorityLease, TLC

CONSTANTS a1, a2, a3, a4, f1, f2

Quoted(n) == [form |-> "string", val |-> n]

Plain(raw) == [priority |-> raw, marker |-> NoMarker, token |-> 0]

(* What a previous process leaves when it dies between save and restore.   *)
Left(raw, a, p) == BuildPriorityOverrideJSON(Plain(raw), a, 0, p)

Broken == [Plain(Number(1)) EXCEPT !.marker = BadMarker]

OneFileOf == a1 :> f1

SharedFileOf == a1 :> f1 @@ a2 :> f1 @@ a3 :> f2

SharedContents ==
    f1 :> {Plain(Absent), Left(Quoted(1), a2, 2)}
        @@ f2 :> {Plain(Quoted(1)), Broken}

OneFileContents == f1 :> {Plain(Quoted(1)), Left(Absent, a1, 3)}

Edits == {Number(2), Quoted(3)}

OneEdit == {Number(2)}
=============================================================================

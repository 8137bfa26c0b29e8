--------------------------- MODULE CredentialFiles ---------------------------
(***************************************************************************)
(* What the plugin promises to those who own the credential files, without *)
(* a word of markers, leases, scans or retries.                            *)
(*                                                                         *)
(* To its owner a file is a priority and tokens. The plugin may have it    *)
(* raised for a while; the owner's priority then is still there, to be     *)
(* restored. CPA and users write when they like, and count their writes.   *)
(***************************************************************************)
EXTENDS Integers

CONSTANT Files

VARIABLES
    owner,    \* the priority each file has once nothing raises it any more
    token,    \* the version of the rest of it
    raised,
    exposed,  \* a write met the plugin's own in a way it could not notice
    writes    \* by the owners, all told

vars == <<owner, token, raised, exposed, writes>>

Init ==
    /\ DOMAIN owner = Files
    /\ token \in [Files -> Nat]
    /\ raised \in [Files -> BOOLEAN]
    /\ exposed = [f \in Files |-> FALSE]
    /\ writes = 0

Kept(f) == owner'[f] = owner[f] /\ token'[f] = token[f]

OthersSame(f) ==
    \A g \in Files \ {f} :
        Kept(g) /\ raised'[g] = raised[g] /\ exposed'[g] = exposed[g]

(* The plugin's writes.                                                    *)
Raise(f) ==
    /\ ~raised[f] /\ raised'[f]
    /\ Kept(f) /\ exposed'[f] = exposed[f]
    /\ OthersSame(f) /\ UNCHANGED writes

Restore(f) ==
    /\ raised[f] /\ ~raised'[f]
    /\ Kept(f) /\ exposed'[f] = exposed[f]
    /\ OthersSame(f) /\ UNCHANGED writes

(* Only an exposed file can lose what its owner wrote.                     *)
Overwrite(f) ==
    /\ exposed[f] /\ exposed'[f]
    /\ OthersSame(f) /\ UNCHANGED writes

(* A write of CPA or a user; an older copy may bring a raise back with it. *)
OwnerWrites(f) ==
    /\ writes' = writes + 1
    /\ token'[f] >= token[f] \/ exposed[f]
    /\ OthersSame(f)

Next == \E f \in Files :
            Raise(f) \/ Restore(f) \/ Overwrite(f) \/ OwnerWrites(f)

Spec == Init /\ [][Next]_vars
=============================================================================

------------------------------ MODULE AuthFile ------------------------------
(***************************************************************************)
(* The contents of one physical credential file, and the two pure          *)
(* rewrites the plugin makes of it (internal/refreshquota/priority.go):    *)
(* buildPriorityOverrideJSON raises the "priority" field and records the   *)
(* old one in a marker, restorePriorityOverrideJSON undoes that.           *)
(*                                                                         *)
(* A file is abstracted to the three things the rewrites tell apart: the   *)
(* raw JSON value of "priority", the marker field, and everything else     *)
(* (tokens and metadata), which is one version number.                     *)
(***************************************************************************)
EXTENDS Integers

CONSTANTS
    AuthIndices,  \* auth_index values of the host's credentials
    NoMarker,     \* the marker field is absent (also a nil lease or fallback)
    BadMarker     \* a marker field that decodePriorityOverrideMarker rejects

-----------------------------------------------------------------------------
(* The raw "priority" field. The form is kept because a restore must put   *)
(* back the bytes it found: "3" and 3 read as the same number.             *)

RawForms == {"absent", "null", "number", "string", "other"}

RawPriority == [form : RawForms, val : Int]

Absent == [form |-> "absent", val |-> 0]

Number(n) == [form |-> "number", val |-> n]

(* The integer a raw priority stands for: a number or a numeric string is  *)
(* its value, anything else (missing, null, not numeric) is 0.             *)
PriorityFromRawJSON(raw) ==
    IF raw.form \in {"number", "string"} THEN raw.val ELSE 0

-----------------------------------------------------------------------------
Marker ==
    [runID : Nat, authIndex : AuthIndices, override : Int,
     original : RawPriority, originalFilePriority : Int]

Content ==
    [priority : RawPriority, marker : Marker \cup {NoMarker, BadMarker},
     token : Nat]

ASSUME MarkerAssumption ==
    /\ NoMarker \notin Marker
    /\ BadMarker \notin Marker
    /\ NoMarker # BadMarker

(* The file carries a marker of this plugin that can be decoded.           *)
Owned(f) == f.marker \notin {NoMarker, BadMarker}

-----------------------------------------------------------------------------
(* Mutant: the guard against a marker already present is missing.          *)
AlwaysOverride(f) == TRUE

(* buildPriorityOverrideJSON refuses a file that already has a marker      *)
(* field, decodable or not.                                                *)
CanOverride(f) == f.marker = NoMarker

NewMarker(f, authIndex, runID, p) ==
    [runID |-> runID, authIndex |-> authIndex, override |-> p,
     original |-> f.priority,
     originalFilePriority |-> PriorityFromRawJSON(f.priority)]

BuildPriorityOverrideJSON(f, authIndex, runID, p) ==
    [f EXCEPT !.priority = Number(p),
              !.marker = NewMarker(f, authIndex, runID, p)]

-----------------------------------------------------------------------------
(* restorePriorityOverrideJSON(raw, fallback). Every caller passes the     *)
(* marker of its transaction as the fallback, so the nil-fallback branch   *)
(* is not modelled. The operators below are its five results.              *)

SameTransaction(m, n) ==
    /\ m.authIndex = n.authIndex
    /\ m.runID = n.runID
    /\ m.override = n.override

RestoreRejected(f, fallback) ==
    \/ f.marker = BadMarker
    \/ Owned(f) /\ ~SameTransaction(f.marker, fallback)

Governing(f, fallback) == IF Owned(f) THEN f.marker ELSE fallback

ExternalChange(f, fallback) ==
    PriorityFromRawJSON(f.priority) # Governing(f, fallback).override

ExpectedPriority(f, fallback) ==
    IF ExternalChange(f, fallback)
    THEN PriorityFromRawJSON(f.priority)
    ELSE Governing(f, fallback).originalFilePriority

(* Mutant: a file whose priority was changed is left alone, marker and all. *)
NoSaveAfterChange(f, fallback) == ~ExternalChange(f, fallback)

NeedsSave(f, fallback) == Owned(f) \/ ~ExternalChange(f, fallback)

RestoredJSON(f, fallback) ==
    [f EXCEPT !.marker = NoMarker,
              !.priority = IF ExternalChange(f, fallback)
                           THEN @
                           ELSE Governing(f, fallback).original]

-----------------------------------------------------------------------------
(* Not in the code: the priority a file stands for once any transaction    *)
(* recorded in it is undone. A crash leaves nothing but the file, so this  *)
(* is all a later recovery can know.                                       *)
Effective(f) ==
    IF Owned(f) /\ PriorityFromRawJSON(f.priority) = f.marker.override
    THEN f.marker.original
    ELSE f.priority
=============================================================================

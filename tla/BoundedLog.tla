----------------------------- MODULE BoundedLog ----------------------------
(***************************************************************************)
(* What a reader of the audit log may rely on: it sees the newest entries, *)
(* newest first, and an entry disappears only to make room for a newer one *)
(* or when the log is cleared.                                             *)
(***************************************************************************)
EXTENDS Integers, Sequences

CONSTANTS Entries, Bound

VARIABLE seen  \* the entries, newest first

Keep(s) == SubSeq(s, 1, IF Len(s) < Bound THEN Len(s) ELSE Bound)

Add   == seen' # <<>> /\ Head(seen') \in Entries /\ seen' = Keep(<<Head(seen')>> \o seen)
Empty == seen' = <<>>

BoundedSpec == seen = <<>> /\ [][Add \/ Empty]_seen
=============================================================================

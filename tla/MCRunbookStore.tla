--------------------------- MODULE MCRunbookStore ---------------------------
(***************************************************************************)
(* Small instances of RunbookStore for TLC.                                *)
(***************************************************************************)
EXTENDS RunbookStore, TLC

CONSTANTS a1, a2, anon, idA, none

\* Two versions of one skill, and a document without a usable id, which stands
\* for every runbook that is no version of theirs.
ThreeRunbooks   == {a1, a2, anon}
ThreeIdentities == a1 :> idA @@ a2 :> idA @@ anon :> none

Corrupt == [kind |-> "corrupt", books |-> <<>>]
Starts  == {Absent, Valid(<<anon, a1>>), Corrupt}
=============================================================================

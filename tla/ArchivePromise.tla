--------------------------- MODULE ArchivePromise ---------------------------
(***************************************************************************)
(* What the exports of a version promise: an archive that only grows, by   *)
(* entries that tell of one moment, the moment they are added, and whose   *)
(* first entry, and no other, is the initial export.                       *)
(***************************************************************************)
EXTENDS Naturals, Sequences

VARIABLES recorded,      (* how much people have recorded on the version    *)
          archive        (* what has been exported of it                    *)

Init == recorded = 0 /\ archive = <<>>

Record == recorded' = recorded + 1 /\ UNCHANGED archive

Export ==
  /\ archive' = Append(archive, [name     |-> recorded,
                                 workbook |-> recorded,
                                 initial  |-> archive = <<>>])
  /\ UNCHANGED recorded

Next == Record \/ Export

Spec == Init /\ [][Next]_<<recorded, archive>>
=============================================================================

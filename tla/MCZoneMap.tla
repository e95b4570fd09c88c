----------------------------- MODULE MCZoneMap ------------------------------
(* Instances of ZoneMap for TLC.                                           *)
EXTENDS ZoneMap

MCNumbers == 0..1

\* Two states of the run without zone maps are one if they differ in the maps
\* only: no step of writers or of an index build looks at zone, unseen or wide
\* but to set them again, nor does the property.
IndexView ==
  <<rows, indexing, phase, undo, due,
    IF write = Idle THEN Idle ELSE <<write.op, write.idx, write.val>>>>
=============================================================================

----------------------------- MODULE MCFileLock -----------------------------
(* Two openers in one process, one in another.                             *)
EXTENDS FileLock

CONSTANTS p1, p2, o1, o2, o3
MCProcess == {p1, p2}
MCOpener == {o1, o2, o3}
MCProcessOf == [o \in MCOpener |-> IF o = o3 THEN p2 ELSE p1]
=============================================================================

------------------------------ MODULE FileLock ------------------------------
(***************************************************************************)
(* The lock that keeps one database file to one SnapDB instance: a         *)
(* registry of open paths in each process (SnapDB._open_paths) and an      *)
(* advisory lock on a file beside the database (core.py                    *)
(* _acquire_file_lock, _release_file_lock, __init__, close).               *)
(*                                                                         *)
(* All openers name the same path.  The file's content is the set of       *)
(* writes it has taken in; an opener works on its own copy, which close    *)
(* persists.  An opener that finds the path in the registry raises without *)
(* a change of state; this is no step.                                     *)
(***************************************************************************)
EXTENDS Integers, FiniteSets

CONSTANTS
  Process,
  Opener,      \* who may construct a SnapDB on the path, one instance at a time
  ProcessOf,   \* the process an opener belongs to
  None,
  MaxWrites,   \* bound: writes
  MaxCrashes   \* bound: abrupt exits of processes

ASSUME OpenerAssumption == ProcessOf \in [Opener -> Process] /\ None \notin Opener
ASSUME BoundAssumption == MaxWrites \in Nat /\ MaxCrashes \in Nat

VARIABLES
  registered,  \* the processes with the path in _open_paths
  flock,       \* the opener whose handle holds the advisory lock
  pc,          \* where each opener is, see TypeOK
  disk, mem,   \* the writes in the file, and in each opener's copy
  leaky,       \* history: processes where a constructor raised and kept the lock
  writes, crashes

vars == <<registered, flock, pc, disk, mem, leaky, writes, crashes>>

Of(p) == {o \in Opener : ProcessOf[o] = p}
Goto(o, place) == pc' = [pc EXCEPT ![o] = place]

Init ==
  /\ registered = {} /\ flock = None /\ leaky = {}
  /\ pc = [o \in Opener |-> "closed"]
  /\ disk = {} /\ mem = [o \in Opener |-> {}]
  /\ writes = 0 /\ crashes = 0

-----------------------------------------------------------------------------
(* Opening.                                                                *)

\* Seeded fault: the path is entered as it was given, not resolved.
RegisterUnresolved(o) ==
  /\ pc[o] = "closed" /\ o \notin registered
  /\ registered' = registered \cup {o}
  /\ Goto(o, "registered")
  /\ UNCHANGED <<flock, disk, mem, leaky, writes, crashes>>

Register(o) ==
  /\ pc[o] = "closed" /\ ProcessOf[o] \notin registered
  /\ registered' = registered \cup {ProcessOf[o]}
  /\ Goto(o, "registered")
  /\ UNCHANGED <<flock, disk, mem, leaky, writes, crashes>>

\* Seeded fault: the answer of the advisory lock is ignored.
TryLockIgnored(o) ==
  /\ pc[o] = "registered"
  /\ flock' = o /\ Goto(o, "locked")
  /\ UNCHANGED <<registered, disk, mem, leaky, writes, crashes>>

\* The advisory lock answers at once.  The lock's file may also fail to open.
TryLock(o) ==
  /\ pc[o] = "registered"
  /\ \/ flock = None /\ flock' = o /\ Goto(o, "locked")
     \/ UNCHANGED flock /\ Goto(o, "refused")
  /\ UNCHANGED <<registered, disk, mem, leaky, writes, crashes>>

\* Seeded fault: the refused opener stays in the registry.
BackOutRegistered(o) ==
  /\ pc[o] = "refused"
  /\ Goto(o, "closed")
  /\ UNCHANGED <<registered, flock, disk, mem, leaky, writes, crashes>>

BackOut(o) ==
  /\ pc[o] = "refused"
  /\ registered' = registered \ {ProcessOf[o]}
  /\ Goto(o, "closed")
  /\ UNCHANGED <<flock, disk, mem, leaky, writes, crashes>>

Load(o) ==
  /\ pc[o] = "locked"
  /\ mem' = [mem EXCEPT ![o] = disk]
  /\ Goto(o, "open")
  /\ UNCHANGED <<registered, flock, disk, leaky, writes, crashes>>

\* A check of the page size, or anything in the guarded part (load, recovery,
\* unique constraints), raises: the lock is given back.
LoadFails(o) ==
  /\ pc[o] = "locked"
  /\ Goto(o, "releasing")
  /\ UNCHANGED <<registered, flock, disk, mem, leaky, writes, crashes>>

\* What runs between taking the lock and the guarded part raises (a schema
\* without columns, a columnar table that refuses its schema), or what is
\* raised is no Exception.
RaisesUnguarded(o) ==
  /\ pc[o] = "locked"
  /\ leaky' = leaky \cup {ProcessOf[o]}
  /\ Goto(o, "raised")
  /\ UNCHANGED <<registered, flock, disk, mem, writes, crashes>>

\* The half-built instance goes, and its handle with it; the registry stays.
Collect(o) ==
  /\ pc[o] = "raised"
  /\ flock' = None
  /\ Goto(o, "closed")
  /\ UNCHANGED <<registered, disk, mem, leaky, writes, crashes>>

-----------------------------------------------------------------------------
(* Use and closing.                                                        *)

Write(o) ==
  /\ pc[o] = "open" /\ writes < MaxWrites
  /\ mem' = [mem EXCEPT ![o] = @ \cup {writes}]
  /\ writes' = writes + 1
  /\ UNCHANGED <<registered, flock, pc, disk, leaky, crashes>>

Flush(o) ==
  /\ pc[o] = "open"
  /\ disk' = mem[o]
  /\ UNCHANGED <<registered, flock, pc, mem, leaky, writes, crashes>>

\* close(): the content first, the lock last.  What raises on the way leaves
\* the instance open, and close may be called again.
Persist(o) ==
  /\ pc[o] = "open"
  /\ disk' = mem[o]
  /\ Goto(o, "releasing")
  /\ UNCHANGED <<registered, flock, mem, leaky, writes, crashes>>

\* Seeded fault: the registry entry goes, the handle stays locked.
UnlockForgotten(o) ==
  /\ pc[o] = "releasing"
  /\ Goto(o, "unlocked")
  /\ UNCHANGED <<registered, flock, disk, mem, leaky, writes, crashes>>

\* Seeded fault: close gives the lock back before it persists the content.
UnlockEarly(o) ==
  /\ pc[o] \in {"open", "releasing"}
  /\ flock' = None
  /\ Goto(o, IF pc[o] = "open" THEN "open" ELSE "unlocked")
  /\ UNCHANGED <<registered, disk, mem, leaky, writes, crashes>>

Unlock(o) ==
  /\ pc[o] = "releasing"
  /\ flock' = None
  /\ Goto(o, "unlocked")
  /\ UNCHANGED <<registered, disk, mem, leaky, writes, crashes>>

Discard(o) ==
  /\ pc[o] = "unlocked"
  /\ registered' = registered \ {ProcessOf[o]}
  /\ Goto(o, "closed")
  /\ UNCHANGED <<flock, disk, mem, leaky, writes, crashes>>

\* The system drops the locks of a process that exits.
Crash(p) ==
  /\ crashes < MaxCrashes
  /\ registered' = registered \ {p}
  /\ flock' = (IF flock \in Of(p) THEN None ELSE flock)
  /\ pc' = [o \in Opener |-> IF o \in Of(p) THEN "closed" ELSE pc[o]]
  /\ leaky' = leaky \ {p}
  /\ crashes' = crashes + 1
  /\ UNCHANGED <<disk, mem, writes>>

\* The steps of a constructor or a close that is under way.
Step(o) ==
  \/ TryLock(o) \/ BackOut(o)
  \/ Load(o) \/ LoadFails(o) \/ RaisesUnguarded(o) \/ Collect(o)
  \/ Unlock(o) \/ Discard(o)

Next ==
  \/ \E o \in Opener : Register(o) \/ Write(o) \/ Flush(o) \/ Persist(o) \/ Step(o)
  \/ \E p \in Process : Crash(p)

\* A call never waits: it goes on until it returns or raises.  Nothing is
\* assumed of the clients: they need not open, nor close.
Fairness == \A o \in Opener : WF_vars(Step(o))

Spec == Init /\ [][Next]_vars /\ Fairness

-----------------------------------------------------------------------------
(* Properties.                                                             *)

Place == {"closed", "registered", "refused", "locked", "raised", "open", "releasing", "unlocked"}
TypeOK ==
  /\ registered \in SUBSET Process /\ leaky \in SUBSET Process
  /\ flock \in Opener \cup {None}
  /\ pc \in [Opener -> Place]
  /\ disk \in SUBSET Nat /\ mem \in [Opener -> SUBSET Nat]
  /\ writes \in Nat /\ crashes \in Nat

\* core.py:622: two writable instances never have the file open, be they in one
\* process or in two, also while one of them is still loading or persisting and
\* after constructors that raised or processes that died.
Using(o) == pc[o] \in {"locked", "open", "releasing"}
OneWriter == \A o, q \in Opener : Using(o) /\ Using(q) => o = q

\* No open works on content older than the last flush or close of any opener,
\* so that nothing which reached the file is written over.
NothingLost == [][disk \subseteq disk']_vars

\* core.py:612-614: a path is in the registry only while an opener of the
\* process uses it or is on its way in or out; otherwise the path could never
\* be opened again.  The exceptions are the constructors of RaisesUnguarded.
RegistryTrue ==
  \A p \in registered : p \in leaky \/ \E o \in Of(p) : pc[o] # "closed"

\* If nobody keeps the file open for ever, each process can use it again: its
\* entry in the registry and the advisory lock both become free, in particular
\* after opens that failed.
FreeAgain ==
  (\A o \in Opener : []<>(pc[o] # "open")) =>
     /\ []<>(flock = None)
     /\ \A p \in Process : [](p \in registered => <>(p \notin registered \/ p \in leaky))
=============================================================================

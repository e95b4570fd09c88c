------------------------------ MODULE Snapshots ------------------------------
(***************************************************************************)
(* Named snapshots (core.py snapshot, open_snapshot, drop_snapshot and the *)
(* manifest beside the database): threads of the process that has the      *)
(* database open copy it into slots, list the copies in manifest.json,     *)
(* open them as databases of their own, and drop them, while the process   *)
(* may exit at any step.                                                   *)
(*                                                                         *)
(* snapshot runs under the database's lock; open_snapshot and              *)
(* drop_snapshot take none.  Files are inodes under names: who has         *)
(* manifest.json.tmp open keeps writing to the same inode after another    *)
(* thread has renamed it to manifest.json.  A content of the live database *)
(* is a number; a slot's content is the number it was copied at with the   *)
(* count of transactions committed in the slot since.                      *)
(***************************************************************************)
EXTENDS Integers

CONSTANTS
  Thread, Name,
  None,          \* no file, no entry, nobody
  Partial,       \* a file of which a copy has written a part
  Empty, Garbled, \* contents of a manifest that do not parse
  MaxContent,    \* bound: writes to the live database
  MaxOwn,        \* bound: transactions in a slot's log
  MaxCrashes,    \* bound: abrupt exits
  Openable,      \* bound: names whose slots clients open
  OverOpen       \* whether clients snapshot over a slot they have open

Content == 0 .. MaxContent
\* The content of a database that was created anew.
Blank == -1

ASSUME BoundAssumption ==
  /\ MaxContent \in Nat /\ MaxOwn \in Nat /\ MaxCrashes \in Nat
  /\ Openable \subseteq Name /\ OverOpen \in BOOLEAN
Slot == [of : Content \cup {Blank}, own : Nat]
Manifest == [Name -> Content \cup {None}]

ASSUME MarkAssumption ==
  /\ None \notin Content \cup {Partial} /\ None \notin Thread /\ None \notin Name
  /\ None \notin {"tmp", "manifest"}
  /\ \A m \in {None, Empty, Garbled} : m \notin Manifest
  /\ None \notin {Empty, Garbled}
  /\ None \notin Slot /\ Partial \notin Slot

VARIABLES
  now,            \* the live content
  lock,           \* holder of SnapDB._lock
  call,           \* each thread's call: its kind, name, place, and manifest to write
  handle,         \* which file a thread's handle on the temporary manifest names by now
  manifest, tmp,  \* the contents of manifest.json and manifest.json.tmp
  file,           \* the slots' files
  log,            \* committed records in the slots' own logs
  opened,         \* whether a slot is open: "no", "yes", or after its file was unlinked "orphan"
  taken, owned,   \* history: content at the last snapshot of the name, transactions since
  cut,            \* history: names with a call that did not come to its end
  over,           \* history: names copied over what belongs to the slot's last content
  raced,          \* history: whether drop_snapshot ever overlapped another writer of the manifest
  crashes

files == <<manifest, tmp, file, log>>
ghost == <<taken, owned, cut, over, raced, crashes>>
vars == <<now, lock, call, handle, files, opened, ghost>>

NoEntries == [n \in Name |-> None]
Idle == [op |-> "none", name |-> None, at |-> "idle", new |-> None]
Readable == manifest \notin {Empty, Garbled}
Busy(t, ops) == call[t].op \in ops

\* Bound: when a drop_snapshot has overlapped another writer of the manifest,
\* the calls under way are followed to their ends, and nothing else.
MayStart(t) == call[t] = Idle /\ ~raced

Init ==
  /\ now = 0 /\ lock = None
  /\ call = [t \in Thread |-> Idle] /\ handle = [t \in Thread |-> None]
  /\ manifest = NoEntries /\ tmp = None
  /\ file = [n \in Name |-> None] /\ log = [n \in Name |-> 0]
  /\ opened = [n \in Name |-> "no"]
  /\ taken = NoEntries /\ owned = [n \in Name |-> 0]
  /\ cut = {} /\ over = {} /\ raced = FALSE /\ crashes = 0

-----------------------------------------------------------------------------
(* The live database.                                                      *)

Write(t) ==
  /\ MayStart(t) /\ lock = None
  /\ now < MaxContent
  /\ now' = now + 1
  /\ UNCHANGED <<lock, call, handle, files, opened, ghost>>

-----------------------------------------------------------------------------
(* A call in steps.                                                        *)

At(t, place) == call[t].at = place
Goto(t, place) == call' = [call EXCEPT ![t].at = place]

\* Seeded fault: the lock is given back only by calls that return.
EndedKeeping(t) ==
  /\ call' = [call EXCEPT ![t] = Idle]
  /\ lock' = (IF lock = t /\ At(t, "written") /\ tmp # None THEN None ELSE lock)

\* The call returns or raises.
Ended(t) ==
  /\ call' = [call EXCEPT ![t] = Idle]
  /\ lock' = (IF lock = t THEN None ELSE lock)

\* A log left in the slot, or an instance that has it open, belongs to the last
\* content and not to the one that is copied over it.
CopyOver(n) ==
  /\ over' = (IF log[n] > 0 \/ opened[n] # "no" THEN over \cup {n} ELSE over \ {n})
  /\ cut' = cut \ {n}

\* Seeded fault: snapshot takes no lock.
SnapshotUnlocked(t, n) ==
  /\ MayStart(t) /\ Readable
  /\ call' = [call EXCEPT ![t] = [op |-> "snapshot", name |-> n, at |-> "read",
                                  new |-> [manifest EXCEPT ![n] = now]]]
  /\ file' = [file EXCEPT ![n] = [of |-> now, own |-> 0]]
  /\ CopyOver(n)
  /\ UNCHANGED <<now, lock, handle, manifest, tmp, log, opened, taken, owned, raced, crashes>>

\* copy2 truncates the file it writes to.
SnapshotStart(t, n) ==
  /\ MayStart(t) /\ lock = None
  /\ OverOpen \/ opened[n] = "no"
  /\ lock' = t
  /\ call' = [call EXCEPT ![t] = [op |-> "snapshot", name |-> n, at |-> "copying", new |-> None]]
  /\ file' = [file EXCEPT ![n] = Partial]
  /\ CopyOver(n)
  /\ raced' = (raced \/ \E u \in Thread : Busy(u, {"drop"}))
  /\ UNCHANGED <<now, handle, manifest, tmp, log, opened, taken, owned, crashes>>

Copied(n) == IF file[n] = None THEN file ELSE [file EXCEPT ![n] = [of |-> now, own |-> 0]]

\* Seeded fault: the entry describes what the slot held before the copy ended.
CopyEndStale(t) ==
  LET n == call[t].name IN
  /\ At(t, "copying")
  /\ file' = Copied(n)
  /\ owned' = [owned EXCEPT ![n] = 0]
  /\ call' = [call EXCEPT ![t].at = "read", ![t].new = [manifest EXCEPT ![n] = file[n]]]
  /\ UNCHANGED <<now, lock, handle, manifest, tmp, log, opened, taken, cut, over, raced, crashes>>

\* The copy ends, and the manifest is read; one that does not parse raises.
CopyEnd(t) ==
  LET n == call[t].name IN
  /\ At(t, "copying")
  /\ file' = Copied(n)
  /\ owned' = [owned EXCEPT ![n] = 0]
  /\ IF Readable
     THEN /\ call' = [call EXCEPT ![t].at = "read", ![t].new = [manifest EXCEPT ![n] = now]]
          /\ UNCHANGED <<lock, cut>>
     ELSE Ended(t) /\ cut' = cut \cup {n}
  /\ UNCHANGED <<now, handle, manifest, tmp, log, opened, taken, over, raced, crashes>>

DropStart(t, n) ==
  /\ MayStart(t)
  /\ Readable /\ manifest[n] # None
  /\ call' = [call EXCEPT ![t] = [op |-> "drop", name |-> n, at |-> "listed",
                                  new |-> [manifest EXCEPT ![n] = None]]]
  /\ raced' = (raced \/ \E u \in Thread : Busy(u, {"snapshot", "drop"}))
  /\ UNCHANGED <<now, lock, handle, files, opened, taken, owned, cut, over, crashes>>

\* An instance that has the file open keeps the unlinked inode.
Unlink(t) ==
  LET n == call[t].name IN
  /\ At(t, "listed")
  /\ file' = [file EXCEPT ![n] = None]
  /\ opened' = [opened EXCEPT ![n] = IF @ = "yes" THEN "orphan" ELSE @]
  /\ Goto(t, "read")
  /\ UNCHANGED <<now, lock, handle, manifest, tmp, log, ghost>>

\* _write_snapshot_manifest: open the temporary file, write it, rename it.
\* Seeded fault: the manifest itself is opened for writing.
OpenManifest(t) ==
  /\ At(t, "read")
  /\ manifest' = Empty /\ tmp' = call[t].new
  /\ handle' = [handle EXCEPT ![t] = None]
  /\ Goto(t, "written")
  /\ UNCHANGED <<now, lock, file, log, opened, ghost>>

OpenTmp(t) ==
  /\ At(t, "read")
  /\ tmp' = Empty
  /\ handle' = [handle EXCEPT ![t] = "tmp"]
  /\ Goto(t, "writing")
  /\ UNCHANGED <<now, lock, manifest, file, log, opened, ghost>>

\* Two handles on one inode write at the same offset: what the longer text has
\* beyond the shorter stays.
Overwritten(old, new) == IF old = Empty THEN {new} ELSE {new, Garbled}

WriteTmp(t) ==
  /\ At(t, "writing")
  /\ IF handle[t] = "tmp" THEN tmp' \in Overwritten(tmp, call[t].new) ELSE UNCHANGED tmp
  /\ IF handle[t] = "manifest"
     THEN manifest' \in Overwritten(manifest, call[t].new)
     ELSE UNCHANGED manifest
  /\ handle' = [handle EXCEPT ![t] = None]
  /\ Goto(t, "written")
  /\ UNCHANGED <<now, lock, file, log, opened, ghost>>

Renamed(place) == CASE place = "tmp" -> "manifest" [] place = "manifest" -> None [] OTHER -> place

Replace(t) ==
  /\ At(t, "written") /\ tmp # None
  /\ manifest' = tmp /\ tmp' = None
  /\ handle' = [u \in Thread |-> Renamed(handle[u])]
  /\ taken' = [taken EXCEPT ![call[t].name] = call[t].new[call[t].name]]
  /\ Ended(t)
  /\ UNCHANGED <<now, file, log, opened, owned, cut, over, raced, crashes>>

\* Another thread has renamed the file away.
ReplaceFails(t) ==
  /\ At(t, "written") /\ tmp = None
  /\ Ended(t)
  /\ cut' = cut \cup {call[t].name}
  /\ UNCHANGED <<now, handle, files, opened, taken, owned, over, raced, crashes>>

-----------------------------------------------------------------------------
(* Slots as databases.                                                     *)

\* open_snapshot finds the entry and the file; the constructor comes later.
OpenStart(t, n) ==
  /\ MayStart(t)
  /\ n \in Openable
  /\ Readable /\ manifest[n] # None /\ file[n] # None
  /\ call' = [call EXCEPT ![t] = [op |-> "open", name |-> n, at |-> "found", new |-> None]]
  /\ UNCHANGED <<now, lock, handle, files, opened, ghost>>

\* The slot's own lock lets one instance in.  A missing file, or one cut before
\* its header ends, is created anew; one cut later mostly fails to load.
Loadable(f) ==
  CASE f = None    -> {[of |-> Blank, own |-> 0]}
    [] f = Partial -> {[of |-> Blank, own |-> 0], None}
    [] OTHER       -> {f}

Replayed(f, n) == [f EXCEPT !.own = @ + log[n]]

\* Loads the file and replays the slot's own log.
OpenLoad(t) ==
  LET n == call[t].name IN
  /\ At(t, "found")
  /\ IF opened[n] # "no"
     THEN UNCHANGED <<file, log, opened>>
     ELSE \E f \in Loadable(file[n]) :
            IF f = None
            THEN UNCHANGED <<file, log, opened>>
            ELSE /\ file' = [file EXCEPT ![n] = Replayed(f, n)]
                 /\ log' = [log EXCEPT ![n] = 0]
                 /\ opened' = [opened EXCEPT ![n] = "yes"]
  /\ over' = (IF file[n] = Partial THEN over \cup {n} ELSE over)
  /\ Ended(t)
  /\ UNCHANGED <<now, handle, manifest, tmp, taken, owned, cut, raced, crashes>>

SlotCommit(n) ==
  /\ ~raced
  /\ opened[n] # "no" /\ log[n] < MaxOwn /\ owned[n] < MaxOwn
  /\ log' = [log EXCEPT ![n] = @ + 1]
  /\ owned' = [owned EXCEPT ![n] = IF opened[n] = "yes" THEN @ + 1 ELSE @]
  /\ UNCHANGED <<now, lock, call, handle, manifest, tmp, file, opened,
                 taken, cut, over, raced, crashes>>

Persisted(n) ==
  IF opened[n] = "yes" /\ file[n] \notin {None, Partial}
  THEN [file EXCEPT ![n] = Replayed(@, n)] ELSE file

\* Seeded fault: close persists the slot and leaves its log.
SlotCloseKeepsLog(n) ==
  /\ opened[n] # "no" /\ ~raced
  /\ file' = Persisted(n)
  /\ opened' = [opened EXCEPT ![n] = "no"]
  /\ UNCHANGED <<now, lock, call, handle, manifest, tmp, log, ghost>>

SlotClose(n) ==
  /\ opened[n] # "no" /\ ~raced
  /\ file' = Persisted(n)
  /\ log' = [log EXCEPT ![n] = 0]
  /\ opened' = [opened EXCEPT ![n] = "no"]
  /\ UNCHANGED <<now, lock, call, handle, manifest, tmp, ghost>>

\* The process exits.
Crash ==
  /\ crashes < MaxCrashes /\ ~raced
  /\ crashes' = crashes + 1
  /\ lock' = None
  /\ call' = [t \in Thread |-> Idle] /\ handle' = [t \in Thread |-> None]
  /\ opened' = [n \in Name |-> "no"]
  /\ cut' = cut \cup {call[t].name : t \in {u \in Thread : Busy(u, {"snapshot", "drop"})}}
  /\ UNCHANGED <<now, files, taken, owned, over, raced>>

Step(t) ==
  \/ CopyEnd(t) \/ Unlink(t)
  \/ OpenTmp(t) \/ WriteTmp(t) \/ Replace(t) \/ ReplaceFails(t)
  \/ OpenLoad(t)

Next ==
  \/ \E t \in Thread :
       \/ Write(t) \/ Step(t)
       \/ \E n \in Name : SnapshotStart(t, n) \/ DropStart(t, n) \/ OpenStart(t, n)
  \/ \E n \in Name : SlotCommit(n) \/ SlotClose(n)
  \/ Crash

\* A call that has what it needs goes on; clients owe nothing.
Fairness == \A t \in Thread : WF_vars(Step(t))

Spec == Init /\ [][Next]_vars /\ Fairness

-----------------------------------------------------------------------------
(* Properties.                                                             *)

Call == [op : {"none", "snapshot", "drop", "open"}, name : Name \cup {None},
         at : {"idle", "copying", "listed", "read", "writing", "written", "found"},
         new : Manifest \cup {None}]
TypeOK ==
  /\ now \in Content
  /\ lock \in Thread \cup {None}
  /\ call \in [Thread -> Call] /\ handle \in [Thread -> {"tmp", "manifest", None}]
  /\ manifest \in Manifest \cup {Empty, Garbled}
  /\ tmp \in Manifest \cup {None, Empty, Garbled}
  /\ file \in [Name -> Slot \cup {None, Partial}] /\ log \in [Name -> 0..MaxOwn]
  /\ opened \in [Name -> {"no", "yes", "orphan"}]

\* core.py:1440: manifest.json parses at every step, exits included, while no
\* drop_snapshot overlaps another writer of it.
ManifestReadable == ~raced => Readable

Quiet(n) == \A t \in Thread : call[t].name = n => Busy(t, {"open"})

\* README.md:314: of concurrent snapshot calls, and drops that overlap none, no
\* entry is lost and none comes back, whatever other names' calls are under way.
EntriesKept ==
  ~raced /\ Readable => \A n \in Name \ cut : Quiet(n) => manifest[n] = taken[n]

\* What opening slot n gives: the content copied, and every transaction
\* committed in the slot since, once.
Restores(n) == /\ file[n] \notin {None, Partial}
               /\ Replayed(file[n], n) = [of |-> taken[n], own |-> owned[n]]

\* core.py:1459, README.md:314: a listed slot holds the content of the last
\* snapshot under its name, with what was committed in the slot since, but for
\* slots copied over an open instance or over a log that an exit left.
CleanSlotsRestore ==
  ~raced /\ Readable => \A n \in Name \ (cut \cup over) :
                          Quiet(n) /\ manifest[n] # None => Restores(n)

\* The same with no exception for what the slot held before: calling snapshot
\* again with the same name overwrites that slot.
SlotsRestore ==
  ~raced /\ Readable => \A n \in Name \ cut : Quiet(n) /\ manifest[n] # None => Restores(n)

\* Every call comes to its end and gives the lock back, also when it raises
\* because the manifest does not parse or was renamed away.
CallsEnd ==
  /\ \A t \in Thread : []<>(call[t] = Idle)
  /\ []<>(lock = None)
=============================================================================

-------------------------- MODULE SnapshotsProofs --------------------------
(***************************************************************************)
(* Proofs about Snapshots, for any number of threads, names, writes,       *)
(* transactions in slots, and exits.                                       *)
(***************************************************************************)
EXTENDS Snapshots, TLAPS

-----------------------------------------------------------------------------
(* The inductive invariant, first what also holds after a drop_snapshot    *)
(* has overlapped another writer of the manifest: which call is where, and *)
(* that a snapshot under way holds the lock.                               *)

Writers == {"snapshot", "drop"}
Prepared(t) == call[t].at \in {"listed", "read", "writing", "written"}

ShapeOf(t) ==
  \/ call[t] = Idle
  \/ /\ call[t].name \in Name
     /\ \/ call[t].op = "snapshot" /\ (At(t, "copying") \/ (Prepared(t) /\ ~At(t, "listed")))
        \/ call[t].op = "drop" /\ Prepared(t)
        \/ call[t].op = "open" /\ At(t, "found")
     /\ Prepared(t) => call[t].new \in Manifest
Shape == \A t \in Thread : ShapeOf(t)

Locked == \A t \in Thread : Busy(t, {"snapshot"}) => lock = t

Typed == TypeOK /\ taken \in Manifest /\ owned \in [Name -> Nat] /\ raced \in BOOLEAN

-----------------------------------------------------------------------------
(* Then what holds until such an overlap: one thread writes the manifest,  *)
(* the temporary file is its own, and what it is about to write differs    *)
(* from the manifest in its own entry alone.                               *)

Single == \A t, u \in Thread : Busy(t, Writers) /\ Busy(u, Writers) => t = u

TmpOwned ==
  \A t \in Thread :
    /\ handle[t] = IF At(t, "writing") THEN "tmp" ELSE None
    /\ At(t, "writing") => tmp = Empty
    /\ At(t, "written") => tmp = call[t].new

OwnEntry ==
  \A t \in Thread : Prepared(t) =>
    /\ \A n \in Name : n # call[t].name => call[t].new[n] = manifest[n]
    /\ Busy(t, {"drop"}) => call[t].new[call[t].name] = None

Unwritten(n) == \A t \in Thread : Busy(t, Writers) => call[t].name # n

Entries ==
  /\ manifest \in Manifest
  /\ \A n \in Name \ cut : Unwritten(n) => manifest[n] = taken[n]

-----------------------------------------------------------------------------
(* And the slots: a listed one holds what its entry says, one that is      *)
(* being replaced is nobody else's, and holds what its entry will say as   *)
(* soon as the copy has ended.                                             *)

Holds(n, x) ==
  /\ file[n] \in Slot /\ opened[n] # "orphan"
  /\ file[n].of = x /\ file[n].own + log[n] = owned[n]

SlotsKept ==
  \A n \in Name \ (cut \cup over) : Unwritten(n) /\ manifest[n] # None => Holds(n, manifest[n])

CopyOf(t, n) ==
  /\ At(t, "copying") => file[n] = Partial /\ log[n] = 0 /\ opened[n] = "no"
  /\ Prepared(t) => Holds(n, call[t].new[n])
CopyKept ==
  \A t \in Thread :
    call[t].op = "snapshot" /\ call[t].name \notin over => CopyOf(t, call[t].name)

Clean == Single /\ TmpOwned /\ OwnEntry /\ Entries /\ SlotsKept /\ CopyKept

IInv == Typed /\ Shape /\ Locked /\ (~raced => Clean)

Marked == Typed /\ Shape /\ Locked

LEMMA InitIInv == Init => IInv
<1> SUFFICES ASSUME Init PROVE IInv
  OBVIOUS
<1>1. \A t \in Thread : call[t] = Idle /\ call[t].op = "none" /\ call[t].at = "idle" /\ handle[t] = None
  BY DEF Init, Idle
<1>2. Typed
  <2>1. NoEntries \in Manifest
    BY DEF NoEntries, Manifest
  <2>2. Idle \in Call
    BY DEF Idle, Call
  <2>3. 0 \in Content /\ 0 \in 0 .. MaxOwn /\ 0 \in Nat
    BY BoundAssumption DEF Content
  <2>4. raced \in BOOLEAN
    BY DEF Init
  <2>5. TypeOK
    BY <2>1, <2>2, <2>3 DEF Init, TypeOK
  <2>6. taken \in Manifest /\ owned \in [Name -> Nat]
    BY <2>1, <2>3 DEF Init
  <2> QED BY <2>4, <2>5, <2>6 DEF Typed
<1>3. Shape /\ Locked
  BY <1>1 DEF Shape, ShapeOf, Locked, Busy
<1>4. manifest = taken /\ manifest \in Manifest /\ \A n \in Name : manifest[n] = None
  BY DEF Init, NoEntries, Manifest
<1>5. Clean
  BY <1>1, <1>4 DEF Clean, Single, Busy, Writers, TmpOwned, At, OwnEntry, Prepared, Entries,
     SlotsKept, CopyKept
<1> QED BY <1>2, <1>3, <1>5 DEF IInv

-----------------------------------------------------------------------------
(* Types, places and the lock, one lemma for each action.                  *)

\* What a thread's step leaves alone of the other calls.
OthersStay(t) == \A u \in Thread : u # t => call'[u] = call[u]

\* A call keeps its shape, and the lock its holder, when only thread t moves.
LEMMA MovedMarked ==
  ASSUME Marked, NEW t \in Thread, OthersStay(t), ShapeOf(t)', Typed',
         call'[t].op = "snapshot" => lock' = t,
         \A u \in Thread : u # t /\ lock = u => lock' = u
  PROVE  Marked'
<1>1. \A u \in Thread : u # t => (ShapeOf(u) => ShapeOf(u)')
  BY DEF OthersStay, ShapeOf, Prepared, At
<1>2. Shape'
  BY <1>1 DEF Shape, Marked
<1>3. Locked'
  BY DEF Locked, Marked, Busy, OthersStay
<1> QED BY <1>2, <1>3 DEF Marked

LEMMA EndedCall ==
  ASSUME Marked, NEW t \in Thread, Ended(t)
  PROVE  /\ call' \in [Thread -> Call] /\ lock' \in Thread \cup {None}
         /\ OthersStay(t) /\ call'[t] = Idle
         /\ \A u \in Thread : u # t /\ lock = u => lock' = u
         /\ call'[t].op = "none" /\ call'[t].at = "idle"
BY DEF Marked, Typed, TypeOK, Ended, OthersStay, Idle, Call

LEMMA WriteMarked ==
  ASSUME Marked, NEW t \in Thread, Write(t)
  PROVE  Marked'
<1>1. Typed'
  BY BoundAssumption DEF Write, Marked, Typed, TypeOK, Content, files, ghost, Manifest, Call
<1>2. Shape' /\ Locked'
  BY DEF Write, Marked, Shape, ShapeOf, Prepared, At, Locked, Busy
<1> QED BY <1>1, <1>2 DEF Marked

LEMMA SnapshotStartMarked ==
  ASSUME Marked, NEW t \in Thread, NEW n \in Name, SnapshotStart(t, n)
  PROVE  Marked'
<1> DEFINE c == [op |-> "snapshot", name |-> n, at |-> "copying", new |-> None]
<1>1. c \in Call /\ call' = [call EXCEPT ![t] = c] /\ lock = None /\ lock' = t
  BY DEF SnapshotStart, Call
<1>2. call' \in [Thread -> Call] /\ OthersStay(t) /\ call'[t] = c
  BY <1>1 DEF Marked, Typed, TypeOK, OthersStay
<1>3. Typed'
  BY <1>1, <1>2 DEF SnapshotStart, Marked, Typed, TypeOK, CopyOver
<1>4. ShapeOf(t)'
  BY <1>2 DEF ShapeOf, At, Prepared
<1> QED BY <1>1, <1>2, <1>3, <1>4, MovedMarked, MarkAssumption

LEMMA CopyEndMarked ==
  ASSUME Marked, NEW t \in Thread, CopyEnd(t)
  PROVE  Marked'
<1> DEFINE n == call[t].name
<1>1. n \in Name /\ call[t] \in Call /\ call[t].op = "snapshot" /\ lock = t
  BY DEF CopyEnd, Marked, Shape, ShapeOf, Idle, At, Prepared, Typed, TypeOK, Locked, Busy
<1>2. file' \in [Name -> Slot \cup {None, Partial}] /\ owned' \in [Name -> Nat]
  BY <1>1 DEF CopyEnd, Copied, Marked, Typed, TypeOK, Slot
<1>3. CASE Readable
  <2> DEFINE new == [manifest EXCEPT ![n] = now]
  <2>1. new \in Manifest
    BY <1>3 DEF Marked, Typed, TypeOK, Readable, Manifest
  <2>2. call' = [call EXCEPT ![t].at = "read", ![t].new = new] /\ lock' = lock
    BY <1>3 DEF CopyEnd
  <2>3. /\ call'[t].at = "read" /\ call'[t].new = new /\ call'[t].op = "snapshot"
        /\ call'[t].name = n /\ OthersStay(t)
        /\ call' \in [Thread -> Call]
    BY <1>1, <2>1, <2>2 DEF Marked, Typed, TypeOK, OthersStay, Call
  <2>4. Typed'
    BY <1>2, <2>2, <2>3 DEF CopyEnd, Marked, Typed, TypeOK
  <2>5. ShapeOf(t)'
    BY <1>1, <2>1, <2>3 DEF ShapeOf, At, Prepared
  <2> QED BY <1>1, <2>2, <2>3, <2>4, <2>5, MovedMarked
<1>4. CASE ~Readable
  <2>1. Ended(t)
    BY <1>4 DEF CopyEnd
  <2>2. Typed'
    BY <1>2, <2>1, EndedCall DEF CopyEnd, Marked, Typed, TypeOK
  <2> QED BY <2>1, <2>2, EndedCall, MovedMarked DEF ShapeOf
<1> QED BY <1>3, <1>4

LEMMA DropStartMarked ==
  ASSUME Marked, NEW t \in Thread, NEW n \in Name, DropStart(t, n)
  PROVE  Marked'
<1> DEFINE new == [manifest EXCEPT ![n] = None]
           c == [op |-> "drop", name |-> n, at |-> "listed", new |-> new]
<1>1. new \in Manifest
  BY DEF DropStart, Marked, Typed, TypeOK, Readable, Manifest
<1>2. c \in Call /\ call' = [call EXCEPT ![t] = c] /\ lock' = lock
  BY <1>1 DEF DropStart, Call
<1>3. call' \in [Thread -> Call] /\ OthersStay(t) /\ call'[t] = c
  BY <1>2 DEF Marked, Typed, TypeOK, OthersStay
<1>4. Typed'
  BY <1>2, <1>3 DEF DropStart, Marked, Typed, TypeOK, files
<1>5. ShapeOf(t)'
  BY <1>1, <1>3 DEF ShapeOf, At, Prepared
<1> QED BY <1>2, <1>3, <1>4, <1>5, MovedMarked

LEMMA OpenStartMarked ==
  ASSUME Marked, NEW t \in Thread, NEW n \in Name, OpenStart(t, n)
  PROVE  Marked'
<1> DEFINE c == [op |-> "open", name |-> n, at |-> "found", new |-> None]
<1>1. c \in Call /\ call' = [call EXCEPT ![t] = c] /\ lock' = lock
  BY DEF OpenStart, Call
<1>2. call' \in [Thread -> Call] /\ OthersStay(t) /\ call'[t] = c
  BY <1>1 DEF Marked, Typed, TypeOK, OthersStay
<1>3. Typed'
  BY <1>1, <1>2 DEF OpenStart, Marked, Typed, TypeOK, files, ghost
<1>4. ShapeOf(t)'
  BY <1>2 DEF ShapeOf, At, Prepared
<1> QED BY <1>1, <1>2, <1>3, <1>4, MovedMarked

\* A step of thread t that only takes its call to another place.
LEMMA PlacedCall ==
  ASSUME Marked, NEW t \in Thread, NEW place, Goto(t, place),
         place \in {"read", "writing", "written"}
  PROVE  /\ call' \in [Thread -> Call] /\ OthersStay(t)
         /\ call'[t].op = call[t].op /\ call'[t].name = call[t].name
         /\ call'[t].new = call[t].new /\ call'[t].at = place
BY DEF Goto, Marked, Typed, TypeOK, OthersStay, Call

\* The name of a call, and the manifest it writes.
LEMMA CallOf ==
  ASSUME Marked, NEW t \in Thread, ~At(t, "idle")
  PROVE  /\ call[t].name \in Name /\ call[t].op \in {"snapshot", "drop", "open"}
         /\ At(t, "copying") => call[t].op = "snapshot"
         /\ At(t, "listed") => call[t].op = "drop"
         /\ At(t, "found") => call[t].op = "open"
         /\ Prepared(t) => call[t].op \in Writers /\ call[t].new \in Manifest
BY DEF Marked, Shape, ShapeOf, At, Prepared, Idle, Writers

LEMMA OpenTmpMarked ==
  ASSUME Marked, NEW t \in Thread, OpenTmp(t)
  PROVE  Marked'
<1>1. Goto(t, "writing") /\ lock' = lock /\ At(t, "read")
  BY DEF OpenTmp
<1>2. /\ call' \in [Thread -> Call] /\ OthersStay(t)
      /\ call'[t].op = call[t].op /\ call'[t].name = call[t].name
      /\ call'[t].new = call[t].new /\ call'[t].at = "writing"
  BY <1>1, PlacedCall
<1>3. Typed'
  BY <1>2 DEF OpenTmp, Marked, Typed, TypeOK, ghost
<1>4. ShapeOf(t)'
  BY <1>1, <1>2, CallOf DEF ShapeOf, At, Prepared, Writers
<1> QED BY <1>1, <1>2, <1>3, <1>4, MovedMarked DEF Marked, Locked, Busy

LEMMA WriteTmpMarked ==
  ASSUME Marked, NEW t \in Thread, WriteTmp(t)
  PROVE  Marked'
<1>1. Goto(t, "written") /\ lock' = lock /\ At(t, "writing")
  BY DEF WriteTmp
<1>2. /\ call' \in [Thread -> Call] /\ OthersStay(t)
      /\ call'[t].op = call[t].op /\ call'[t].name = call[t].name
      /\ call'[t].new = call[t].new /\ call'[t].at = "written"
  BY <1>1, PlacedCall
<1>3. call[t].new \in Manifest /\ call[t].op \in Writers /\ call[t].name \in Name
  BY <1>1, CallOf DEF At, Prepared
<1>4. tmp' \in Manifest \cup {None, Empty, Garbled} /\ manifest' \in Manifest \cup {Empty, Garbled}
  BY <1>3 DEF WriteTmp, Overwritten, Marked, Typed, TypeOK
<1>5. Typed'
  BY <1>2, <1>4 DEF WriteTmp, Marked, Typed, TypeOK, ghost
<1>6. ShapeOf(t)'
  BY <1>2, <1>3 DEF ShapeOf, At, Prepared, Writers
<1> QED BY <1>1, <1>2, <1>5, <1>6, MovedMarked DEF Marked, Locked, Busy

LEMMA UnlinkMarked ==
  ASSUME Marked, NEW t \in Thread, Unlink(t)
  PROVE  Marked'
<1>1. Goto(t, "read") /\ lock' = lock /\ At(t, "listed")
  BY DEF Unlink
<1>2. /\ call' \in [Thread -> Call] /\ OthersStay(t)
      /\ call'[t].op = call[t].op /\ call'[t].name = call[t].name
      /\ call'[t].new = call[t].new /\ call'[t].at = "read"
  BY <1>1, PlacedCall
<1>3. Typed'
  BY <1>2 DEF Unlink, Marked, Typed, TypeOK, ghost
<1>4. ShapeOf(t)'
  BY <1>1, <1>2, CallOf DEF ShapeOf, At, Prepared, Writers
<1> QED BY <1>1, <1>2, <1>3, <1>4, MovedMarked DEF Marked, Locked, Busy

LEMMA ReplaceMarked ==
  ASSUME Marked, NEW t \in Thread, Replace(t)
  PROVE  Marked'
<1>1. Ended(t) /\ At(t, "written") /\ tmp # None /\ manifest' = tmp /\ tmp' = None
  BY DEF Replace
<1>2. call[t].new \in Manifest /\ call[t].name \in Name
  BY <1>1, CallOf DEF At, Prepared
<1>3. taken' \in Manifest
  BY <1>2 DEF Replace, Marked, Typed, Manifest
<1>4. handle' \in [Thread -> {"tmp", "manifest", None}]
  BY DEF Replace, Renamed, Marked, Typed, TypeOK
<1>5. Typed'
  BY <1>1, <1>3, <1>4, EndedCall DEF Replace, Marked, Typed, TypeOK
<1> QED BY <1>1, <1>5, EndedCall, MovedMarked DEF ShapeOf

LEMMA ReplaceFailsMarked ==
  ASSUME Marked, NEW t \in Thread, ReplaceFails(t)
  PROVE  Marked'
<1>1. Ended(t)
  BY DEF ReplaceFails
<1>2. Typed'
  BY <1>1, EndedCall DEF ReplaceFails, Marked, Typed, TypeOK, files
<1> QED BY <1>1, <1>2, EndedCall, MovedMarked DEF ShapeOf

\* What loading a slot makes of its file.
LEMMA ReplayedType ==
  ASSUME Marked, NEW f \in Slot, NEW n \in Name
  PROVE  /\ Replayed(f, n) \in Slot
         /\ Replayed(f, n).of = f.of /\ Replayed(f, n).own = f.own + log[n]
BY BoundAssumption DEF Replayed, Slot, Marked, Typed, TypeOK

LEMMA OpenLoadMarked ==
  ASSUME Marked, NEW t \in Thread, OpenLoad(t)
  PROVE  Marked'
<1> DEFINE n == call[t].name
<1>1. Ended(t) /\ n \in Name
  BY CallOf DEF OpenLoad, At
<1>2. /\ file' \in [Name -> Slot \cup {None, Partial}] /\ log' \in [Name -> 0..MaxOwn]
      /\ opened' \in [Name -> {"no", "yes", "orphan"}]
  <2>1. CASE opened[n] # "no"
    BY <2>1 DEF OpenLoad, Marked, Typed, TypeOK
  <2>2. CASE opened[n] = "no"
    <3>1. Loadable(file[n]) \subseteq Slot \cup {None}
      BY <1>1 DEF Loadable, Slot, Marked, Typed, TypeOK
    <3>2. PICK f \in Loadable(file[n]) :
            IF f = None THEN UNCHANGED <<file, log, opened>>
            ELSE /\ file' = [file EXCEPT ![n] = Replayed(f, n)]
                 /\ log' = [log EXCEPT ![n] = 0]
                 /\ opened' = [opened EXCEPT ![n] = "yes"]
      BY <2>2 DEF OpenLoad
    <3>3. CASE f = None
      BY <3>2, <3>3 DEF Marked, Typed, TypeOK
    <3>4. CASE f # None
      <4>1. Replayed(f, n) \in Slot
        BY <1>1, <3>1, <3>4, ReplayedType
      <4> QED BY <1>1, <3>2, <3>4, <4>1, BoundAssumption DEF Marked, Typed, TypeOK
    <3> QED BY <3>3, <3>4
  <2> QED BY <2>1, <2>2
<1>3. Typed'
  BY <1>1, <1>2, EndedCall DEF OpenLoad, Marked, Typed, TypeOK
<1> QED BY <1>1, <1>3, EndedCall, MovedMarked DEF ShapeOf

\* A slot's own transactions, and its close, concern no call.
LEMMA SlotMarked ==
  ASSUME Marked, NEW n \in Name, SlotCommit(n) \/ SlotClose(n)
  PROVE  Marked'
<1>1. UNCHANGED <<call, lock>>
  BY DEF SlotCommit, SlotClose
<1>2. CASE SlotCommit(n)
  <2>1. log' \in [Name -> 0..MaxOwn] /\ owned' \in [Name -> Nat]
    BY <1>2, BoundAssumption DEF SlotCommit, Marked, Typed, TypeOK
  <2> QED BY <1>1, <1>2, <2>1 DEF SlotCommit, Marked, Typed, TypeOK, Shape, ShapeOf, Prepared, At,
              Locked, Busy
<1>3. CASE SlotClose(n)
  <2>1. Persisted(n) \in [Name -> Slot \cup {None, Partial}]
    <3>1. CASE file[n] \in Slot
      BY <3>1, ReplayedType DEF Persisted, Marked, Typed, TypeOK
    <3> QED BY <3>1 DEF Persisted, Marked, Typed, TypeOK
  <2>2. log' \in [Name -> 0..MaxOwn] /\ opened' \in [Name -> {"no", "yes", "orphan"}]
    BY <1>3, BoundAssumption DEF SlotClose, Marked, Typed, TypeOK
  <2> QED BY <1>1, <1>3, <2>1, <2>2 DEF SlotClose, Marked, Typed, TypeOK, ghost, Shape, ShapeOf,
              Prepared, At, Locked, Busy
<1> QED BY <1>2, <1>3

LEMMA CrashMarked ==
  ASSUME Marked, Crash
  PROVE  Marked'
<1>1. \A t \in Thread : call'[t] = Idle /\ call'[t].op = "none"
  BY DEF Crash, Idle
<1>2. Idle \in Call
  BY DEF Idle, Call
<1>3. Typed'
  BY <1>2 DEF Crash, Marked, Typed, TypeOK, files
<1>4. Shape' /\ Locked'
  BY <1>1 DEF Shape, ShapeOf, Locked, Busy
<1> QED BY <1>3, <1>4 DEF Marked

-----------------------------------------------------------------------------
(* What holds until a drop overlaps another writer, action by action.      *)

Good == Marked /\ ~raced /\ Clean

\* Who has a manifest to write, or a copy to end, is a writer.
LEMMA WriterOf ==
  ASSUME Marked, NEW t \in Thread, Prepared(t) \/ At(t, "copying")
  PROVE  Busy(t, Writers)
BY DEF Marked, Shape, ShapeOf, Prepared, At, Busy, Writers, Idle

\* Beside a writer nobody else writes.
LEMMA Alone ==
  ASSUME Good, NEW t \in Thread, Busy(t, Writers), NEW u \in Thread, u # t
  PROVE  /\ ~Busy(u, Writers) /\ ~Prepared(u) /\ ~At(u, "copying")
         /\ handle[u] = None
BY WriterOf DEF Good, Clean, Single, TmpOwned, Prepared, At

\* A step of one thread that is no writer, before or after, and that leaves
\* the manifest alone.
LEMMA ReaderStep ==
  ASSUME Good, Marked', NEW t \in Thread, OthersStay(t),
         ~Busy(t, Writers), ~Busy(t, Writers)', UNCHANGED <<handle, tmp, manifest>>
  PROVE  /\ Single' /\ TmpOwned' /\ OwnEntry'
         /\ \A n : Unwritten(n)' <=> Unwritten(n)
<1>1. \A u \in Thread : u # t =>
        /\ Busy(u, Writers)' <=> Busy(u, Writers)
        /\ Prepared(u)' <=> Prepared(u)
        /\ \A a \in {"writing", "written", "copying"} : At(u, a)' <=> At(u, a)
  BY DEF OthersStay, Busy, Prepared, At
<1>2. ~Prepared(t) /\ ~At(t, "copying") /\ ~At(t, "writing") /\ ~At(t, "written")
  BY WriterOf DEF Good, Prepared, At
<1>3. ~Prepared(t)' /\ ~At(t, "copying")' /\ ~At(t, "writing")' /\ ~At(t, "written")'
  BY WriterOf DEF Prepared, At, Marked, Shape, ShapeOf, Busy, Writers, Idle
<1>4. Single'
  BY <1>1 DEF Good, Clean, Single
<1>5. TmpOwned'
  BY <1>1, <1>2, <1>3 DEF Good, Clean, TmpOwned, OthersStay
<1>6. OwnEntry'
  BY <1>1, <1>2, <1>3 DEF Good, Clean, OwnEntry, OthersStay, Busy
<1>7. \A n : Unwritten(n)' <=> Unwritten(n)
  BY <1>1 DEF Unwritten, OthersStay
<1> QED BY <1>4, <1>5, <1>6, <1>7

LEMMA WriteClean ==
  ASSUME Good, NEW t \in Thread, Write(t)
  PROVE  Clean'
BY DEF Write, files, ghost, Good, Clean, Single, TmpOwned, OwnEntry, Entries, SlotsKept, CopyKept,
   CopyOf, Unwritten, Holds, Busy, At, Prepared

LEMMA OpenStartClean ==
  ASSUME Good, Marked', NEW t \in Thread, NEW n \in Name, OpenStart(t, n)
  PROVE  Clean'
<1>1. OthersStay(t) /\ call'[t].op = "open" /\ call[t] = Idle
  BY DEF OpenStart, MayStart, OthersStay, Good, Marked, Typed, TypeOK
<1>2. ~Busy(t, Writers) /\ ~Busy(t, Writers)'
  BY <1>1 DEF Busy, Writers, Idle
<1>3. UNCHANGED <<handle, tmp, manifest, file, log, opened, taken, owned, cut, over>>
  BY DEF OpenStart, files, ghost
<1>4. Single' /\ TmpOwned' /\ OwnEntry' /\ \A m : Unwritten(m)' <=> Unwritten(m)
  BY <1>1, <1>2, <1>3, ReaderStep
<1>5. Entries' /\ SlotsKept'
  BY <1>3, <1>4 DEF Good, Clean, Entries, SlotsKept, Holds
<1>6. CopyKept'
  BY <1>1, <1>3 DEF Good, Clean, CopyKept, CopyOf, Holds, OthersStay, At, Prepared
<1> QED BY <1>4, <1>5, <1>6 DEF Clean

\* Opening a slot moves its log's transactions into its file.
LEMMA LoadHolds ==
  ASSUME Marked, NEW t \in Thread, OpenLoad(t), NEW n \in Name, NEW x, Holds(n, x)
  PROVE  Holds(n, x)'
<1> DEFINE m == call[t].name
<1>1. m \in Name /\ owned' = owned
  BY CallOf DEF OpenLoad, At
<1>2. CASE opened[m] # "no"
  BY <1>1, <1>2 DEF OpenLoad, Holds
<1>3. CASE opened[m] = "no"
  <2>1. PICK f \in Loadable(file[m]) :
          IF f = None THEN UNCHANGED <<file, log, opened>>
          ELSE /\ file' = [file EXCEPT ![m] = Replayed(f, m)]
               /\ log' = [log EXCEPT ![m] = 0]
               /\ opened' = [opened EXCEPT ![m] = "yes"]
    BY <1>3 DEF OpenLoad
  <2>2. CASE f = None
    BY <1>1, <2>1, <2>2 DEF Holds
  <2>3. CASE f # None /\ n # m
    BY <1>1, <2>1, <2>3 DEF Holds, Marked, Typed, TypeOK
  <2>4. CASE f # None /\ n = m
    <3>1. f = file[n]
      BY <2>1, <2>4, MarkAssumption DEF Loadable, Holds
    <3>2. /\ file'[n] \in Slot /\ file'[n].of = f.of /\ file'[n].own = f.own + log[n]
          /\ log'[n] = 0 /\ opened'[n] = "yes"
      BY <2>1, <2>4, <3>1, ReplayedType DEF Holds, Marked, Typed, TypeOK
    <3> QED BY <1>1, <3>1, <3>2 DEF Holds, Slot, Marked, Typed, TypeOK
  <2> QED BY <2>2, <2>3, <2>4
<1> QED BY <1>2, <1>3

LEMMA OpenLoadClean ==
  ASSUME Good, Marked', NEW t \in Thread, OpenLoad(t)
  PROVE  Clean'
<1> DEFINE m == call[t].name
<1>1. call[t].op = "open" /\ m \in Name /\ Ended(t)
  BY CallOf DEF OpenLoad, At, Good
<1>2. OthersStay(t) /\ call'[t].op = "none"
  BY <1>1, EndedCall DEF Good
<1>3. ~Busy(t, Writers) /\ ~Busy(t, Writers)'
  BY <1>1, <1>2 DEF Busy, Writers
<1>4. UNCHANGED <<handle, tmp, manifest, taken, owned, cut>> /\ over \subseteq over'
  BY DEF OpenLoad
<1>5. Single' /\ TmpOwned' /\ OwnEntry' /\ \A n : Unwritten(n)' <=> Unwritten(n)
  BY <1>2, <1>3, <1>4, ReaderStep
<1>6. Entries'
  BY <1>4, <1>5 DEF Good, Clean, Entries
<1>7. SlotsKept'
  BY <1>4, <1>5, LoadHolds DEF Good, Clean, SlotsKept
<1>8. CopyKept'
  <2> SUFFICES ASSUME NEW u \in Thread, call'[u].op = "snapshot", call'[u].name \notin over'
               PROVE  CopyOf(u, call[u].name)'
    BY DEF CopyKept
  <2> DEFINE n == call[u].name
  <2>1. u # t /\ call'[u] = call[u] /\ n \notin over /\ call[u].op = "snapshot"
    BY <1>2, <1>4 DEF OthersStay
  <2>2. n \in Name
    BY <2>1 DEF Good, Marked, Shape, ShapeOf, Idle
  <2>3. ASSUME At(u, "copying")
        PROVE  file'[n] = Partial /\ log'[n] = 0 /\ opened'[n] = "no"
    <3>1. file[n] = Partial /\ log[n] = 0 /\ opened[n] = "no"
      BY <2>1, <2>3 DEF Good, Clean, CopyKept, CopyOf
    <3>2. n # m
      BY <2>1, <3>1 DEF OpenLoad
    <3> QED BY <2>2, <3>1, <3>2 DEF OpenLoad, Good, Marked, Typed, TypeOK
  <2>4. ASSUME Prepared(u)
        PROVE  Holds(n, call[u].new[n])'
    <3>1. Holds(n, call[u].new[n])
      BY <2>1, <2>4 DEF Good, Clean, CopyKept, CopyOf
    <3> QED BY <2>1, <2>2, <3>1, LoadHolds DEF Good
  <2> QED BY <2>1, <2>3, <2>4 DEF CopyOf, Holds, At, Prepared
<1> QED BY <1>5, <1>6, <1>7, <1>8 DEF Clean

\* A transaction in a slot is one more for what it should hold and for its log;
\* close moves the log's into the file.
LEMMA SlotHolds ==
  ASSUME Marked, NEW m \in Name, SlotCommit(m) \/ SlotClose(m),
         NEW n \in Name, NEW x, Holds(n, x)
  PROVE  Holds(n, x)'
<1>1. CASE SlotCommit(m)
  BY <1>1, BoundAssumption DEF SlotCommit, Holds, Slot, Marked, Typed, TypeOK
<1>2. CASE SlotClose(m) /\ n # m
  BY <1>2 DEF SlotClose, Persisted, Holds, ghost, Marked, Typed, TypeOK
<1>3. CASE SlotClose(m) /\ n = m
  <2>1. opened[m] = "yes" /\ file[m] \in Slot /\ file[m] \notin {None, Partial}
    BY <1>3, MarkAssumption DEF SlotClose, Holds, Marked, Typed, TypeOK
  <2>2. /\ file'[m] = Replayed(file[m], m) /\ log'[m] = 0 /\ opened'[m] = "no" /\ owned' = owned
    BY <1>3, <2>1 DEF SlotClose, Persisted, ghost, Marked, Typed, TypeOK
  <2>3. file'[m] \in Slot /\ file'[m].of = file[m].of /\ file'[m].own = file[m].own + log[m]
    BY <2>1, <2>2, ReplayedType
  <2> QED BY <1>3, <2>2, <2>3 DEF Holds, Slot
<1> QED BY <1>1, <1>2, <1>3

LEMMA SlotClean ==
  ASSUME Good, NEW m \in Name, SlotCommit(m) \/ SlotClose(m)
  PROVE  Clean'
<1>1. UNCHANGED <<call, handle, manifest, tmp, taken, cut, over>> /\ opened[m] # "no"
  BY DEF SlotCommit, SlotClose, ghost
<1>2. Single' /\ TmpOwned' /\ OwnEntry' /\ Entries'
  BY <1>1 DEF Good, Clean, Single, TmpOwned, OwnEntry, Entries, Unwritten, Busy, At, Prepared
<1>3. SlotsKept'
  BY <1>1, SlotHolds DEF Good, Clean, SlotsKept, Unwritten, Busy
<1>4. CopyKept'
  <2> SUFFICES ASSUME NEW u \in Thread, call[u].op = "snapshot", call[u].name \notin over
               PROVE  CopyOf(u, call[u].name)'
    BY <1>1 DEF CopyKept
  <2> DEFINE n == call[u].name
  <2>1. n \in Name /\ CopyOf(u, n)
    BY DEF Good, Clean, CopyKept, Marked, Shape, ShapeOf, Idle
  <2>2. ASSUME At(u, "copying")
        PROVE  file'[n] = Partial /\ log'[n] = 0 /\ opened'[n] = "no"
    <3>1. file[n] = Partial /\ log[n] = 0 /\ opened[n] = "no" /\ n # m
      BY <1>1, <2>1, <2>2 DEF CopyOf
    <3> QED BY <2>1, <3>1 DEF SlotCommit, SlotClose, Persisted, Good, Marked, Typed, TypeOK
  <2>3. ASSUME Prepared(u)
        PROVE  Holds(n, call[u].new[n])'
    BY <1>1, <2>1, <2>3, SlotHolds DEF CopyOf, Good
  <2> QED BY <1>1, <2>2, <2>3 DEF CopyOf, Holds, At, Prepared
<1> QED BY <1>2, <1>3, <1>4 DEF Clean

\* An exit ends every call; what had a writer is cut.
LEMMA CrashClean ==
  ASSUME Good, Crash
  PROVE  Clean'
<1>1. /\ \A t \in Thread : call'[t] = Idle /\ handle'[t] = None
      /\ UNCHANGED <<manifest, tmp, file, log, taken, owned, over>>
      /\ \A n \in Name : opened'[n] = "no"
  BY DEF Crash, files
<1>2. \A t \in Thread : ~Busy(t, Writers)' /\ ~Prepared(t)' /\ call'[t].at = "idle"
                        /\ call'[t].op = "none"
  BY <1>1 DEF Busy, Writers, Prepared, Idle
<1>3. \A n \in Name \ cut' : n \notin cut /\ Unwritten(n)
  BY DEF Crash, Unwritten, Busy, Writers
<1>4. Single' /\ TmpOwned' /\ OwnEntry' /\ CopyKept'
  BY <1>1, <1>2 DEF Single, TmpOwned, OwnEntry, CopyKept, At
<1>5. Entries'
  BY <1>1, <1>3 DEF Good, Clean, Entries
<1>6. SlotsKept'
  BY <1>1, <1>3 DEF Good, Clean, SlotsKept, Holds
<1> QED BY <1>4, <1>5, <1>6 DEF Clean

-----------------------------------------------------------------------------
(* The writers of the manifest.                                            *)

\* A step of one thread after which it writes and nobody else does.
LEMMA WriterStep ==
  ASSUME Good, Marked', NEW t \in Thread, OthersStay(t), Busy(t, Writers)',
         \A u \in Thread : u # t => ~Busy(u, Writers),
         \A u \in Thread : u # t => handle'[u] = None
  PROVE  /\ \A u \in Thread : u # t => ~Busy(u, Writers)' /\ ~Prepared(u)' /\ call'[u].op # "snapshot"
                              /\ ~At(u, "writing")' /\ ~At(u, "written")' /\ handle'[u] = None
         /\ Single'
         /\ \A n : Unwritten(n)' <=> n # call'[t].name
<1>1. \A u \in Thread : u # t => ~Busy(u, Writers)'
  BY DEF OthersStay, Busy
<1>2. \A u \in Thread : u # t => ~Prepared(u)'
  BY <1>1, WriterOf DEF OthersStay, Busy, Prepared, Good
<1>3. \A u \in Thread : u # t => call'[u].op # "snapshot" /\ ~At(u, "writing")' /\ ~At(u, "written")'
  BY <1>1, <1>2 DEF Busy, Writers, Prepared, At
<1>4. Single' /\ \A n : Unwritten(n)' <=> n # call'[t].name
  BY <1>1 DEF Single, Unwritten
<1> QED BY <1>1, <1>2, <1>3, <1>4

LEMMA SnapshotStartClean ==
  ASSUME Good, Marked', ~raced', NEW t \in Thread, NEW n \in Name, SnapshotStart(t, n)
  PROVE  Clean'
<1>1. /\ lock = None /\ OthersStay(t) /\ call[t] = Idle
      /\ call'[t] = [op |-> "snapshot", name |-> n, at |-> "copying", new |-> None]
  BY DEF SnapshotStart, MayStart, OthersStay, Good, Marked, Typed, TypeOK
<1>2. \A u \in Thread : ~Busy(u, Writers)
  BY <1>1, MarkAssumption DEF SnapshotStart, Good, Marked, Locked, Busy, Writers
<1>3. \A u \in Thread : handle[u] = None
  BY <1>2, WriterOf DEF Good, Clean, TmpOwned, At, Prepared
<1>4. Busy(t, Writers)' /\ ~Prepared(t)' /\ UNCHANGED <<handle, tmp, manifest, log, opened, taken, owned>>
  BY <1>1 DEF SnapshotStart, Busy, Writers, Prepared
<1>5. /\ \A u \in Thread : u # t => ~Busy(u, Writers)' /\ ~Prepared(u)' /\ call'[u].op # "snapshot"
                           /\ ~At(u, "writing")' /\ ~At(u, "written")' /\ handle'[u] = None
      /\ Single'
      /\ \A m : Unwritten(m)' <=> m # n
  BY <1>1, <1>2, <1>3, <1>4, WriterStep
<1>6. \A m : Unwritten(m)
  BY <1>2 DEF Unwritten
<1>7. TmpOwned' /\ OwnEntry'
  BY <1>1, <1>3, <1>4, <1>5 DEF TmpOwned, OwnEntry, At
<1>8. \A m \in Name : m # n => (m \in cut' <=> m \in cut) /\ (m \in over' <=> m \in over)
  BY DEF SnapshotStart, CopyOver
<1>9. Entries'
  BY <1>4, <1>5, <1>6, <1>8 DEF Good, Clean, Entries
<1>10. SlotsKept'
  BY <1>4, <1>5, <1>6, <1>8 DEF SnapshotStart, Good, Clean, SlotsKept, Holds, Marked, Typed, TypeOK
<1>11. n \notin over' => file'[n] = Partial /\ log'[n] = 0 /\ opened'[n] = "no"
  BY <1>4 DEF SnapshotStart, CopyOver, Good, Marked, Typed, TypeOK
<1>12. CopyKept'
  BY <1>1, <1>4, <1>5, <1>11 DEF CopyKept, CopyOf
<1> QED BY <1>5, <1>7, <1>9, <1>10, <1>12 DEF Clean

\* The manifest is read under the lock, and nobody is about to replace it.
LEMMA CopyEndClean ==
  ASSUME Good, Marked', NEW t \in Thread, CopyEnd(t)
  PROVE  Clean'
<1> DEFINE n == call[t].name
           new == [manifest EXCEPT ![n] = now]
<1>1. /\ At(t, "copying") /\ n \in Name /\ call[t].op = "snapshot" /\ Busy(t, Writers)
      /\ ~At(t, "writing") /\ ~At(t, "written")
  BY CallOf, WriterOf DEF CopyEnd, At, Good
<1>2. manifest \in Manifest /\ Readable
  BY MarkAssumption DEF Good, Clean, Entries, Readable
<1>3. /\ call' = [call EXCEPT ![t].at = "read", ![t].new = new]
      /\ file' = Copied(n) /\ owned' = [owned EXCEPT ![n] = 0]
      /\ UNCHANGED <<now, handle, manifest, tmp, log, opened, taken, over, cut>>
  BY <1>2 DEF CopyEnd
<1>4. /\ OthersStay(t) /\ call'[t].at = "read" /\ call'[t].new = new
      /\ call'[t].op = "snapshot" /\ call'[t].name = n
  BY <1>1, <1>3 DEF OthersStay, Good, Marked, Typed, TypeOK, Call
<1>5. Busy(t, Writers)'
  BY <1>4 DEF Busy, Writers
<1>6. /\ \A u \in Thread : u # t => ~Busy(u, Writers)' /\ ~Prepared(u)' /\ call'[u].op # "snapshot"
                           /\ ~At(u, "writing")' /\ ~At(u, "written")' /\ handle'[u] = None
      /\ Single'
      /\ \A m : Unwritten(m)' <=> m # n
  BY <1>1, <1>3, <1>4, <1>5, Alone, WriterStep
<1>7. \A m : m # n => Unwritten(m)
  BY <1>1, Alone DEF Unwritten
<1>8. TmpOwned'
  BY <1>1, <1>3, <1>4, <1>6 DEF TmpOwned, At, Good, Clean
<1>9. new \in Manifest /\ new[n] = now /\ \A m \in Name : m # n => new[m] = manifest[m]
  BY <1>1, <1>2 DEF Manifest, Good, Marked, Typed, TypeOK
<1>10. OwnEntry'
  <2>1. \A m \in Name : m # call'[t].name => call'[t].new[m] = manifest'[m]
    BY <1>3, <1>4, <1>9
  <2>2. ~Busy(t, {"drop"})'
    BY <1>4 DEF Busy
  <2> QED BY <1>6, <2>1, <2>2 DEF OwnEntry
<1>11. Entries'
  BY <1>3, <1>6, <1>7 DEF Good, Clean, Entries
<1>12. \A m \in Name : m # n => file'[m] = file[m] /\ owned'[m] = owned[m]
  BY <1>3 DEF Copied, Good, Marked, Typed, TypeOK
<1>13. SlotsKept'
  BY <1>3, <1>6, <1>7, <1>12 DEF Good, Clean, SlotsKept, Holds
<1>14. ASSUME n \notin over
       PROVE  Holds(n, now)'
  <2>1. file[n] = Partial /\ log[n] = 0 /\ opened[n] = "no"
    BY <1>1, <1>14 DEF Good, Clean, CopyKept, CopyOf
  <2>2. file'[n] = [of |-> now, own |-> 0] /\ owned'[n] = 0
    BY <1>1, <1>3, <2>1, MarkAssumption DEF Copied, Good, Marked, Typed, TypeOK
  <2>3. file'[n] \in Slot
    BY <2>2 DEF Slot, Good, Marked, Typed, TypeOK
  <2> QED BY <1>3, <1>4, <2>1, <2>2, <2>3 DEF Holds
<1>15. CopyKept'
  <2> SUFFICES ASSUME NEW u \in Thread, call'[u].op = "snapshot", call'[u].name \notin over'
               PROVE  CopyOf(u, call[u].name)'
    BY DEF CopyKept
  <2>1. u = t
    BY <1>6
  <2>2. u = t /\ n \notin over
    BY <1>3, <1>4, <2>1
  <2>3. ~At(t, "copying")' /\ call'[t].new[call'[t].name] = now'
    BY <1>3, <1>4, <1>9 DEF At
  <2>4. Holds(n, now)'
    BY <1>14, <2>2
  <2> QED BY <2>2, <2>3, <2>4 DEF CopyOf, Holds
<1> QED BY <1>6, <1>8, <1>10, <1>11, <1>13, <1>15 DEF Clean

LEMMA DropStartClean ==
  ASSUME Good, Marked', ~raced', NEW t \in Thread, NEW n \in Name, DropStart(t, n)
  PROVE  Clean'
<1> DEFINE new == [manifest EXCEPT ![n] = None]
<1>1. /\ OthersStay(t) /\ call[t] = Idle
      /\ call'[t] = [op |-> "drop", name |-> n, at |-> "listed", new |-> new]
  BY DEF DropStart, MayStart, OthersStay, Good, Marked, Typed, TypeOK
<1>2. \A u \in Thread : ~Busy(u, Writers)
  BY DEF DropStart, Busy, Writers
<1>3. \A u \in Thread : handle[u] = None
  BY <1>2, WriterOf DEF Good, Clean, TmpOwned, At, Prepared
<1>4. Busy(t, Writers)' /\ UNCHANGED <<handle, files, opened, taken, owned, cut, over>>
  BY <1>1 DEF DropStart, Busy, Writers
<1>5. /\ \A u \in Thread : u # t => ~Busy(u, Writers)' /\ ~Prepared(u)' /\ call'[u].op # "snapshot"
                           /\ ~At(u, "writing")' /\ ~At(u, "written")' /\ handle'[u] = None
      /\ Single'
      /\ \A m : Unwritten(m)' <=> m # n
  BY <1>1, <1>2, <1>3, <1>4, WriterStep
<1>6. \A m : Unwritten(m)
  BY <1>2 DEF Unwritten
<1>7. manifest \in Manifest /\ new[n] = None /\ \A m \in Name : m # n => new[m] = manifest[m]
  BY DEF Good, Clean, Entries, Manifest
<1>8. TmpOwned' /\ OwnEntry'
  <2>1. TmpOwned'
    BY <1>1, <1>3, <1>4, <1>5 DEF TmpOwned, At
  <2>2. /\ \A m \in Name : m # call'[t].name => call'[t].new[m] = manifest'[m]
        /\ call'[t].new[call'[t].name] = None
    BY <1>1, <1>4, <1>7 DEF files
  <2> QED BY <1>5, <2>1, <2>2 DEF OwnEntry
<1>9. Entries' /\ SlotsKept'
  BY <1>4, <1>6 DEF Good, Clean, Entries, SlotsKept, Holds, files
<1>10. CopyKept'
  BY <1>1, <1>5 DEF CopyKept
<1> QED BY <1>5, <1>8, <1>9, <1>10 DEF Clean

\* Going on with what was read: the other entries stay as they are.
LEMMA UnlinkClean ==
  ASSUME Good, Marked', NEW t \in Thread, Unlink(t)
  PROVE  Clean'
<1> DEFINE n == call[t].name
<1>1. /\ Goto(t, "read") /\ At(t, "listed") /\ n \in Name /\ call[t].op = "drop" /\ Busy(t, Writers)
      /\ Prepared(t)
      /\ UNCHANGED <<handle, manifest, tmp, log, taken, owned, cut, over>>
  BY CallOf, WriterOf DEF Unlink, At, Prepared, Good, ghost
<1>2. /\ OthersStay(t) /\ call'[t].op = "drop" /\ call'[t].name = n
      /\ call'[t].new = call[t].new /\ call'[t].at = "read"
  BY <1>1, PlacedCall DEF Good
<1>3. Busy(t, Writers)'
  BY <1>2 DEF Busy, Writers
<1>4. /\ \A u \in Thread : u # t => ~Busy(u, Writers)' /\ ~Prepared(u)' /\ call'[u].op # "snapshot"
                           /\ ~At(u, "writing")' /\ ~At(u, "written")' /\ handle'[u] = None
      /\ Single'
      /\ \A m : Unwritten(m)' <=> m # n
  BY <1>1, <1>2, <1>3, Alone, WriterStep
<1>5. \A m : m # n => Unwritten(m)
  BY <1>1, Alone DEF Unwritten
<1>6. handle[t] = None
  BY <1>1 DEF Good, Clean, TmpOwned, At
<1>7. TmpOwned' /\ OwnEntry'
  BY <1>1, <1>2, <1>4, <1>6 DEF TmpOwned, OwnEntry, At, Busy, Good, Clean
<1>8. Entries'
  BY <1>1, <1>4, <1>5 DEF Good, Clean, Entries
<1>9. \A m \in Name : m # n => file'[m] = file[m] /\ opened'[m] = opened[m]
  BY DEF Unlink, Good, Marked, Typed, TypeOK
<1>10. SlotsKept'
  BY <1>1, <1>4, <1>5, <1>9 DEF Good, Clean, SlotsKept, Holds
<1>11. CopyKept'
  BY <1>2, <1>4 DEF CopyKept
<1> QED BY <1>4, <1>7, <1>8, <1>10, <1>11 DEF Clean

\* The temporary file is opened and written by one thread, which meets no text
\* of another.
LEMMA TmpClean ==
  ASSUME Good, Marked', NEW t \in Thread, OpenTmp(t) \/ WriteTmp(t)
  PROVE  Clean'
<1> DEFINE n == call[t].name
           place == IF OpenTmp(t) THEN "writing" ELSE "written"
<1>1. /\ Goto(t, place) /\ Prepared(t) /\ ~At(t, "copying") /\ n \in Name /\ Busy(t, Writers)
      /\ UNCHANGED <<file, log, opened, taken, owned, cut, over>>
  BY CallOf, WriterOf DEF OpenTmp, WriteTmp, At, Prepared, Good, ghost
<1>2. /\ OthersStay(t) /\ call'[t].op = call[t].op /\ call'[t].name = n
      /\ call'[t].new = call[t].new /\ call'[t].at = place
  BY <1>1, PlacedCall DEF Good
<1>3. /\ manifest' = manifest
      /\ handle'[t] = IF place = "writing" THEN "tmp" ELSE None
      /\ \A u \in Thread : u # t => handle'[u] = handle[u]
      /\ tmp' = IF place = "writing" THEN Empty ELSE call[t].new
  <2>1. CASE OpenTmp(t)
    BY <2>1 DEF OpenTmp, Good, Marked, Typed, TypeOK
  <2>2. CASE ~OpenTmp(t)
    <3>1. WriteTmp(t) /\ handle[t] = "tmp" /\ tmp = Empty
      BY <2>2 DEF WriteTmp, Good, Clean, TmpOwned
    <3> QED BY <2>2, <3>1 DEF WriteTmp, Overwritten, Good, Marked, Typed, TypeOK
  <2> QED BY <2>1, <2>2
<1>4. Busy(t, Writers)'
  BY <1>1, <1>2 DEF Busy
<1>5. /\ \A u \in Thread : u # t => ~Busy(u, Writers)' /\ ~Prepared(u)' /\ call'[u].op # "snapshot"
                           /\ ~At(u, "writing")' /\ ~At(u, "written")' /\ handle'[u] = None
      /\ Single'
      /\ \A m : Unwritten(m)' <=> m # n
  BY <1>1, <1>2, <1>3, <1>4, Alone, WriterStep
<1>6. \A m : m # n => Unwritten(m)
  BY <1>1, Alone DEF Unwritten
<1>7. TmpOwned'
  BY <1>2, <1>3, <1>5 DEF TmpOwned, At
<1>8. OwnEntry'
  BY <1>1, <1>2, <1>3, <1>5 DEF OwnEntry, Busy, Good, Clean
<1>9. Entries' /\ SlotsKept'
  BY <1>1, <1>3, <1>5, <1>6 DEF Good, Clean, Entries, SlotsKept, Holds
<1>10. CopyKept'
  BY <1>1, <1>2, <1>5 DEF Good, Clean, CopyKept, CopyOf, Holds, At
<1> QED BY <1>5, <1>7, <1>8, <1>9, <1>10 DEF Clean

\* The rename puts the own entry in place and leaves the others.
LEMMA ReplaceClean ==
  ASSUME Good, Marked', NEW t \in Thread, Replace(t)
  PROVE  Clean'
<1> DEFINE n == call[t].name
           new == call[t].new
<1>1. /\ At(t, "written") /\ Prepared(t) /\ Ended(t) /\ n \in Name /\ new \in Manifest
      /\ Busy(t, Writers) /\ call[t].op \in Writers
  BY CallOf, WriterOf DEF Replace, At, Prepared, Good
<1>2. /\ manifest' = new /\ taken' = [taken EXCEPT ![n] = new[n]]
      /\ handle' = [u \in Thread |-> Renamed(handle[u])]
      /\ UNCHANGED <<file, log, opened, owned, cut, over>>
  BY <1>1 DEF Replace, Good, Clean, TmpOwned
<1>3. OthersStay(t) /\ call'[t] = Idle /\ call'[t].op = "none" /\ call'[t].at = "idle"
  BY <1>1, EndedCall DEF Good
<1>4. \A u \in Thread : ~Busy(u, Writers)' /\ ~Prepared(u)' /\ call'[u].op # "snapshot"
                        /\ ~At(u, "writing")' /\ ~At(u, "written")'
  <2>1. \A u \in Thread : ~Busy(u, Writers)'
    BY <1>1, <1>3, Alone DEF OthersStay, Busy, Writers
  <2>2. \A u \in Thread : ~Prepared(u)'
    BY <1>1, <1>3, Alone DEF OthersStay, Prepared
  <2> QED BY <2>1, <2>2 DEF Busy, Writers, Prepared, At
<1>5. \A u \in Thread : handle'[u] = None
  <2>1. \A u \in Thread : handle[u] = None
    BY <1>1, Alone DEF Good, Clean, TmpOwned, At
  <2> QED BY <1>2, <2>1, MarkAssumption DEF Renamed
<1>6. \A m \in Name : m # n => new[m] = manifest[m] /\ Unwritten(m) /\ taken'[m] = taken[m]
  BY <1>1, <1>2, Alone DEF Good, Clean, OwnEntry, Unwritten, Marked, Typed, Manifest
<1>7. taken'[n] = new[n]
  BY <1>1, <1>2 DEF Good, Marked, Typed, Manifest
<1>8. Single' /\ TmpOwned' /\ OwnEntry' /\ CopyKept'
  BY <1>4, <1>5 DEF Single, TmpOwned, OwnEntry, CopyKept
<1>9. Entries'
  BY <1>1, <1>2, <1>6, <1>7 DEF Good, Clean, Entries
<1>10. ASSUME n \notin over, new[n] # None
       PROVE  Holds(n, new[n])
  <2>1. call[t].op = "snapshot"
    BY <1>1, <1>10 DEF Good, Clean, OwnEntry, Busy, Writers
  <2> QED BY <1>1, <1>10, <2>1 DEF Good, Clean, CopyKept, CopyOf
<1>11. SlotsKept'
  BY <1>2, <1>6, <1>10 DEF Good, Clean, SlotsKept, Holds
<1> QED BY <1>8, <1>9, <1>11 DEF Clean

\* Nobody else has renamed the temporary file away.
LEMMA ReplaceGoesWell ==
  ASSUME Good, NEW t \in Thread, ReplaceFails(t)
  PROVE  FALSE
<1>1. tmp = call[t].new /\ tmp = None
  BY DEF ReplaceFails, Good, Clean, TmpOwned
<1>2. call[t].new \in Manifest
  BY CallOf DEF ReplaceFails, At, Prepared, Good
<1> QED BY <1>1, <1>2, MarkAssumption

-----------------------------------------------------------------------------
(* The theorems.                                                           *)

LEMMA NextMarked == ASSUME Marked, [Next]_vars PROVE Marked'
<1>1. CASE \E t \in Thread : Write(t) \/ Step(t)
  BY <1>1, WriteMarked, CopyEndMarked, UnlinkMarked, OpenTmpMarked, WriteTmpMarked, ReplaceMarked,
     ReplaceFailsMarked, OpenLoadMarked DEF Step
<1>2. CASE \E t \in Thread, n \in Name : SnapshotStart(t, n) \/ DropStart(t, n) \/ OpenStart(t, n)
  BY <1>2, SnapshotStartMarked, DropStartMarked, OpenStartMarked
<1>3. CASE (\E n \in Name : SlotCommit(n) \/ SlotClose(n)) \/ Crash
  BY <1>3, SlotMarked, CrashMarked
<1>4. CASE UNCHANGED vars
  BY <1>4 DEF vars, files, ghost, Marked, Typed, TypeOK, Shape, ShapeOf, Prepared, At, Locked, Busy
<1> QED BY <1>1, <1>2, <1>3, <1>4 DEF Next

LEMMA NextClean == ASSUME Good, Marked', ~raced', [Next]_vars PROVE Clean'
<1>1. CASE \E t \in Thread : Write(t) \/ Step(t)
  BY <1>1, WriteClean, CopyEndClean, UnlinkClean, TmpClean, ReplaceClean, ReplaceGoesWell,
     OpenLoadClean DEF Step
<1>2. CASE \E t \in Thread, n \in Name : SnapshotStart(t, n) \/ DropStart(t, n) \/ OpenStart(t, n)
  BY <1>2, SnapshotStartClean, DropStartClean, OpenStartClean
<1>3. CASE (\E n \in Name : SlotCommit(n) \/ SlotClose(n)) \/ Crash
  BY <1>3, SlotClean, CrashClean
<1>4. CASE UNCHANGED vars
  BY <1>4 DEF vars, files, ghost, Good, Clean, Single, TmpOwned, OwnEntry, Entries, SlotsKept,
     CopyKept, CopyOf, Unwritten, Holds, Busy, At, Prepared
<1> QED BY <1>1, <1>2, <1>3, <1>4 DEF Next

\* An overlap is never forgotten.
LEMMA RacedStays == ASSUME raced, raced \in BOOLEAN, [Next]_vars PROVE raced'
BY DEF Next, Step, Write, SnapshotStart, CopyEnd, DropStart, Unlink, OpenTmp, WriteTmp, Replace,
   ReplaceFails, OpenStart, OpenLoad, SlotCommit, SlotClose, Crash, vars, ghost

\* The invariant of the manifest and the slots, for any number of threads that
\* call what they like, with exits at any step.
THEOREM SnapshotsInvariant == Spec => []IInv
<1>1. Init => IInv
  BY InitIInv
<1>2. ASSUME IInv, [Next]_vars PROVE IInv'
  <2>1. Marked /\ Marked'
    BY <1>2, NextMarked DEF IInv, Marked
  <2>2. ~raced' => ~raced
    BY <1>2, <2>1, RacedStays DEF Marked, Typed
  <2>3. ~raced' => Clean'
    BY <1>2, <2>1, <2>2, NextClean DEF IInv, Good
  <2> QED BY <2>1, <2>3 DEF IInv, Marked
<1> QED BY <1>1, <1>2, PTL DEF Spec

\* Every variable keeps its type, also after drops that overlapped.
THEOREM TypeCorrect == Spec => []TypeOK
<1>1. IInv => TypeOK
  BY DEF IInv, Typed
<1> QED BY <1>1, SnapshotsInvariant, PTL

\* core.py:1440: the manifest parses at every step.
THEOREM ReadableCorrect == Spec => []ManifestReadable
<1>1. IInv => ManifestReadable
  BY MarkAssumption DEF IInv, Clean, Entries, ManifestReadable, Readable
<1> QED BY <1>1, SnapshotsInvariant, PTL

\* A name that no writer is at is quiet.
LEMMA QuietName == ASSUME Marked, NEW n \in Name, Quiet(n) PROVE Unwritten(n)
BY DEF Quiet, Unwritten, Busy, Writers

\* README.md:314: no call loses an entry that another call wrote.
THEOREM EntriesCorrect == Spec => []EntriesKept
<1>1. IInv => EntriesKept
  BY QuietName DEF IInv, Marked, Clean, Entries, EntriesKept
<1> QED BY <1>1, SnapshotsInvariant, PTL

\* core.py:1459: a listed slot holds the content of the last snapshot of its
\* name, with the transactions committed in the slot since, once.
THEOREM SlotsCorrect == Spec => []CleanSlotsRestore
<1>1. ASSUME IInv PROVE CleanSlotsRestore
  <2> SUFFICES ASSUME ~raced, NEW n \in Name \ (cut \cup over), Quiet(n), manifest[n] # None
               PROVE  Restores(n)
    BY DEF CleanSlotsRestore
  <2>1. Marked /\ Clean /\ Unwritten(n)
    BY <1>1, QuietName DEF IInv, Marked
  <2>2. Holds(n, manifest[n]) /\ manifest[n] = taken[n]
    BY <2>1 DEF Clean, SlotsKept, Entries
  <2>3. file[n] \notin {None, Partial}
    BY <2>2, MarkAssumption DEF Holds
  <2>4. /\ file[n].of = taken[n] /\ file[n].own + log[n] = owned[n]
        /\ file[n] = [of |-> file[n].of, own |-> file[n].own]
    BY <2>2 DEF Holds, Slot
  <2> QED BY <2>3, <2>4 DEF Restores, Replayed
<1> QED BY <1>1, SnapshotsInvariant, PTL
=============================================================================

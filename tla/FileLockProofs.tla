--------------------------- MODULE FileLockProofs ---------------------------
(***************************************************************************)
(* Proofs about FileLock, for any number of processes and openers.         *)
(***************************************************************************)
EXTENDS FileLock, TLAPS

-----------------------------------------------------------------------------
(* The inductive invariant.  OneWriter is not inductive: that no second    *)
(* opener gets the lock follows from who holds it, the half-built instance *)
(* of a constructor that raised included.                                  *)

Holding(o) == Using(o) \/ pc[o] = "raised"
HoldersLock == \A o \in Opener : Holding(o) => flock = o

\* An opener that works on the file knows all that is in it.
Fresh == \A o \in Opener : pc[o] = "open" => disk \subseteq mem[o]

RaisedIsLeaky == \A o \in Opener : pc[o] = "raised" => ProcessOf[o] \in leaky

IInv == TypeOK /\ HoldersLock /\ Fresh /\ RaisedIsLeaky /\ RegistryTrue

\* Every path into an action of an opener, and the rest.
Handler(o) ==
  \/ Register(o) \/ TryLock(o) \/ BackOut(o) \/ Load(o) \/ LoadFails(o)
  \/ RaisesUnguarded(o) \/ Collect(o) \/ Write(o) \/ Flush(o) \/ Persist(o)
  \/ Unlock(o) \/ Discard(o)

\* The next-state relation is the handlers and the exits.
LEMMA NextCases == Next <=> (\E o \in Opener : Handler(o)) \/ (\E p \in Process : Crash(p))
BY DEF Next, Step, Handler

LEMMA InitIInv == Init => IInv
BY OpenerAssumption DEF Init, IInv, TypeOK, Place, HoldersLock, Holding, Using, Fresh,
   RaisedIsLeaky, RegistryTrue

\* What a handler of one opener leaves alone.
LEMMA OthersStay ==
  ASSUME TypeOK, NEW o \in Opener, Handler(o), NEW q \in Opener, q # o
  PROVE  pc'[q] = pc[q] /\ mem'[q] = mem[q]
BY DEF TypeOK, Handler, Goto, Register, TryLock, BackOut, Load, LoadFails, RaisesUnguarded,
   Collect, Write, Flush, Persist, Unlock, Discard

-----------------------------------------------------------------------------
(* Types.                                                                  *)

LEMMA HandlerTypes ==
  ASSUME TypeOK, NEW o \in Opener, Handler(o)
  PROVE  TypeOK'
<1> USE OpenerAssumption DEF TypeOK, Goto, Place
<1>1. CASE Register(o)
  BY <1>1 DEF Register
<1>2. CASE TryLock(o)
  BY <1>2 DEF TryLock
<1>3. CASE BackOut(o) \/ Discard(o)
  BY <1>3 DEF BackOut, Discard
<1>4. CASE Load(o)
  BY <1>4 DEF Load
<1>5. CASE LoadFails(o)
  BY <1>5 DEF LoadFails
<1>6. CASE RaisesUnguarded(o)
  BY <1>6 DEF RaisesUnguarded
<1>7. CASE Collect(o) \/ Unlock(o)
  BY <1>7 DEF Collect, Unlock
<1>8. CASE Write(o)
  <2>1. mem' \in [Opener -> SUBSET Nat]
    BY <1>8 DEF Write
  <2> QED BY <1>8, <2>1 DEF Write
<1>9. CASE Flush(o) \/ Persist(o)
  BY <1>9 DEF Flush, Persist
<1> QED BY <1>1, <1>2, <1>3, <1>4, <1>5, <1>6, <1>7, <1>8, <1>9 DEF Handler

LEMMA CrashTypes ==
  ASSUME TypeOK, NEW p \in Process, Crash(p)
  PROVE  TypeOK'
BY DEF TypeOK, Crash, Place, Of

-----------------------------------------------------------------------------
(* Who holds the lock.                                                     *)

LEMMA HandlerHolders ==
  ASSUME TypeOK, HoldersLock, NEW o \in Opener, Handler(o)
  PROVE  HoldersLock'
<1> SUFFICES ASSUME NEW q \in Opener, Holding(q)'
             PROVE  flock' = q
  BY DEF HoldersLock
<1> USE OpenerAssumption DEF TypeOK, Goto, Holding, Using
<1>1. CASE Holding(q) /\ flock' = flock
  BY <1>1 DEF HoldersLock
<1>2. CASE TryLock(o)
  <2>1. CASE flock = None
    BY <1>2, <2>1, OthersStay DEF TryLock, HoldersLock
  <2>2. CASE UNCHANGED flock /\ Goto(o, "refused")
    BY <1>1, <1>2, <2>2, OthersStay
  <2> QED BY <1>2, <2>1, <2>2 DEF TryLock
<1>3. CASE Collect(o) \/ Unlock(o)
  <2>1. flock = o /\ pc'[o] \in {"closed", "unlocked"}
    BY <1>3 DEF Collect, Unlock, HoldersLock
  <2>2. q # o /\ Holding(q)
    BY <2>1, OthersStay
  <2> QED BY <2>1, <2>2 DEF HoldersLock
<1>4. CASE ~TryLock(o) /\ ~Collect(o) /\ ~Unlock(o)
  <2>1. flock' = flock
    BY <1>4 DEF Handler, Register, BackOut, Load, LoadFails, RaisesUnguarded, Write, Flush,
       Persist, Discard
  <2>2. q = o => Holding(q)
    BY <1>4 DEF Handler, Register, BackOut, Load, LoadFails, RaisesUnguarded, Write, Flush,
       Persist, Discard
  <2>3. q # o => Holding(q)
    BY OthersStay
  <2> QED BY <1>1, <2>1, <2>2, <2>3
<1> QED BY <1>2, <1>3, <1>4

LEMMA CrashHolders ==
  ASSUME TypeOK, HoldersLock, NEW p \in Process, Crash(p)
  PROVE  HoldersLock'
BY DEF TypeOK, HoldersLock, Holding, Using, Crash, Of

-----------------------------------------------------------------------------
(* What the file holds.                                                    *)

\* Only the opener whose step it is may be working on the file when the file
\* changes.
LEMMA HandlerFresh ==
  ASSUME TypeOK, HoldersLock, Fresh, NEW o \in Opener, Handler(o)
  PROVE  Fresh' /\ disk \subseteq disk'
<1> USE DEF TypeOK, Goto
<1>1. CASE Flush(o) \/ Persist(o)
  <2>1. pc[o] = "open" /\ disk' = mem[o] /\ mem' = mem
    BY <1>1 DEF Flush, Persist
  <2>2. disk \subseteq disk'
    BY <2>1 DEF Fresh
  <2>3. ASSUME NEW q \in Opener, q # o PROVE pc'[q] # "open"
    BY <2>1, <2>3, OthersStay DEF HoldersLock, Holding, Using
  <2> QED BY <2>1, <2>2, <2>3 DEF Fresh
<1>2. CASE Load(o)
  BY <1>2, OthersStay DEF Load, Fresh
<1>3. CASE Write(o)
  BY <1>3, OthersStay DEF Write, Fresh
<1>4. CASE ~Flush(o) /\ ~Persist(o) /\ ~Load(o) /\ ~Write(o)
  <2>1. UNCHANGED <<disk, mem>> /\ pc'[o] # "open"
    BY <1>4 DEF Handler, Register, TryLock, BackOut, LoadFails, RaisesUnguarded, Collect,
       Unlock, Discard
  <2> QED BY <2>1, OthersStay DEF Fresh
<1> QED BY <1>1, <1>2, <1>3, <1>4

LEMMA CrashFresh ==
  ASSUME TypeOK, Fresh, NEW p \in Process, Crash(p)
  PROVE  Fresh' /\ disk \subseteq disk'
BY DEF TypeOK, Fresh, Crash, Of

-----------------------------------------------------------------------------
(* The registry.                                                           *)

LEMMA HandlerRaised ==
  ASSUME TypeOK, RaisedIsLeaky, NEW o \in Opener, Handler(o)
  PROVE  RaisedIsLeaky' /\ leaky \subseteq leaky'
<1> USE DEF TypeOK, Goto
<1>1. CASE RaisesUnguarded(o)
  BY <1>1, OthersStay DEF RaisesUnguarded, RaisedIsLeaky
<1>2. CASE ~RaisesUnguarded(o)
  <2>1. UNCHANGED leaky /\ (pc'[o] = "raised" => pc[o] = "raised")
    BY <1>2 DEF Handler, Register, TryLock, BackOut, Load, LoadFails, Collect, Write, Flush,
       Persist, Unlock, Discard
  <2> QED BY <2>1, OthersStay DEF RaisedIsLeaky
<1> QED BY <1>1, <1>2

LEMMA CrashRaised ==
  ASSUME TypeOK, RaisedIsLeaky, NEW p \in Process, Crash(p)
  PROVE  RaisedIsLeaky'
BY OpenerAssumption DEF TypeOK, RaisedIsLeaky, Crash, Of

\* The opener that takes its step accounts for its process, or the entry goes,
\* or its constructor raised.
LEMMA HandlerRegistry ==
  ASSUME TypeOK, RaisedIsLeaky, RegistryTrue, NEW o \in Opener, Handler(o)
  PROVE  RegistryTrue'
<1> USE OpenerAssumption DEF TypeOK, Goto
<1> SUFFICES ASSUME NEW p \in registered', p \notin leaky'
             PROVE  \E q \in Of(p) : pc'[q] # "closed"
  BY DEF RegistryTrue
<1>1. leaky \subseteq leaky'
  BY HandlerRaised
<1>2. CASE Register(o) /\ p = ProcessOf[o]
  BY <1>2 DEF Register, Of
<1>3. CASE (BackOut(o) \/ Discard(o)) /\ p = ProcessOf[o]
  BY <1>3 DEF BackOut, Discard
<1>4. CASE Collect(o) /\ p = ProcessOf[o]
  BY <1>1, <1>4 DEF Collect, RaisedIsLeaky
<1>5. CASE p = ProcessOf[o] /\ ~Register(o) /\ ~BackOut(o) /\ ~Discard(o) /\ ~Collect(o)
  <2>1. pc'[o] # "closed"
    BY <1>5 DEF Handler, TryLock, Load, LoadFails, RaisesUnguarded, Write, Flush, Persist, Unlock
  <2> QED BY <1>5, <2>1 DEF Of
<1>6. CASE p # ProcessOf[o]
  <2>1. p \in registered
    BY <1>6 DEF Handler, Register, TryLock, BackOut, Load, LoadFails, RaisesUnguarded, Collect,
       Write, Flush, Persist, Unlock, Discard
  <2>2. PICK q \in Of(p) : pc[q] # "closed"
    BY <1>1, <2>1 DEF RegistryTrue
  <2>3. q \in Opener /\ q # o
    BY <1>6 DEF Of
  <2> QED BY <2>2, <2>3, OthersStay
<1> QED BY <1>2, <1>3, <1>4, <1>5, <1>6

LEMMA CrashRegistry ==
  ASSUME TypeOK, RegistryTrue, NEW p \in Process, Crash(p)
  PROVE  RegistryTrue'
<1> USE OpenerAssumption DEF TypeOK
<1> SUFFICES ASSUME NEW r \in registered', r \notin leaky'
             PROVE  \E q \in Of(r) : pc'[q] # "closed"
  BY DEF RegistryTrue
<1>1. r # p /\ r \in registered /\ r \notin leaky
  BY DEF Crash
<1>2. PICK q \in Of(r) : pc[q] # "closed"
  BY <1>1 DEF RegistryTrue
<1>3. pc'[q] = pc[q]
  BY <1>1, <1>2 DEF Crash, Of
<1> QED BY <1>2, <1>3

-----------------------------------------------------------------------------
(* The theorems.                                                           *)

LEMMA NextIInv == IInv /\ [Next]_vars => IInv' /\ disk \subseteq disk'
<1> SUFFICES ASSUME IInv, [Next]_vars
             PROVE  IInv' /\ disk \subseteq disk'
  OBVIOUS
<1>1. CASE \E o \in Opener : Handler(o)
  BY <1>1, HandlerTypes, HandlerHolders, HandlerFresh, HandlerRaised, HandlerRegistry DEF IInv
<1>2. CASE \E p \in Process : Crash(p)
  BY <1>2, CrashTypes, CrashHolders, CrashFresh, CrashRaised, CrashRegistry DEF IInv
<1>3. CASE UNCHANGED vars
  BY <1>3 DEF vars, IInv, TypeOK, Place, HoldersLock, Holding, Using, Fresh, RaisedIsLeaky,
     RegistryTrue, Of
<1> QED BY <1>1, <1>2, <1>3, NextCases

\* The invariant of the lock's protocol, whatever fails and whoever exits.
THEOREM LockInvariant == Spec => []IInv
<1>1. Init => IInv
  BY InitIInv
<1>2. IInv /\ [Next]_vars => IInv'
  BY NextIInv
<1> QED BY <1>1, <1>2, PTL DEF Spec

\* Every variable keeps its type.
THEOREM TypeCorrect == Spec => []TypeOK
<1>1. IInv => TypeOK
  BY DEF IInv
<1> QED BY <1>1, LockInvariant, PTL

\* core.py:622: no two instances work on the file at the same time.
THEOREM OneWriterCorrect == Spec => []OneWriter
<1>1. IInv => OneWriter
  BY DEF IInv, HoldersLock, Holding, OneWriter
<1> QED BY <1>1, LockInvariant, PTL

\* core.py:612-614: no process keeps an entry that nobody uses, but for the
\* constructors that raised outside the guarded part.
THEOREM RegistryCorrect == Spec => []RegistryTrue
<1>1. IInv => RegistryTrue
  BY DEF IInv
<1> QED BY <1>1, LockInvariant, PTL

\* What reached the file is never written over by an instance that did not
\* know of it.
THEOREM NothingLostCorrect == Spec => NothingLost
<1>1. IInv /\ [Next]_vars => [disk \subseteq disk']_vars
  BY NextIInv
<1> QED BY <1>1, LockInvariant, PTL DEF Spec, NothingLost
=============================================================================

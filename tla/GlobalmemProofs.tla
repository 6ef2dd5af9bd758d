---------------------------- MODULE GlobalmemProofs ----------------------------
(***************************************************************************)
(* For any memory, any width of integers, any arguments and any number of  *)
(* processes: the memory is there while the file is open, and what is      *)
(* copied lies in it.                                                      *)
(***************************************************************************)
EXTENDS Globalmem, TLAPS

\* How far loading has come says what the module holds.
Held ==
  /\ stage \in Stage
  /\ stage \in {"gone", "register"} => ~region /\ ~mem /\ ~cdev
  /\ stage = "allocate" => region /\ ~mem /\ ~cdev
  /\ stage = "setup" => region /\ mem /\ ~cdev
  /\ stage = "loaded" => region /\ mem
  /\ stage = "delete" => region /\ mem
  /\ stage = "free" => region /\ mem /\ ~cdev
  /\ stage = "unregister" => ~mem /\ ~cdev

\* A process in the file, or on its way there, holds the module; and one on its way
\* there is alone.
Inside(p) == pc[p] \notin {"closed", "opening"}

Referred ==
  /\ pc \in [Process -> Label]
  /\ \A p \in Process : Inside(p) => stage = "loaded" /\ private
  /\ \A p \in Process : pc[p] = "opening" =>
       stage = "loaded" /\ \A q \in Process \ {p} : pc[q] = "closed"

HeldInv == Held /\ Referred

-----------------------------------------------------------------------------
(* Loading and unloading.                                                   *)

LEMMA HeldInit == Init => HeldInv
  BY DEF Init, HeldInv, Held, Referred, Inside, Stage, Label

LEMMA LoadStep == HeldInv /\ (Load \/ Unload) => HeldInv'
<1> SUFFICES ASSUME HeldInv, Load \/ Unload PROVE HeldInv'
  OBVIOUS
<1> USE DEF HeldInv, Held, Referred, Inside, Stage, Label, Module, file, call
<1>1. CASE Insmod
  BY <1>1 DEF Insmod
<1>2. CASE Register
  BY <1>2 DEF Register
<1>3. CASE Allocate
  BY <1>3 DEF Allocate
<1>4. CASE Setup
  BY <1>4 DEF Setup
<1>5. CASE Rmmod
  BY <1>5 DEF Rmmod, At
<1>6. CASE Delete
  BY <1>6 DEF Delete
<1>7. CASE Free
  BY <1>7 DEF Free
<1>8. CASE Unregister
  BY <1>8 DEF Unregister
<1>q. QED
  BY <1>1, <1>2, <1>3, <1>4, <1>5, <1>6, <1>7, <1>8 DEF Load, Unload

\* Calls of processes: only opening and closing change who is inside.
LEMMA CallStep == ASSUME NEW p \in Process PROVE HeldInv /\ FileCall(p) => HeldInv'
<1> SUFFICES ASSUME HeldInv, FileCall(p) PROVE HeldInv'
  OBVIOUS
<1> USE DEF HeldInv, Held, Referred, Inside, Stage, Label, module, file, call, Goto, At
<1>1. CASE Lookup(p)
  BY <1>1 DEF Lookup
<1>2. CASE Open(p)
  BY <1>2 DEF Open
<1>3. CASE Share(p)
  BY <1>3 DEF Share
<1>4. CASE Close(p)
  BY <1>4 DEF Close
<1>5. CASE Begin(p)
  BY <1>5 DEF Begin
<1>6. CASE BeginAt(p)
  BY <1>6 DEF BeginAt
<1>7. CASE Transfer(p)
  BY <1>7 DEF Transfer, Leave
<1>8. CASE Oops(p)
  BY <1>8 DEF Oops, Leave
<1>9. CASE WriteBack(p)
  BY <1>9 DEF WriteBack, Leave
<1>10. CASE SeekSet(p)
  BY <1>10 DEF SeekSet
<1>11. CASE SeekTest(p)
  BY <1>11 DEF SeekTest
<1>12. CASE SeekAdd(p)
  BY <1>12 DEF SeekAdd, Leave
<1>q. QED
  BY <1>1, <1>2, <1>3, <1>4, <1>5, <1>6, <1>7, <1>8, <1>9, <1>10, <1>11, <1>12
  DEF FileCall

LEMMA HeldInvHolds == Spec => []HeldInv
<1>1. HeldInv /\ [Next]_vars => HeldInv'
  <2>1. HeldInv /\ UNCHANGED vars => HeldInv'
    BY DEF vars, HeldInv, Held, Referred, Inside
  <2>q. QED
    BY <2>1, LoadStep, CallStep DEF Next
<1>q. QED
  BY <1>1, HeldInit, PTL DEF Spec

\* However loading, unloading and calls meet, and whatever step of loading fails: who
\* has the file open has the module and its memory, and a module that is gone leaves
\* nothing behind.
THEOREM MemoryStays == Spec => []MemoryPresent
<1>1. HeldInv => MemoryPresent
  BY DEF HeldInv, Held, Referred, Inside, MemoryPresent
<1>q. QED
  BY <1>1, HeldInvHolds, PTL

-----------------------------------------------------------------------------
(* The position.                                                            *)

Place == 0..GLOBALMEM_SIZE

Numbers ==
  /\ f_pos \in Int /\ raced \in BOOLEAN
  /\ ppos \in [Process -> Int] /\ arg \in [Process -> Int]
  /\ \A p \in Process : pc[p] \in {"read", "pread"} => arg[p] >= 0

\* Without a race the position, every copy of it and every tested sum is a place in the
\* memory or its end.
Placed ==
  ~raced =>
    /\ f_pos \in Place
    /\ \A p \in Process : /\ pc[p] \in {"read", "done"} => ppos[p] \in Place
                          /\ pc[p] = "add" => f_pos + arg[p] \in Place

PlaceInv == Referred /\ Numbers /\ Placed

\* What is copied lies in the memory, whatever the position it starts at.
LEMMA CopyInside ==
  ASSUME NEW p \in Process, Numbers
  PROVE  /\ Offset(p) \in Int /\ Count(p) \in Int
         /\ Count(p) > 0 => Offset(p) + Count(p) <= GLOBALMEM_SIZE
         /\ pc[p] = "read" => Count(p) >= 0
  BY SizeAssumption DEF Numbers, Offset, Count

\* It does not move a place out of the memory.
LEMMA CopyFromPlace ==
  ASSUME NEW p \in Process, Numbers, pc[p] = "read", ppos[p] \in Place
  PROVE  ppos[p] + Count(p) \in Place
<1>1. ppos[p] % ULong = ppos[p]
  BY SizeAssumption DEF Place
<1>q. QED
  BY <1>1, SizeAssumption DEF Numbers, Place, Offset, Count

\* A change of the position keeps it in the memory, and marks it if it takes the ground
\* from a tested sum.
LEMMA PositionStep ==
  ASSUME NEW p \in Process, NEW pos \in Int, PlaceInv, Position(p, pos),
         ~raced => pos \in Place
  PROVE  /\ f_pos' \in Int /\ raced' \in BOOLEAN
         /\ ~raced' => f_pos' \in Place /\ ~raced
         /\ ~raced' => \A q \in Process \ {p} : pc[q] = "add" => f_pos' = f_pos
<1>1. f_pos' \in Int
  BY SizeAssumption DEF Position, PlaceInv, Numbers
<1>2. raced' \in BOOLEAN
  BY Zenon DEF Position
<1>3. ~raced' => ~raced /\ \A q \in Process \ {p} : pc[q] = "add" => f_pos' = f_pos
  BY DEF Position, At
<1>4. pos \in Place => f_pos' \in Place
  BY SizeAssumption DEF Position, Place
<1>q. QED
  BY <1>1, <1>2, <1>3, <1>4

LEMMA PlaceInit == Init => PlaceInv
<1> SUFFICES ASSUME Init PROVE PlaceInv
  OBVIOUS
<1>1. raced \in BOOLEAN
  BY Zenon DEF Init
<1>2. Referred
  BY HeldInit DEF HeldInv
<1>3. f_pos = 0 /\ 0 \in Int /\ 0 \in Place
  BY SizeAssumption DEF Init, Place
<1>4. pc = [p \in Process |-> "closed"] /\ ppos = [p \in Process |-> 0]
      /\ arg = [p \in Process |-> 0]
  BY DEF Init
<1>q. QED
  BY <1>1, <1>2, <1>3, <1>4 DEF PlaceInv, Numbers, Placed

LEMMA PlaceStep == ASSUME NEW p \in Process PROVE PlaceInv /\ FileCall(p) => Numbers' /\ Placed'
<1> SUFFICES ASSUME PlaceInv, FileCall(p) PROVE Numbers' /\ Placed'
  OBVIOUS
<1> USE SizeAssumption
    DEF PlaceInv, Referred, Inside, Numbers, Placed, Label, module, file, call, Goto, At, Leave
<1>1. CASE Lookup(p)
  BY <1>1 DEF Lookup
<1>2. CASE Open(p)
  <2>1. raced' \in BOOLEAN
    BY <1>2, Zenon DEF Open
  <2>2. f_pos' = 0 /\ 0 \in Int /\ 0 \in Place
    BY <1>2 DEF Open, Place
  <2>3. \A q \in Process : pc'[q] \in {"idle", "closed"}
    BY <1>2 DEF Open
  <2>q. QED
    BY <1>2, <2>1, <2>2, <2>3 DEF Open
<1>3. CASE Share(p)
  BY <1>3 DEF Share
<1>4. CASE Close(p)
  BY <1>4 DEF Close
<1>5. CASE Begin(p)
  BY <1>5 DEF Begin
<1>6. CASE BeginAt(p)
  BY <1>6 DEF BeginAt
<1>7. CASE Transfer(p)
  <2>1. CASE pc[p] = "read"
    <3>1. PICK count \in {0, Count(p)} : ppos' = [ppos EXCEPT ![p] = @ + count]
      BY <1>7, <2>1 DEF Transfer
    <3>2. count \in Int /\ (~raced => ppos[p] + count \in Place)
      BY <2>1, CopyInside, CopyFromPlace
    <3>q. QED
      BY <1>7, <2>1, <3>1, <3>2 DEF Transfer
  <2>2. CASE pc[p] = "pread"
    BY <1>7, <2>2 DEF Transfer
  <2>q. QED
    BY <1>7, <2>1, <2>2 DEF Transfer
<1>8. CASE Oops(p)
  BY <1>8 DEF Oops
<1>9. CASE WriteBack(p)
  <2>1. ppos[p] \in Int /\ (~raced => ppos[p] \in Place)
    BY <1>9 DEF WriteBack
  <2>2. Position(p, ppos[p])
    BY <1>9 DEF WriteBack
  <2>3. /\ f_pos' \in Int /\ raced' \in BOOLEAN
        /\ ~raced' => f_pos' \in Place /\ ~raced
        /\ ~raced' => \A q \in Process \ {p} : pc[q] = "add" => f_pos' = f_pos
    BY <2>1, <2>2, PositionStep
  <2>q. QED
    BY <1>9, <2>3 DEF WriteBack
<1>10. CASE SeekSet(p)
  <2>1. PICK offset \in Offsets :
          offset % UInt <= GLOBALMEM_SIZE /\ Position(p, offset % UInt)
    BY <1>10 DEF SeekSet
  <2>2. offset % UInt \in Int /\ offset % UInt \in Place
    BY <2>1 DEF Place
  <2>3. /\ f_pos' \in Int /\ raced' \in BOOLEAN
        /\ ~raced' => f_pos' \in Place /\ ~raced
        /\ ~raced' => \A q \in Process \ {p} : pc[q] = "add" => f_pos' = f_pos
    BY <2>1, <2>2, PositionStep
  <2>q. QED
    BY <1>10, <2>3 DEF SeekSet
<1>11. CASE SeekTest(p)
  BY <1>11 DEF SeekTest, Place
<1>12. CASE SeekAdd(p)
  <2>1. f_pos + arg[p] \in Int /\ (~raced => f_pos + arg[p] \in Place)
    BY <1>12 DEF SeekAdd
  <2>2. Position(p, f_pos + arg[p])
    BY <1>12 DEF SeekAdd
  <2>3. /\ f_pos' \in Int /\ raced' \in BOOLEAN
        /\ ~raced' => f_pos' \in Place /\ ~raced
        /\ ~raced' => \A q \in Process \ {p} : pc[q] = "add" => f_pos' = f_pos
    BY <2>1, <2>2, PositionStep
  <2>q. QED
    BY <1>12, <2>3 DEF SeekAdd
<1>q. QED
  BY <1>1, <1>2, <1>3, <1>4, <1>5, <1>6, <1>7, <1>8, <1>9, <1>10, <1>11, <1>12
  DEF FileCall

LEMMA PlaceInvHolds == Spec => []PlaceInv
<1>1. PlaceInv /\ HeldInv' /\ [Next]_vars => PlaceInv'
  <2>1. Referred' => (PlaceInv /\ UNCHANGED vars => PlaceInv')
    BY DEF vars, PlaceInv, Numbers, Placed
  <2>2. Referred' => (PlaceInv /\ (Load \/ Unload) => PlaceInv')
    BY DEF PlaceInv, Numbers, Placed, Load, Unload, Insmod, Register, Allocate, Setup, Rmmod,
           Delete, Free, Unregister, Module, file, call
  <2>q. QED
    BY <2>1, <2>2, PlaceStep DEF Next, HeldInv, PlaceInv
<1>q. QED
  BY <1>1, HeldInvHolds, PlaceInit, PTL DEF Spec

\* Whatever position seeks, transfers and their races have left, what is copied lies in
\* the memory; and without a race the position does too.
THEOREM PositionStays == Spec => []PositionInside
<1>1. PlaceInv => PositionInside
  BY CopyInside DEF PlaceInv, Placed, Place, PositionInside
<1>q. QED
  BY <1>1, PlaceInvHolds, PTL

=============================================================================

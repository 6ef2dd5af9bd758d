------------------------------- MODULE Globalmem -------------------------------
(***************************************************************************)
(* Basic_Ch/globalmem.c: a module that offers GLOBALMEM_SIZE bytes as a    *)
(* character device.  Its loading and unloading, step by step, and the     *)
(* calls of processes that share one open file (by fork or as threads):    *)
(* the kernel holds no lock over a character device's file position.       *)
(* The bytes are left out: they stay 0, because globalmem_write passes the *)
(* value of mem[p] where its address belongs (194).                        *)
(***************************************************************************)
EXTENDS Integers

CONSTANTS
  Process,         \* processes that share the file
  GLOBALMEM_SIZE,
  UInt, ULong,     \* 2^32, and 2^32 or 2^64: one more than the largest unsigned
  Offsets, Sizes,  \* the arguments of llseek and pread, and of read and write
  Limit,           \* bound on the position, which races can drive ever further out
  Faults           \* may the region, the memory or the device be refused?

ASSUME SizeAssumption ==
  /\ GLOBALMEM_SIZE \in Nat \ {0} /\ UInt \in Nat /\ ULong \in Nat
  /\ GLOBALMEM_SIZE < UInt /\ UInt <= ULong
  /\ Offsets \subseteq Int /\ Sizes \subseteq 0..(UInt - 1)
  /\ Limit \in Nat /\ Faults \in BOOLEAN

VARIABLES
  stage,           \* how far globalmem_init or globalmem_exit has come
  region, mem, cdev, \* is the number registered, the memory there, the device added?
  pc,              \* where each process is
  f_pos,           \* the position of the shared file
  private,         \* did globalmem_open find the memory?
  ppos, arg,       \* of each process: its copy of a position, and its argument
  raced            \* history: has the position changed between a relative seek's
                   \* test and its addition?

vars == <<stage, region, mem, cdev, pc, f_pos, private, ppos, arg, raced>>

module == <<stage, region, mem, cdev>>
file   == <<f_pos, private, raced>>
call   == <<ppos, arg>>

Stage == {"gone", "register", "allocate", "setup", "loaded",
          "delete", "free", "unregister"}

Label == {"closed", "opening", "idle", "read", "pread", "done", "add"}

Init ==
  /\ stage = "gone" /\ region = FALSE /\ mem = FALSE /\ cdev = FALSE
  /\ pc = [p \in Process |-> "closed"]
  /\ f_pos = 0 /\ private = FALSE /\ raced = FALSE
  /\ ppos = [p \in Process |-> 0] /\ arg = [p \in Process |-> 0]

Goto(p, label) == pc' = [pc EXCEPT ![p] = label]

At(p, label) == pc[p] = label

\* The module is loaded or unloaded; no process takes part.
Module(from, to) ==
  /\ stage = from /\ stage' = to
  /\ UNCHANGED <<pc, file, call>>

-----------------------------------------------------------------------------
(* globalmem_init and globalmem_exit.                                       *)

Insmod == Module("gone", "register") /\ UNCHANGED <<region, mem, cdev>>

\* register_chrdev_region or alloc_chrdev_region
Register ==
  \/ Module("register", "allocate") /\ region' = TRUE /\ UNCHANGED <<mem, cdev>>
  \/ Faults /\ Module("register", "gone") /\ UNCHANGED <<region, mem, cdev>>

\* Forgets unregister_chrdev_region.
AllocateLeaks ==
  \/ Module("allocate", "setup") /\ mem' = TRUE /\ UNCHANGED <<region, cdev>>
  \/ Faults /\ Module("allocate", "gone") /\ UNCHANGED <<region, mem, cdev>>

\* kmalloc
Allocate ==
  \/ Module("allocate", "setup") /\ mem' = TRUE /\ UNCHANGED <<region, cdev>>
  \/ Faults /\ Module("allocate", "gone") /\ region' = FALSE /\ UNCHANGED <<mem, cdev>>

\* globalmem_setup_cdev, whose failure is only printed
Setup ==
  /\ Module("setup", "loaded")
  /\ cdev' = TRUE \/ (Faults /\ cdev' = FALSE)
  /\ UNCHANGED <<region, mem>>

\* Only a module that no file refers to (`.owner') can be removed, and from then on
\* its files cannot be opened.
Rmmod ==
  /\ \A p \in Process : At(p, "closed")
  /\ Module("loaded", "delete")
  /\ UNCHANGED <<region, mem, cdev>>

Delete     == Module("delete", "free") /\ cdev' = FALSE /\ UNCHANGED <<region, mem>>
Free       == Module("free", "unregister") /\ mem' = FALSE /\ UNCHANGED <<region, cdev>>
Unregister == Module("unregister", "gone") /\ region' = FALSE /\ UNCHANGED <<mem, cdev>>

-----------------------------------------------------------------------------
(* Opening, sharing and closing.                                            *)

\* The kernel finds the device as soon as it is added and takes a reference.
Lookup(p) ==
  /\ \A q \in Process : At(q, "closed")
  /\ cdev /\ stage \in {"allocate", "setup", "loaded"}
  /\ Goto(p, "opening")
  /\ UNCHANGED <<module, file, call>>

\* globalmem_open, in a new file
Open(p) ==
  /\ At(p, "opening")
  /\ private' = mem /\ f_pos' = 0 /\ raced' = FALSE
  /\ Goto(p, "idle")
  /\ UNCHANGED <<module, call>>

\* fork()
Share(p) ==
  /\ At(p, "closed") /\ \E q \in Process : At(q, "idle")
  /\ Goto(p, "idle")
  /\ UNCHANGED <<module, file, call>>

\* globalmem_release, when the last one closes
Close(p) ==
  /\ At(p, "idle") /\ Goto(p, "closed")
  /\ UNCHANGED <<module, file, call>>

-----------------------------------------------------------------------------
(* globalmem_read and globalmem_write.                                      *)

\* read() and write() give the handler a copy of the file's position.
Begin(p) ==
  /\ At(p, "idle") /\ Goto(p, "read")
  /\ ppos' = [ppos EXCEPT ![p] = f_pos]
  /\ \E size \in Sizes : arg' = [arg EXCEPT ![p] = size]
  /\ UNCHANGED <<module, file>>

\* pread() and pwrite() give it a position of the caller's.
BeginAt(p) ==
  /\ At(p, "idle") /\ Goto(p, "pread")
  /\ \E pos \in Offsets : pos >= 0 /\ ppos' = [ppos EXCEPT ![p] = pos]
  /\ \E size \in Sizes : arg' = [arg EXCEPT ![p] = size]
  /\ UNCHANGED <<module, file>>

\* `unsigned long p = *ppos', and how many bytes are copied from there; none if p is
\* past the end (-ENXIO, or 0 for an empty request)
Offset(p) == ppos[p] % ULong
Count(p)  == IF Offset(p) >= GLOBALMEM_SIZE THEN 0
             ELSE IF arg[p] > GLOBALMEM_SIZE - Offset(p) THEN GLOBALMEM_SIZE - Offset(p)
             ELSE arg[p]

\* The call is over, and its locals with it.
Leave(p, label) ==
  /\ Goto(p, label)
  /\ ppos' = [ppos EXCEPT ![p] = 0] /\ arg' = [arg EXCEPT ![p] = 0]

\* The handler copies and moves the position, or fails with -EFAULT (or -ENXIO).
Transfer(p) ==
  /\ \/ /\ At(p, "read") /\ Goto(p, "done")
        /\ \E count \in {0, Count(p)} : ppos' = [ppos EXCEPT ![p] = @ + count]
        /\ arg' = [arg EXCEPT ![p] = 0]
     \/ At(p, "pread") /\ Leave(p, "idle")
  /\ UNCHANGED <<module, file>>

\* A write (the model does not tell it from a read) goes to the address that mem[p]
\* has the value of, which stops the process in the kernel; its files are closed.
Oops(p) ==
  /\ pc[p] \in {"read", "pread"} /\ Count(p) > 0
  /\ Leave(p, "closed")
  /\ UNCHANGED <<module, file>>

\* Every change of the position: process p sets it, and whoever has tested a
\* relative seek before is overtaken.  A position further out than Limit counts as
\* Limit: it too is past the end.
Position(p, pos) ==
  /\ f_pos' = IF pos > Limit THEN Limit ELSE IF pos < -Limit THEN -Limit ELSE pos
  /\ raced' = (raced \/ (f_pos' # f_pos /\ \E q \in Process \ {p} : At(q, "add")))

\* read() and write() store the handler's position as the file's.
WriteBack(p) ==
  /\ At(p, "done") /\ Leave(p, "idle")
  /\ Position(p, ppos[p])
  /\ UNCHANGED <<module, private>>

-----------------------------------------------------------------------------
(* globalmem_llseek.                                                        *)

\* orig = 0: the offset is cut to an unsigned int before it is compared.
SeekSet(p) ==
  /\ At(p, "idle")
  /\ \E offset \in Offsets :
       /\ offset >= 0 /\ offset % UInt <= GLOBALMEM_SIZE
       /\ Position(p, offset % UInt)
  /\ UNCHANGED <<module, private, pc, call>>

\* Without the test for a negative sum.
SeekTestAbove(p) ==
  /\ At(p, "idle")
  /\ \E offset \in Offsets :
       /\ f_pos + offset <= GLOBALMEM_SIZE
       /\ arg' = [arg EXCEPT ![p] = offset]
  /\ Goto(p, "add")
  /\ UNCHANGED <<module, file, ppos>>

\* orig = 1: the sum is tested ...
SeekTest(p) ==
  /\ At(p, "idle")
  /\ \E offset \in Offsets :
       /\ f_pos + offset \in 0..GLOBALMEM_SIZE
       /\ arg' = [arg EXCEPT ![p] = offset]
  /\ Goto(p, "add")
  /\ UNCHANGED <<module, file, ppos>>

\* ... and computed again.
SeekAdd(p) ==
  /\ At(p, "add") /\ Leave(p, "idle")
  /\ Position(p, f_pos + arg[p])
  /\ UNCHANGED <<module, private>>

-----------------------------------------------------------------------------
Load   == Insmod \/ Register \/ Allocate \/ Setup
Unload == Rmmod \/ Delete \/ Free \/ Unregister

FileCall(p) ==
  \/ Lookup(p) \/ Open(p) \/ Share(p) \/ Close(p)
  \/ Begin(p) \/ BeginAt(p) \/ Transfer(p) \/ Oops(p) \/ WriteBack(p)
  \/ SeekSet(p) \/ SeekTest(p) \/ SeekAdd(p)

Next == Load \/ Unload \/ \E p \in Process : FileCall(p)

Spec == Init /\ [][Next]_vars

-----------------------------------------------------------------------------
(* Properties.                                                              *)

\* Whatever step of globalmem_init failed and however calls meet loading and unloading:
\* a module that is not there holds nothing, and a process that has the file open has
\* the module, its number, and the memory that globalmem_open gave it.
MemoryPresent ==
  /\ stage = "gone" => ~region /\ ~mem /\ ~cdev
  /\ \A p \in Process : pc[p] \notin {"closed", "opening"} =>
       stage = "loaded" /\ region /\ mem /\ private

\* What a process copies lies in the memory, whatever made its position; and the
\* position lies there too unless two processes raced for it (lines 237-249).
PositionInside ==
  /\ \A p \in Process : pc[p] \in {"read", "pread"} /\ Count(p) > 0 =>
       Offset(p) + Count(p) <= GLOBALMEM_SIZE
  /\ f_pos \in 0..GLOBALMEM_SIZE \/ raced

=============================================================================

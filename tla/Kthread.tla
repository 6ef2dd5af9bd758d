------------------------------- MODULE Kthread -------------------------------
(***************************************************************************)
(* The kernel threads of the Thread directory: kthreadd, which creates     *)
(* them on request, and kthread_stop (kthread_should_stop.c); the module   *)
(* thread.c, whose threads run until they are stopped; and the LED modules *)
(* hello_thread_led.c and senddata_thraed_blink.c, whose thread ends by    *)
(* itself and is never stopped.  kthread_run and the frame around a thread *)
(* function are the kernel's.                                              *)
(*                                                                         *)
(* A task is "RUNNING" or "SLEEPING", and sleeps in schedule() only if no  *)
(* wake-up came since it said so.                                          *)
(***************************************************************************)
EXTENDS Naturals, Sequences

CONSTANTS
  Module,   \* the kernel modules
  Thread,   \* the threads of all modules
  ThreadOf, \* the threads of a module, in the order it starts them
  Stops,    \* the modules that stop their threads, as thread.c does
  Faults    \* may the creation of a thread fail?

ASSUME KthreadAssumption ==
  /\ ThreadOf \in [Module -> Seq(Thread)]
  /\ \A m \in Module : Len(ThreadOf[m]) > 0
  /\ \A m, k \in Module : \A i \in 1..Len(ThreadOf[m]), j \in 1..Len(ThreadOf[k]) :
       ThreadOf[m][i] = ThreadOf[k][j] => m = k /\ i = j
  /\ Stops \subseteq Module
  /\ Faults \in BOOLEAN

VARIABLES
  kthread_create_list, \* requests to kthreadd
  kthreadd, serving,   \* where kthreadd is, and for which thread
  task,                \* the state of kthreadd's task and of every thread's
  thread,              \* where each thread is
  created,             \* create->done and create->result of its request
  should_stop,
  module, nth          \* where each module's init or exit is, with which thread

vars == <<kthread_create_list, kthreadd, serving, task, thread, created, should_stop,
          module, nth>>

kernel  == <<kthread_create_list, kthreadd, serving>>
threads == <<thread, created, should_stop>>
modules == <<module, nth>>

Gone == {"none", "dead"}

Current(m) == ThreadOf[m][nth[m]]
Goto(m, label) == module' = [module EXCEPT ![m] = label]
Wake(t) == task' = [task EXCEPT ![t] = "RUNNING"]

Init ==
  /\ kthread_create_list = <<>> /\ kthreadd = "top" /\ serving \in Thread
  /\ task = [t \in Thread \cup {"kthreadd"} |-> "RUNNING"]
  /\ thread = [t \in Thread |-> "none"]
  /\ created = [t \in Thread |-> "no"]
  /\ should_stop = [t \in Thread |-> FALSE]
  /\ module = [m \in Module |-> "unloaded"]
  /\ nth = [m \in Module |-> 1]

-----------------------------------------------------------------------------
(* kthreadd                                                                 *)

Top ==
  /\ kthreadd = "top"
  /\ task' = [task EXCEPT !["kthreadd"] = "SLEEPING"]
  /\ kthreadd' = "test"
  /\ UNCHANGED <<kthread_create_list, serving, threads, modules>>

\* The state is set after the list was found empty.
TestLate ==
  \/ /\ kthreadd = "test"
     /\ kthreadd' = IF kthread_create_list = <<>> THEN "late" ELSE "awake"
     /\ UNCHANGED <<kthread_create_list, serving, task, threads, modules>>
  \/ /\ kthreadd = "late"
     /\ task' = [task EXCEPT !["kthreadd"] = "SLEEPING"]
     /\ kthreadd' = "sleep"
     /\ UNCHANGED <<kthread_create_list, serving, threads, modules>>

\* list_empty, without the lock
Test ==
  /\ kthreadd = "test"
  /\ kthreadd' = IF kthread_create_list = <<>> THEN "sleep" ELSE "awake"
  /\ UNCHANGED <<kthread_create_list, serving, task, threads, modules>>

\* schedule() returns when the task was woken.
Schedule ==
  /\ kthreadd = "sleep" /\ task["kthreadd"] = "RUNNING"
  /\ kthreadd' = "awake"
  /\ UNCHANGED <<kthread_create_list, serving, task, threads, modules>>

Awake ==
  /\ kthreadd = "awake"
  /\ Wake("kthreadd")
  /\ kthreadd' = "take"
  /\ UNCHANGED <<kthread_create_list, serving, threads, modules>>

\* Without list_del_init.
TakeKeeps ==
  /\ kthreadd = "take"
  /\ IF kthread_create_list = <<>>
       THEN kthreadd' = "top" /\ UNCHANGED serving
       ELSE serving' = Head(kthread_create_list) /\ kthreadd' = "create"
  /\ UNCHANGED <<kthread_create_list, task, threads, modules>>

\* With kthread_create_lock: the loop's test and list_del_init.
Take ==
  /\ kthreadd = "take"
  /\ IF kthread_create_list = <<>>
       THEN kthreadd' = "top" /\ UNCHANGED <<kthread_create_list, serving>>
       ELSE /\ serving' = Head(kthread_create_list)
            /\ kthread_create_list' = Tail(kthread_create_list)
            /\ kthreadd' = "create"
  /\ UNCHANGED <<task, threads, modules>>

\* create_kthread
CreateKthread ==
  /\ kthreadd = "create"
  /\ \/ /\ thread' = [thread EXCEPT ![serving] = "born"]
        /\ UNCHANGED created
     \/ /\ Faults
        /\ created' = [created EXCEPT ![serving] = "failed"]
        /\ UNCHANGED thread
  /\ kthreadd' = "take"
  /\ UNCHANGED <<kthread_create_list, serving, task, should_stop, modules>>

Kthreadd == Top \/ Test \/ Schedule \/ Awake \/ Take \/ CreateKthread

-----------------------------------------------------------------------------
(* A thread.                                                                *)

\* It reports to its creator and sleeps until it is woken for the first time.
Born(t) ==
  /\ thread[t] = "born"
  /\ task' = [task EXCEPT ![t] = "SLEEPING"]
  /\ created' = [created EXCEPT ![t] = "yes"]
  /\ thread' = [thread EXCEPT ![t] = "parked"]
  /\ UNCHANGED <<kernel, should_stop, modules>>

\* The thread function is not called if the thread is to stop already.
Start(t) ==
  /\ thread[t] = "parked" /\ task[t] = "RUNNING"
  /\ thread' = [thread EXCEPT ![t] = IF should_stop[t] THEN "exit" ELSE "loop"]
  /\ UNCHANGED <<kernel, task, created, should_stop, modules>>

Stoppable(t) == \E m \in Stops : \E i \in 1..Len(ThreadOf[m]) : ThreadOf[m][i] = t

\* thread_func: while (!kthread_should_stop()) prepare_to_wait ...
Loop(t) ==
  /\ thread[t] = "loop" /\ Stoppable(t)
  /\ thread' = [thread EXCEPT ![t] = IF should_stop[t] THEN "exit" ELSE "prepare"]
  /\ UNCHANGED <<kernel, task, created, should_stop, modules>>

\* led_thread: the loop is counted, but the count is on the stack of an init that has
\* returned and may be anything, so the thread may end at any turn.
Blink(t) ==
  /\ thread[t] = "loop" /\ ~Stoppable(t)
  /\ thread' \in {[thread EXCEPT ![t] = label] : label \in {"exit", "prepare"}}
  /\ UNCHANGED <<kernel, task, created, should_stop, modules>>

Prepare(t) ==
  /\ thread[t] = "prepare"
  /\ task' = [task EXCEPT ![t] = "SLEEPING"]
  /\ thread' = [thread EXCEPT ![t] = "sleep"]
  /\ UNCHANGED <<kernel, created, should_stop, modules>>

\* The sleep has no timeout.
SleepForever(t) ==
  /\ thread[t] = "sleep" /\ task[t] = "RUNNING"
  /\ thread' = [thread EXCEPT ![t] = "loop"]
  /\ UNCHANGED <<kernel, task, created, should_stop, modules>>

\* ... schedule_timeout and finish_wait: a wake-up or the timeout
Sleep(t) ==
  /\ thread[t] = "sleep"
  /\ Wake(t)
  /\ thread' = [thread EXCEPT ![t] = "loop"]
  /\ UNCHANGED <<kernel, created, should_stop, modules>>

\* do_exit completes kthread->exited
Exit(t) ==
  /\ thread[t] = "exit"
  /\ thread' = [thread EXCEPT ![t] = "dead"]
  /\ UNCHANGED <<kernel, task, created, should_stop, modules>>

Run(t) == Born(t) \/ Start(t) \/ Loop(t) \/ Blink(t) \/ Prepare(t) \/ Sleep(t) \/ Exit(t)

-----------------------------------------------------------------------------
(* my_start_thread, gpio_hello_init                                         *)

Own(m) == {ThreadOf[m][i] : i \in 1..Len(ThreadOf[m])}

\* Bound: a module is loaded again only when its last threads have ended.
Load(m) ==
  /\ module[m] = "unloaded"
  /\ \A t \in Own(m) : thread[t] \in Gone
  /\ thread' = [t \in Thread |-> IF t \in Own(m) THEN "none" ELSE thread[t]]
  /\ created' = [t \in Thread |-> IF t \in Own(m) THEN "no" ELSE created[t]]
  /\ should_stop' = [t \in Thread |-> should_stop[t] /\ t \notin Own(m)]
  /\ nth' = [nth EXCEPT ![m] = 1]
  /\ Goto(m, "request")
  /\ UNCHANGED <<kernel, task>>

\* kthread_create_on_node: list_add_tail with the lock held, then the wake-up
Request(m) ==
  /\ module[m] = "request"
  /\ kthread_create_list' = Append(kthread_create_list, Current(m))
  /\ Goto(m, "kick")
  /\ UNCHANGED <<kthreadd, serving, task, threads, nth>>

Kick(m) ==
  /\ module[m] = "kick"
  /\ Wake("kthreadd")
  /\ Goto(m, "wait")
  /\ UNCHANGED <<kernel, threads, nth>>

NextThread(m, last, again) ==
  IF nth[m] = Len(ThreadOf[m])
    THEN Goto(m, last) /\ UNCHANGED nth
    ELSE Goto(m, again) /\ nth' = [nth EXCEPT ![m] = @ + 1]

\* kthread_run wakes a thread that was created.  thread.c goes on if there is none;
\* the LED modules' init fails.
Created(m) ==
  /\ module[m] = "wait"
  /\ created[Current(m)] # "no"
  /\ IF created[Current(m)] = "yes" THEN Wake(Current(m)) ELSE UNCHANGED task
  /\ IF created[Current(m)] = "failed" /\ m \notin Stops
       THEN Goto(m, "unloaded") /\ UNCHANGED nth
       ELSE NextThread(m, "loaded", "request")
  /\ UNCHANGED <<kernel, threads>>

-----------------------------------------------------------------------------
(* my_end_thread with kthread_stop, gpio_hello_exit                         *)

Unload(m) ==
  /\ module[m] = "loaded" /\ m \in Stops
  /\ Goto(m, "stop")
  /\ nth' = [nth EXCEPT ![m] = 1]
  /\ UNCHANGED <<kernel, task, threads>>

\* The thread may still be running.
UnloadLed(m) ==
  /\ module[m] = "loaded" /\ m \notin Stops
  /\ Goto(m, "unloaded")
  /\ UNCHANGED <<kernel, task, threads, nth>>

\* The caller hands over what kthread_run returned, a thread or an error, which
\* kthread_stop dereferences.  vfork_done is NULL once the thread has exited.
Stop(m) ==
  /\ module[m] = "stop"
  /\ Goto(m, CASE created[Current(m)] = "failed" -> "oops"
               [] thread[Current(m)] = "dead"    -> "result"
               [] OTHER                          -> "mark")
  /\ UNCHANGED <<kernel, task, threads, nth>>

Mark(m) ==
  /\ module[m] = "mark"
  /\ should_stop' = [should_stop EXCEPT ![Current(m)] = TRUE]
  /\ Goto(m, "wake")
  /\ UNCHANGED <<kernel, task, thread, created, nth>>

WakeStopped(m) ==
  /\ module[m] = "wake"
  /\ Wake(Current(m))
  /\ Goto(m, "join")
  /\ UNCHANGED <<kernel, threads, nth>>

\* It does not wait.
JoinNot(m) ==
  /\ module[m] = "join"
  /\ Goto(m, "result")
  /\ UNCHANGED <<kernel, task, threads, nth>>

\* wait_for_completion(&kthread->exited)
Join(m) ==
  /\ module[m] = "join"
  /\ thread[Current(m)] = "dead"
  /\ Goto(m, "result")
  /\ UNCHANGED <<kernel, task, threads, nth>>

\* kthread_stop returns, and the next thread has its turn.
Result(m) ==
  /\ module[m] = "result"
  /\ NextThread(m, "unloaded", "stop")
  /\ UNCHANGED <<kernel, task, threads>>

InCall(m) ==
  \/ Request(m) \/ Kick(m) \/ Created(m)
  \/ Stop(m) \/ Mark(m) \/ WakeStopped(m) \/ Join(m) \/ Result(m)

Next ==
  \/ Kthreadd
  \/ \E t \in Thread : Run(t)
  \/ \E m \in Module : Load(m) \/ Unload(m) \/ UnloadLed(m) \/ InCall(m)

\* Every task that can run does, and timers fire; nobody has to load or unload.
Fairness ==
  /\ WF_vars(Kthreadd)
  /\ \A t \in Thread : WF_vars(Run(t))
  /\ \A m \in Module : WF_vars(InCall(m))

Spec == Init /\ [][Next]_vars

FairSpec == Spec /\ Fairness

-----------------------------------------------------------------------------
(* Properties.                                                              *)

TypeOK ==
  /\ kthread_create_list \in Seq(Thread)
  /\ kthreadd \in {"top", "test", "sleep", "awake", "take", "create"}
  /\ serving \in Thread
  /\ task \in [Thread \cup {"kthreadd"} -> {"RUNNING", "SLEEPING"}]
  /\ thread \in [Thread -> Gone \cup {"born", "parked", "loop", "prepare", "sleep", "exit"}]
  /\ created \in [Thread -> {"no", "yes", "failed"}]
  /\ should_stop \in [Thread -> BOOLEAN]
  /\ module \in [Module -> {"unloaded", "request", "kick", "wait", "loaded", "stop", "mark",
                            "wake", "join", "result", "oops"}]
  /\ \A m \in Module : nth[m] \in 1..Len(ThreadOf[m])

\* A thread is created for one request at most: no thread is on the list twice, or
\* again while kthreadd serves it or after it has come to life.
CreatedOnce ==
  /\ \A i, j \in 1..Len(kthread_create_list) :
       kthread_create_list[i] = kthread_create_list[j] => i = j
  /\ \A i \in 1..Len(kthread_create_list) :
       /\ thread[kthread_create_list[i]] = "none"
       /\ kthreadd = "create" => serving # kthread_create_list[i]
  /\ kthreadd = "create" => thread[serving] = "none"

\* When thread.c's exit has returned none of its threads is left that could run the
\* code that is now gone, wherever the stops found them.
CodePresent ==
  \A m \in Stops : module[m] = "unloaded" => \A t \in Own(m) : thread[t] \in Gone

\* Every request to kthreadd is answered, also one that comes while kthreadd is about
\* to sleep.
CreateReturns ==
  \A m \in Module : module[m] = "request" ~> module[m] \notin {"request", "kick", "wait"}

\* kthread_stop returns, also if its wake-up comes between the thread's test and its
\* sleep, and the module can be unloaded (unless a thread could not be created).
StopReturns ==
  \A m \in Stops : module[m] = "stop" ~> module[m] \in {"unloaded", "oops"}

=============================================================================

----------------------------- MODULE KthreadProofs -----------------------------
(***************************************************************************)
(* For any modules and any number of threads each: kthreadd creates a      *)
(* thread once for each request, and exit leaves no thread of thread.c.    *)
(***************************************************************************)
EXTENDS Kthread, SequenceTheorems, TLAPS

Labels == {"unloaded", "request", "kick", "wait", "loaded", "stop", "mark", "wake", "join",
           "result", "oops"}

\* What the argument needs of TypeOK.
Types ==
  /\ kthread_create_list \in Seq(Thread) /\ serving \in Thread
  /\ thread \in [Thread -> Gone \cup {"born", "parked", "loop", "prepare", "sleep", "exit"}]
  /\ created \in [Thread -> {"no", "yes", "failed"}]
  /\ module \in [Module -> Labels]
  /\ nth \in [Module -> Nat] /\ \A m \in Module : nth[m] \in 1..Len(ThreadOf[m])

\* t waits for kthreadd, or is being served.
Listed(t)  == \E i \in 1..Len(kthread_create_list) : kthread_create_list[i] = t
Pending(t) == Listed(t) \/ (kthreadd = "create" /\ serving = t)

Distinct == \A i, j \in 1..Len(kthread_create_list) :
              kthread_create_list[i] = kthread_create_list[j] => i = j

\* Kthreadd's side: who is pending is on the list or served, not both, is not there yet
\* and has no answer.
Requests ==
  /\ Distinct
  /\ kthreadd = "create" => ~Listed(serving)
  /\ \A t \in Thread : Pending(t) => thread[t] = "none" /\ created[t] = "no"

\* The module's side: it waits for the thread that it asked for, and has not asked for
\* those that are to come.
Asked ==
  \A m \in Module : \A i \in 1..Len(ThreadOf[m]) :
    /\ Pending(ThreadOf[m][i]) => module[m] \in {"kick", "wait"} /\ nth[m] = i
    /\ \/ module[m] = "request" /\ i >= nth[m]
       \/ module[m] \in {"kick", "wait"} /\ i > nth[m]
       => thread[ThreadOf[m][i]] = "none" /\ created[ThreadOf[m][i]] = "no"

\* Exit has seen the threads it is done with die.
Stopped ==
  \A m \in Stops : \A i \in 1..Len(ThreadOf[m]) :
    /\ \/ module[m] \in {"stop", "mark", "wake", "join", "result"} /\ i < nth[m]
       \/ module[m] = "result" /\ i = nth[m]
       => thread[ThreadOf[m][i]] = "dead"
    /\ module[m] = "unloaded" => thread[ThreadOf[m][i]] \in Gone

IInv == Types /\ Requests /\ Asked /\ Stopped

-----------------------------------------------------------------------------
(* The list, and whose thread is whose.                                     *)

LEMMA OneOwner ==
  ASSUME NEW m \in Module, NEW k \in Module,
         NEW i \in 1..Len(ThreadOf[m]), NEW j \in 1..Len(ThreadOf[k])
  PROVE  /\ ThreadOf[m][i] \in Thread /\ Len(ThreadOf[m]) \in Nat
         /\ ThreadOf[m][i] = ThreadOf[k][j] => m = k /\ i = j
<1>1. ThreadOf[m] \in Seq(Thread)
  BY KthreadAssumption
<1>2. ThreadOf[m][i] \in Thread /\ Len(ThreadOf[m]) \in Nat
  BY <1>1, ElementOfSeq, LenProperties
<1>q. QED
  BY <1>2, KthreadAssumption

LEMMA SomeThread ==
  ASSUME NEW m \in Module
  PROVE  Len(ThreadOf[m]) \in Nat /\ 1 \in 1..Len(ThreadOf[m])
<1>1. Len(ThreadOf[m]) \in Nat /\ Len(ThreadOf[m]) > 0
  BY KthreadAssumption, LenProperties
<1>q. QED
  BY <1>1

\* list_add_tail of a thread that is not there.
LEMMA Listing ==
  ASSUME NEW x \in Thread, Types, Distinct, ~Listed(x),
         kthread_create_list' = Append(kthread_create_list, x)
  PROVE  /\ kthread_create_list' \in Seq(Thread) /\ Distinct'
         /\ \A t \in Thread : Listed(t)' <=> Listed(t) \/ t = x
<1> DEFINE s == kthread_create_list
<1>1. s \in Seq(Thread) /\ Len(s) \in Nat
  BY LenProperties DEF Types
<1>2. /\ Append(s, x) \in Seq(Thread) /\ Len(Append(s, x)) = Len(s) + 1
      /\ \A i \in 1..Len(s) : Append(s, x)[i] = s[i]
      /\ Append(s, x)[Len(s) + 1] = x
  BY <1>1, AppendProperties
<1> HIDE DEF s
<1>3. \A i, j \in 1..(Len(s) + 1) : Append(s, x)[i] = Append(s, x)[j] => i = j
  BY <1>1, <1>2 DEF Distinct, Listed, s
<1>4. ASSUME NEW t \in Thread
      PROVE  (\E i \in 1..(Len(s) + 1) : Append(s, x)[i] = t)
               <=> (\E i \in 1..Len(s) : s[i] = t) \/ t = x
  BY <1>1, <1>2
<1>q. QED
  BY <1>2, <1>3, <1>4 DEF Distinct, Listed, s

\* list_del_init of the head.
LEMMA Delisting ==
  ASSUME Types, Distinct, kthread_create_list # <<>>,
         kthread_create_list' = Tail(kthread_create_list)
  PROVE  /\ kthread_create_list' \in Seq(Thread) /\ Distinct'
         /\ Head(kthread_create_list) \in Thread /\ Listed(Head(kthread_create_list))
         /\ \A t \in Thread :
              Listed(t)' <=> Listed(t) /\ t # Head(kthread_create_list)
<1> DEFINE s == kthread_create_list
<1>1. s \in Seq(Thread) /\ Len(s) \in Nat \ {0}
  BY EmptySeq DEF Types
<1>2. /\ Head(s) \in Thread /\ Tail(s) \in Seq(Thread) /\ Len(Tail(s)) = Len(s) - 1
      /\ \A i \in 1..Len(Tail(s)) : Tail(s)[i] = s[i + 1]
  BY <1>1, HeadTailProperties
<1>3. Head(s) = s[1]
  BY <1>1
<1> HIDE DEF s
<1>4. \A i, j \in 1..(Len(s) - 1) : Tail(s)[i] = Tail(s)[j] => i = j
  BY <1>1, <1>2 DEF Distinct, s
<1>5. \E i \in 1..Len(s) : s[i] = Head(s)
  BY <1>1, <1>3
<1>6. ASSUME NEW t \in Thread
      PROVE  (\E i \in 1..(Len(s) - 1) : Tail(s)[i] = t)
               <=> (\E i \in 1..Len(s) : s[i] = t) /\ t # Head(s)
  <2>1. ASSUME NEW i \in 1..(Len(s) - 1), Tail(s)[i] = t
        PROVE  i + 1 \in 1..Len(s) /\ s[i + 1] = t /\ t # Head(s)
    BY <1>1, <1>2, <1>3, <2>1 DEF Distinct, s
  <2>2. ASSUME NEW i \in 1..Len(s), s[i] = t, t # Head(s)
        PROVE  i - 1 \in 1..(Len(s) - 1) /\ Tail(s)[i - 1] = t
    <3>1. i # 1
      BY <1>3, <2>2
    <3>2. i - 1 \in 1..(Len(s) - 1) /\ (i - 1) + 1 = i
      BY <1>1, <3>1
    <3>q. QED
      BY <1>2, <2>2, <3>2
  <2>q. QED
    BY <2>1, <2>2
<1>q. QED
  BY <1>2, <1>4, <1>5, <1>6 DEF Distinct, Listed, s

-----------------------------------------------------------------------------

LEMMA IInvInit == Init => IInv
<1> SUFFICES ASSUME Init PROVE IInv
  OBVIOUS
<1>1. Len(kthread_create_list) = 0 /\ kthread_create_list \in Seq(Thread)
  BY EmptySeq DEF Init
<1>2. \A m \in Module : 1 \in 1..Len(ThreadOf[m])
  BY SomeThread
<1>3. Types
  <2>1. thread \in [Thread -> Gone \cup {"born", "parked", "loop", "prepare", "sleep", "exit"}]
    BY DEF Init, Gone
  <2>2. created \in [Thread -> {"no", "yes", "failed"}] /\ module \in [Module -> Labels]
    BY DEF Init, Labels
  <2>3. nth \in [Module -> Nat] /\ \A m \in Module : nth[m] = 1
    BY DEF Init
  <2>4. serving \in Thread
    BY DEF Init
  <2>q. QED
    BY <1>1, <1>2, <2>1, <2>2, <2>3, <2>4 DEF Types
<1>4. Requests /\ \A t : ~Pending(t)
  BY <1>1 DEF Init, Requests, Distinct, Pending, Listed
<1>5. Asked /\ Stopped
  BY <1>2, <1>4, OneOwner, KthreadAssumption DEF Init, Asked, Stopped, Gone
<1>q. QED
  BY <1>3, <1>4, <1>5 DEF IInv

\* Most of kthreadd's steps only move it.
LEMMA Moving ==
  ASSUME IInv, kthreadd # "create", kthreadd' # "create",
         UNCHANGED <<kthread_create_list, serving, threads, modules>>
  PROVE  IInv'
<1>1. Types'
  BY DEF IInv, Types, threads, modules
<1>2. \A t : Listed(t)' <=> Listed(t)
  BY DEF Listed
<1>3. Requests'
  BY <1>2 DEF IInv, Requests, Distinct, Pending, threads
<1>4. Asked' /\ Stopped'
  BY <1>2 DEF IInv, Asked, Stopped, Pending, threads, modules
<1>q. QED
  BY <1>1, <1>3, <1>4 DEF IInv

\* The served thread is off the list.
LEMMA TakeStep == IInv /\ Take => IInv'
<1> SUFFICES ASSUME IInv, Take PROVE IInv'
  OBVIOUS
<1>1. CASE kthread_create_list = <<>>
  BY <1>1, Moving DEF Take, threads, modules
<1>2. CASE kthread_create_list # <<>>
  <2>1. /\ kthread_create_list' \in Seq(Thread) /\ Distinct'
        /\ Head(kthread_create_list) \in Thread /\ Listed(Head(kthread_create_list))
        /\ \A t \in Thread :
             Listed(t)' <=> Listed(t) /\ t # Head(kthread_create_list)
    BY <1>2, Delisting DEF IInv, Requests, Take
  <2>2. kthreadd' = "create" /\ serving' = Head(kthread_create_list)
    BY <1>2 DEF Take
  <2>3. \A t \in Thread : Pending(t)' <=> Pending(t)
    BY <2>1, <2>2 DEF Pending, Take
  <2>4. Types' /\ Requests'
    BY <2>1, <2>2, <2>3 DEF IInv, Types, Requests, Take, threads, modules
  <2>5. Asked'
    <3>1. \A m \in Module : \A i \in 1..Len(ThreadOf[m]) : ThreadOf[m][i] \in Thread
      BY OneOwner
    <3>q. QED
      BY <2>3, <3>1 DEF IInv, Asked, Take, threads, modules
  <2>6. Stopped'
    BY DEF IInv, Stopped, Take, threads, modules
  <2>q. QED
    BY <2>4, <2>5, <2>6 DEF IInv
<1>q. QED
  BY <1>1, <1>2

\* The served thread is still to come, so its module waits.
LEMMA CreateStep == IInv /\ CreateKthread => IInv'
<1> SUFFICES ASSUME IInv, CreateKthread PROVE IInv'
  OBVIOUS
<1>1. /\ serving \in Thread /\ Pending(serving) /\ ~Listed(serving)
      /\ thread[serving] = "none" /\ created[serving] = "no"
  BY DEF IInv, Types, Requests, Pending, CreateKthread
<1>2. /\ \A t : Listed(t)' <=> Listed(t)
      /\ \A t : Pending(t)' <=> Listed(t)
      /\ \A t \in Thread \ {serving} : thread'[t] = thread[t] /\ created'[t] = created[t]
      /\ thread'[serving] \in {"none", "born"}
      /\ UNCHANGED <<kthread_create_list, serving, module, nth>>
  BY <1>1 DEF Listed, Pending, CreateKthread, modules, IInv, Types
<1>3. Types'
  BY <1>1 DEF IInv, Types, CreateKthread, modules
<1>4. Requests'
  BY <1>1, <1>2 DEF IInv, Requests, Distinct, Pending, CreateKthread
<1>5. ASSUME NEW m \in Module, NEW i \in 1..Len(ThreadOf[m])
      PROVE  /\ ThreadOf[m][i] \in Thread
             /\ ThreadOf[m][i] = serving => module[m] \in {"kick", "wait"} /\ nth[m] = i
  BY <1>1, OneOwner DEF IInv, Asked
<1>6. Asked'
  <2> SUFFICES ASSUME NEW m \in Module, NEW i \in 1..Len(ThreadOf[m])
               PROVE  /\ Pending(ThreadOf[m][i])' => module[m] \in {"kick", "wait"} /\ nth[m] = i
                      /\ \/ module[m] = "request" /\ i >= nth[m]
                         \/ module[m] \in {"kick", "wait"} /\ i > nth[m]
                         => thread'[ThreadOf[m][i]] = "none" /\ created'[ThreadOf[m][i]] = "no"
    BY <1>2 DEF Asked
  <2>1. nth[m] \in Nat /\ i \in Int
    BY DEF IInv, Types
  <2>2. CASE ThreadOf[m][i] = serving
    BY <1>5, <2>1, <2>2
  <2>3. CASE ThreadOf[m][i] # serving
    <3>1. /\ thread'[ThreadOf[m][i]] = thread[ThreadOf[m][i]]
          /\ created'[ThreadOf[m][i]] = created[ThreadOf[m][i]]
          /\ Pending(ThreadOf[m][i])' => Pending(ThreadOf[m][i])
      BY <1>2, <1>5, <2>3 DEF Pending
    <3>q. QED
      BY <3>1 DEF IInv, Asked
  <2>q. QED
    BY <2>2, <2>3
<1>7. Stopped'
  BY <1>2, <1>5, KthreadAssumption DEF IInv, Stopped
<1>q. QED
  BY <1>3, <1>4, <1>6, <1>7 DEF IInv

\* A thread that runs was created, and is dead in the end.
LEMMA RunStep == ASSUME NEW t \in Thread PROVE IInv /\ Run(t) => IInv'
<1> SUFFICES ASSUME IInv, Run(t) PROVE IInv'
  OBVIOUS
<1>1. /\ thread[t] \notin Gone /\ UNCHANGED <<kernel, modules>>
      /\ thread'[t] # "none"
      /\ \A u \in Thread \ {t} : thread'[u] = thread[u] /\ created'[u] = created[u]
      /\ thread' \in [Thread -> Gone \cup {"born", "parked", "loop", "prepare", "sleep", "exit"}]
      /\ created' \in [Thread -> {"no", "yes", "failed"}]
  BY DEF IInv, Types, Gone, Run, Born, Start, Loop, Blink, Prepare, Sleep, Exit, kernel, modules
<1>2. ~Pending(t) /\ \A u : (Pending(u)' <=> Pending(u)) /\ (Listed(u)' <=> Listed(u))
  BY <1>1 DEF IInv, Requests, Pending, Listed, Gone, kernel
<1>3. Types'
  BY <1>1 DEF IInv, Types, kernel, modules
<1>4. Requests'
  BY <1>1, <1>2 DEF IInv, Requests, Distinct, kernel
<1>5. \A m \in Module : \A i \in 1..Len(ThreadOf[m]) : ThreadOf[m][i] \in Thread
  BY OneOwner
<1>6. Asked'
  BY <1>1, <1>2, <1>5 DEF IInv, Asked, Gone, modules
<1>7. Stopped'
  BY <1>1, <1>5, KthreadAssumption DEF IInv, Stopped, Gone, modules
<1>q. QED
  BY <1>3, <1>4, <1>6, <1>7 DEF IInv

-----------------------------------------------------------------------------
(* The modules.                                                             *)

\* The steps of m that change no thread.
LEMMA ModuleStep ==
  ASSUME NEW m \in Module, IInv, UNCHANGED <<kernel, thread, created>>,
         module' \in [Module -> Labels], nth' \in [Module -> Nat],
         nth'[m] \in 1..Len(ThreadOf[m]),
         \A k \in Module \ {m} : module'[k] = module[k] /\ nth'[k] = nth[k],
         \A i \in 1..Len(ThreadOf[m]) :
           /\ ~Pending(ThreadOf[m][i])
           /\ \/ module'[m] = "request" /\ i >= nth'[m]
              \/ module'[m] \in {"kick", "wait"} /\ i > nth'[m]
              => thread[ThreadOf[m][i]] = "none" /\ created[ThreadOf[m][i]] = "no",
         m \in Stops => \A i \in 1..Len(ThreadOf[m]) :
           /\ \/ module'[m] \in {"stop", "mark", "wake", "join", "result"} /\ i < nth'[m]
              \/ module'[m] = "result" /\ i = nth'[m]
              => thread[ThreadOf[m][i]] = "dead"
           /\ module'[m] = "unloaded" => thread[ThreadOf[m][i]] \in Gone
  PROVE  IInv'
<1>1. \A t : (Pending(t)' <=> Pending(t)) /\ (Listed(t)' <=> Listed(t))
  BY DEF Pending, Listed, kernel
<1>2. Types'
  BY DEF IInv, Types, kernel
<1>3. Requests'
  BY <1>1 DEF IInv, Requests, Distinct, kernel
<1>4. Asked'
  BY <1>1 DEF IInv, Asked
<1>5. Stopped'
  BY KthreadAssumption DEF IInv, Stopped
<1>q. QED
  BY <1>2, <1>3, <1>4, <1>5 DEF IInv

\* Only the module that asks has a thread pending.
LEMMA NotAsking ==
  ASSUME NEW m \in Module, IInv, NEW i \in 1..Len(ThreadOf[m]),
         module[m] \notin {"kick", "wait"} \/ nth[m] # i
  PROVE  ~Pending(ThreadOf[m][i])
  BY DEF IInv, Asked

LEMMA LoadStep == ASSUME NEW m \in Module PROVE IInv /\ Load(m) => IInv'
<1> SUFFICES ASSUME IInv, Load(m) PROVE IInv'
  OBVIOUS
<1>1. /\ UNCHANGED kernel /\ module[m] = "unloaded"
      /\ module' = [module EXCEPT ![m] = "request"] /\ nth' = [nth EXCEPT ![m] = 1]
      /\ thread' = [t \in Thread |-> IF t \in Own(m) THEN "none" ELSE thread[t]]
      /\ created' = [t \in Thread |-> IF t \in Own(m) THEN "no" ELSE created[t]]
  BY DEF Load, Goto
<1>2. ASSUME NEW k \in Module, NEW i \in 1..Len(ThreadOf[k])
      PROVE  ThreadOf[k][i] \in Thread /\ (ThreadOf[k][i] \in Own(m) <=> k = m)
  BY OneOwner DEF Own
<1>3. \A t : (Pending(t)' <=> Pending(t)) /\ (Listed(t)' <=> Listed(t))
  BY <1>1 DEF Pending, Listed, kernel
<1>4. 1 \in 1..Len(ThreadOf[m])
  BY SomeThread
<1>5. \A t \in Own(m) : ~Pending(t)
  BY <1>1, NotAsking DEF Own
<1>6. Types'
  <2>1. thread' \in [Thread -> Gone \cup {"born", "parked", "loop", "prepare", "sleep", "exit"}]
    BY <1>1 DEF IInv, Types, Gone
  <2>2. created' \in [Thread -> {"no", "yes", "failed"}]
    BY <1>1 DEF IInv, Types
  <2>3. module' \in [Module -> Labels]
    BY <1>1 DEF IInv, Types, Labels
  <2>4. nth' \in [Module -> Nat] /\ \A k \in Module : nth'[k] \in 1..Len(ThreadOf[k])
    BY <1>1, <1>4 DEF IInv, Types
  <2>q. QED
    BY <1>1, <2>1, <2>2, <2>3, <2>4 DEF IInv, Types, kernel
<1>7. Requests'
  BY <1>1, <1>3, <1>5 DEF IInv, Requests, Distinct, kernel
<1>8. Asked'
  BY <1>1, <1>2, <1>3, <1>5 DEF IInv, Asked, Types
<1>9. Stopped'
  BY <1>1, <1>2, KthreadAssumption DEF IInv, Stopped, Types
<1>q. QED
  BY <1>6, <1>7, <1>8, <1>9 DEF IInv

LEMMA RequestStep == ASSUME NEW m \in Module PROVE IInv /\ Request(m) => IInv'
<1> SUFFICES ASSUME IInv, Request(m) PROVE IInv'
  OBVIOUS
<1> DEFINE x == ThreadOf[m][nth[m]]
<1>1. x \in Thread /\ nth[m] \in 1..Len(ThreadOf[m])
  BY OneOwner DEF IInv, Types
<1>2. thread[x] = "none" /\ created[x] = "no" /\ ~Pending(x)
  <2>1. module[m] = "request" /\ nth[m] \in Nat
    BY DEF IInv, Types, Request
  <2>2. nth[m] >= nth[m]
    BY <2>1
  <2>q. QED
    BY <1>1, <2>1, <2>2 DEF IInv, Asked
<1>3. /\ kthread_create_list' = Append(kthread_create_list, x)
      /\ module' = [module EXCEPT ![m] = "kick"]
      /\ UNCHANGED <<kthreadd, serving, threads, nth>>
  BY DEF Request, Current, Goto
<1> HIDE DEF x
<1>4. /\ kthread_create_list' \in Seq(Thread) /\ Distinct'
      /\ \A t \in Thread : Listed(t)' <=> Listed(t) \/ t = x
  BY <1>1, <1>2, <1>3, Listing DEF IInv, Requests, Pending
<1>5. \A t \in Thread : Pending(t)' <=> Pending(t) \/ t = x
  BY <1>3, <1>4 DEF Pending
<1>6. Types'
  BY <1>3, <1>4 DEF IInv, Types, threads, Labels
<1>7. Requests'
  BY <1>2, <1>3, <1>4, <1>5 DEF IInv, Requests, Types, Pending, threads
<1>8. ASSUME NEW k \in Module, NEW i \in 1..Len(ThreadOf[k])
      PROVE  ThreadOf[k][i] \in Thread /\ (ThreadOf[k][i] = x => k = m /\ i = nth[m])
  BY <1>1, OneOwner DEF x
<1>9. Asked'
  <2>1. ASSUME NEW k \in Module, NEW i \in 1..Len(ThreadOf[k]), Pending(ThreadOf[k][i])'
        PROVE  module'[k] \in {"kick", "wait"} /\ nth'[k] = i
    BY <1>3, <1>5, <1>8, <2>1 DEF IInv, Asked, Types
  <2>2. ASSUME NEW k \in Module, NEW i \in 1..Len(ThreadOf[k]),
               \/ module'[k] = "request" /\ i >= nth'[k]
               \/ module'[k] \in {"kick", "wait"} /\ i > nth'[k]
        PROVE  thread'[ThreadOf[k][i]] = "none" /\ created'[ThreadOf[k][i]] = "no"
    <3>1. thread[ThreadOf[k][i]] = "none" /\ created[ThreadOf[k][i]] = "no"
      BY <1>1, <1>3, <2>2 DEF IInv, Asked, Types, Request
    <3>q. QED
      BY <1>3, <3>1 DEF threads
  <2>q. QED
    BY <2>1, <2>2 DEF Asked
<1>10. Stopped'
  BY <1>3, KthreadAssumption DEF IInv, Stopped, Types, threads
<1>q. QED
  BY <1>6, <1>7, <1>9, <1>10 DEF IInv

LEMMA CreatedStep == ASSUME NEW m \in Module PROVE IInv /\ Created(m) => IInv'
<1> SUFFICES ASSUME IInv, Created(m) PROVE IInv'
  OBVIOUS
<1>1. nth[m] \in Nat /\ nth[m] \in 1..Len(ThreadOf[m]) /\ Len(ThreadOf[m]) \in Nat
  BY SomeThread DEF IInv, Types
<1>2. module[m] = "wait" /\ created[ThreadOf[m][nth[m]]] # "no" /\ UNCHANGED <<kernel, threads>>
  BY DEF Created, Current
<1>3. \A i \in 1..Len(ThreadOf[m]) : ~Pending(ThreadOf[m][i])
  BY <1>2, OneOwner DEF IInv, Asked, Requests
<1>4. \A i \in 1..Len(ThreadOf[m]) :
        i > nth[m] => thread[ThreadOf[m][i]] = "none" /\ created[ThreadOf[m][i]] = "no"
  BY <1>2 DEF IInv, Asked
<1>5. \/ /\ module' = [module EXCEPT ![m] = "unloaded"] /\ nth' = nth
         /\ m \notin Stops
      \/ module' = [module EXCEPT ![m] = "loaded"] /\ nth' = nth
      \/ /\ module' = [module EXCEPT ![m] = "request"] /\ nth' = [nth EXCEPT ![m] = @ + 1]
         /\ nth[m] # Len(ThreadOf[m])
  BY DEF Created, NextThread, Goto
<1>6. /\ module' \in [Module -> Labels] /\ nth' \in [Module -> Nat]
      /\ nth'[m] \in 1..Len(ThreadOf[m])
      /\ \A k \in Module \ {m} : module'[k] = module[k] /\ nth'[k] = nth[k]
  <2>1. CASE module' = [module EXCEPT ![m] = "unloaded"] /\ nth' = nth
    BY <1>1, <2>1 DEF IInv, Types, Labels
  <2>2. CASE module' = [module EXCEPT ![m] = "loaded"] /\ nth' = nth
    BY <1>1, <2>2 DEF IInv, Types, Labels
  <2>3. CASE /\ module' = [module EXCEPT ![m] = "request"] /\ nth' = [nth EXCEPT ![m] = @ + 1]
             /\ nth[m] # Len(ThreadOf[m])
    <3>1. nth'[m] = nth[m] + 1 /\ nth' \in [Module -> Nat]
      BY <1>1, <2>3 DEF IInv, Types
    <3>2. nth'[m] \in 1..Len(ThreadOf[m])
      BY <1>1, <2>3, <3>1
    <3>q. QED
      BY <2>3, <3>1, <3>2 DEF IInv, Types, Labels
  <2>q. QED
    BY <1>5, <2>1, <2>2, <2>3
<1>7. /\ module'[m] \in {"unloaded", "loaded", "request"}
      /\ module'[m] = "request" => nth'[m] = nth[m] + 1
      /\ module'[m] = "unloaded" => m \notin Stops
  BY <1>5 DEF IInv, Types
<1>q. QED
  BY <1>1, <1>2, <1>3, <1>4, <1>6, <1>7, ModuleStep DEF threads

\* Unloading and stopping: none is pending, and the threads are seen to die in turn.
LEMMA StopStep ==
  ASSUME NEW m \in Module
  PROVE  /\ IInv
         /\ Unload(m) \/ UnloadLed(m) \/ Stop(m) \/ Mark(m) \/ WakeStopped(m) \/ Join(m)
            \/ Result(m)
         => IInv'
<1> SUFFICES ASSUME IInv,
                    Unload(m) \/ UnloadLed(m) \/ Stop(m) \/ Mark(m) \/ WakeStopped(m)
                      \/ Join(m) \/ Result(m)
             PROVE  IInv'
  OBVIOUS
<1>1. nth[m] \in Nat /\ nth[m] \in 1..Len(ThreadOf[m]) /\ Len(ThreadOf[m]) \in Nat
  BY SomeThread DEF IInv, Types
<1>2. UNCHANGED <<kernel, thread, created>>
  BY DEF Unload, UnloadLed, Stop, Mark, WakeStopped, Join, Result, threads
<1>3. /\ module[m] \in {"loaded", "stop", "mark", "wake", "join", "result"}
      /\ module'[m] \in {"unloaded", "stop", "mark", "wake", "join", "result", "oops"}
      /\ module' \in [Module -> Labels] /\ nth' \in [Module -> Nat]
      /\ nth'[m] \in 1..Len(ThreadOf[m])
      /\ \A k \in Module \ {m} : module'[k] = module[k] /\ nth'[k] = nth[k]
  <2>1. CASE Unload(m)
    BY <1>1, <2>1, SomeThread DEF Unload, Goto, IInv, Types, Labels
  <2>2. CASE UnloadLed(m)
    BY <1>1, <2>2 DEF UnloadLed, Goto, IInv, Types, Labels
  <2>3. CASE Stop(m)
    BY <1>1, <2>3 DEF Stop, Goto, IInv, Types, Labels
  <2>4. CASE Mark(m)
    BY <1>1, <2>4 DEF Mark, Goto, IInv, Types, Labels
  <2>5. CASE WakeStopped(m)
    BY <1>1, <2>5 DEF WakeStopped, Goto, IInv, Types, Labels
  <2>6. CASE Join(m)
    BY <1>1, <2>6 DEF Join, Goto, IInv, Types, Labels
  <2>7. CASE Result(m)
    <3>1. /\ module \in [Module -> Labels] /\ nth \in [Module -> Nat] /\ module[m] = "result"
          /\ \A k \in Module : nth[k] \in 1..Len(ThreadOf[k])
      BY <2>7 DEF Result, IInv, Types
    <3>2. CASE nth[m] = Len(ThreadOf[m])
      BY <1>1, <2>7, <3>1, <3>2 DEF Result, NextThread, Goto, Labels
    <3>3. CASE nth[m] # Len(ThreadOf[m])
      <4>1. nth[m] + 1 \in Nat /\ nth[m] + 1 \in 1..Len(ThreadOf[m])
        BY <1>1, <3>3
      <4>q. QED
        BY <2>7, <3>1, <3>3, <4>1 DEF Result, NextThread, Goto, Labels
    <3>q. QED
      BY <3>2, <3>3
  <2>q. QED
    BY <2>1, <2>2, <2>3, <2>4, <2>5, <2>6, <2>7
<1>4. \A i \in 1..Len(ThreadOf[m]) : ~Pending(ThreadOf[m][i])
  BY <1>3, NotAsking
<1>5. ASSUME m \in Stops, NEW i \in 1..Len(ThreadOf[m])
      PROVE  /\ \/ module'[m] \in {"stop", "mark", "wake", "join", "result"} /\ i < nth'[m]
                \/ module'[m] = "result" /\ i = nth'[m]
                => thread[ThreadOf[m][i]] = "dead"
             /\ module'[m] = "unloaded" => thread[ThreadOf[m][i]] \in Gone
  <2>1. /\ \/ module[m] \in {"stop", "mark", "wake", "join", "result"} /\ i < nth[m]
           \/ module[m] = "result" /\ i = nth[m]
           => thread[ThreadOf[m][i]] = "dead"
    BY <1>5 DEF IInv, Stopped
  <2>2. CASE Unload(m)
    BY <1>5, <2>2 DEF Unload, Goto, IInv, Types
  <2>3. CASE UnloadLed(m)
    BY <1>5, <2>3 DEF UnloadLed
  <2>4. CASE Stop(m)
    BY <1>1, <2>1, <2>4 DEF Stop, Current, Goto, IInv, Types
  <2>5. CASE Mark(m)
    BY <1>1, <2>1, <2>5 DEF Mark, Goto, IInv, Types
  <2>6. CASE WakeStopped(m)
    BY <1>1, <2>1, <2>6 DEF WakeStopped, Goto, IInv, Types
  <2>7. CASE Join(m)
    BY <1>1, <2>1, <2>7 DEF Join, Current, Goto, IInv, Types
  <2>8. CASE Result(m)
    BY <1>1, <2>1, <2>8 DEF Result, NextThread, Goto, IInv, Types, Gone
  <2>q. QED
    BY <2>2, <2>3, <2>4, <2>5, <2>6, <2>7, <2>8
<1>q. QED
  BY <1>2, <1>3, <1>4, <1>5, ModuleStep

LEMMA KickStep == ASSUME NEW m \in Module PROVE IInv /\ Kick(m) => IInv'
<1> SUFFICES ASSUME IInv, Kick(m) PROVE IInv'
  OBVIOUS
<1>1. /\ module[m] = "kick" /\ module' = [module EXCEPT ![m] = "wait"]
      /\ UNCHANGED <<kernel, threads, nth>>
  BY DEF Kick, Goto
<1>2. \A t : (Pending(t)' <=> Pending(t)) /\ (Listed(t)' <=> Listed(t))
  BY <1>1 DEF Pending, Listed, kernel
<1>3. Types'
  BY <1>1 DEF IInv, Types, Labels, kernel, threads
<1>4. Requests'
  BY <1>1, <1>2 DEF IInv, Requests, Distinct, kernel, threads
<1>5. Asked' /\ Stopped'
  BY <1>1, <1>2, KthreadAssumption DEF IInv, Asked, Stopped, Types, threads
<1>q. QED
  BY <1>3, <1>4, <1>5 DEF IInv

-----------------------------------------------------------------------------

LEMMA IInvStep == IInv /\ [Next]_vars => IInv'
<1>1. IInv /\ UNCHANGED vars => IInv'
  <2> SUFFICES ASSUME IInv, UNCHANGED vars PROVE IInv'
    OBVIOUS
  <2>1. \A t : (Pending(t)' <=> Pending(t)) /\ (Listed(t)' <=> Listed(t))
    BY DEF vars, Pending, Listed
  <2>2. Types'
    BY DEF vars, IInv, Types
  <2>3. Requests'
    BY <2>1 DEF vars, IInv, Requests, Distinct
  <2>4. Asked' /\ Stopped'
    BY <2>1 DEF vars, IInv, Asked, Stopped
  <2>q. QED
    BY <2>2, <2>3, <2>4 DEF IInv
<1>2. IInv /\ Kthreadd => IInv'
  <2>1. IInv /\ (Top \/ Test \/ Schedule \/ Awake) => IInv'
    BY Moving DEF Top, Test, Schedule, Awake, threads, modules
  <2>q. QED
    BY <2>1, TakeStep, CreateStep DEF Kthreadd
<1>q. QED
  BY <1>1, <1>2, RunStep, LoadStep, RequestStep, KickStep, CreatedStep, StopStep
  DEF Next, InCall

LEMMA IInvHolds == Spec => []IInv
  BY IInvInit, IInvStep, PTL DEF Spec

\* The rest of TypeOK.
LEMMA TasksStep ==
  TypeOK /\ [Next]_vars =>
    /\ kthreadd' \in {"top", "test", "sleep", "awake", "take", "create"}
    /\ task' \in [Thread \cup {"kthreadd"} -> {"RUNNING", "SLEEPING"}]
<1> SUFFICES ASSUME TypeOK, [Next]_vars
             PROVE  /\ kthreadd' \in {"top", "test", "sleep", "awake", "take", "create"}
                    /\ task' \in [Thread \cup {"kthreadd"} -> {"RUNNING", "SLEEPING"}]
  OBVIOUS
<1> USE DEF TypeOK, Wake, kernel
<1>1. CASE UNCHANGED vars
  BY <1>1 DEF vars
<1>2. CASE Kthreadd
  BY <1>2 DEF Kthreadd, Top, Test, Schedule, Awake, Take, CreateKthread
<1>3. ASSUME NEW t \in Thread, Run(t)
      PROVE  /\ kthreadd' \in {"top", "test", "sleep", "awake", "take", "create"}
             /\ task' \in [Thread \cup {"kthreadd"} -> {"RUNNING", "SLEEPING"}]
  BY <1>3 DEF Run, Born, Start, Loop, Blink, Prepare, Sleep, Exit
<1>4. ASSUME NEW m \in Module, Load(m) \/ Unload(m) \/ UnloadLed(m) \/ InCall(m)
      PROVE  /\ kthreadd' \in {"top", "test", "sleep", "awake", "take", "create"}
             /\ task' \in [Thread \cup {"kthreadd"} -> {"RUNNING", "SLEEPING"}]
  BY <1>4 DEF Load, Unload, UnloadLed, InCall, Request, Kick, Created, Stop, Mark,
              WakeStopped, Join, Result
<1>q. QED
  BY <1>1, <1>2, <1>3, <1>4 DEF Next

LEMMA ShouldStopStep ==
  should_stop \in [Thread -> BOOLEAN] /\ [Next]_vars => should_stop' \in [Thread -> BOOLEAN]
<1> SUFFICES ASSUME should_stop \in [Thread -> BOOLEAN], [Next]_vars
             PROVE  should_stop' \in [Thread -> BOOLEAN]
  OBVIOUS
<1>1. CASE UNCHANGED should_stop
  BY <1>1
<1>2. ASSUME NEW m \in Module, Load(m) PROVE should_stop' \in [Thread -> BOOLEAN]
  <2>1. should_stop' = [t \in Thread |-> should_stop[t] /\ t \notin Own(m)]
    BY <1>2 DEF Load
  <2>q. QED
    BY <2>1, Zenon
<1>3. ASSUME NEW m \in Module, Mark(m) PROVE should_stop' \in [Thread -> BOOLEAN]
  <2>1. should_stop' = [should_stop EXCEPT ![Current(m)] = TRUE]
    BY <1>3 DEF Mark
  <2>q. QED
    BY <2>1, Zenon
<1>4. \/ UNCHANGED should_stop
      \/ \E m \in Module : Load(m) \/ Mark(m)
  BY DEF Next, vars, Kthreadd, Top, Test, Schedule, Awake, Take, CreateKthread, Run, Born,
         Start, Loop, Blink, Prepare, Sleep, Exit, Unload, UnloadLed, InCall, Request, Kick,
         Created, Stop, WakeStopped, Join, Result, threads
<1>q. QED
  BY <1>1, <1>2, <1>3, <1>4

LEMMA TypeOKInit == Init => TypeOK
<1> SUFFICES ASSUME Init PROVE TypeOK
  OBVIOUS
<1>1. should_stop \in [Thread -> BOOLEAN]
  BY Zenon DEF Init
<1>2. kthreadd = "top" /\ task \in [Thread \cup {"kthreadd"} -> {"RUNNING", "SLEEPING"}]
  BY DEF Init
<1>q. QED
  BY <1>1, <1>2, IInvInit DEF IInv, Types, Labels, TypeOK

\* Every variable keeps its type; above all the index of a module's thread its bounds.
THEOREM TypeCorrect == Spec => []TypeOK
<1>1. TypeOK /\ IInv' /\ [Next]_vars => TypeOK'
  BY TasksStep, ShouldStopStep DEF IInv, Types, Labels, TypeOK
<1>q. QED
  BY <1>1, TypeOKInit, IInvHolds, PTL DEF Spec

\* kthreadd creates a thread for one request at most, however many modules ask.
THEOREM OneThreadEach == Spec => []CreatedOnce
<1>1. IInv => CreatedOnce
  <2> SUFFICES ASSUME IInv PROVE CreatedOnce
    OBVIOUS
  <2>1. \A i \in 1..Len(kthread_create_list) :
          kthread_create_list[i] \in Thread /\ Listed(kthread_create_list[i])
    BY ElementOfSeq DEF IInv, Types, Listed
  <2>q. QED
    BY <2>1 DEF IInv, Types, Requests, Distinct, Pending, CreatedOnce
<1>q. QED
  BY <1>1, IInvHolds, PTL

\* When thread.c's exit has returned its threads are gone, wherever the stops met them.
THEOREM NoThreadLeft == Spec => []CodePresent
<1>1. IInv => CodePresent
  BY DEF IInv, Stopped, CodePresent, Own
<1>q. QED
  BY <1>1, IInvHolds, PTL

=============================================================================

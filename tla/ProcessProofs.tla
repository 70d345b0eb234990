---------------------------- MODULE ProcessProofs ----------------------------
(***************************************************************************)
(* Processes and tasks, with a process table of any size and any number of *)
(* addresses for them: as long as at most three programs run at a time,    *)
(* and launching one does not fail half way, the tasks are a stack, the    *)
(* top of which runs.                                                      *)
(*                                                                         *)
(* With a fourth program task_next no longer runs the launcher of one that *)
(* ended, and a task in the middle of the list may end: the model checker  *)
(* shows what then goes wrong.                                             *)
(*                                                                         *)
(* The second part allows launches that fail half way, and at most two     *)
(* programs at a time: whichever of the two ends, a live one runs on.      *)
(***************************************************************************)
EXTENDS Process, NumberFacts, TLAPS

\* The task of the process in slot i.
T(i) == task[processes[i]]

(***************************************************************************)
(* n programs run, each launched by the one in the slot before it: the     *)
(* slots, the task list in both directions and the launchers agree, and    *)
(* the last one runs.                                                      *)
(***************************************************************************)
Stack(n) ==
  /\ \A i \in Slots : processes[i] # NULL <=> i < n
  /\ \A i \in 0 .. (n - 1) :
       /\ processes[i] \in Procs
       /\ pid[processes[i]] = i
       /\ T(i) \in live
       /\ process[T(i)] = processes[i]
       /\ list.next[T(i)] = IF i = n - 1 THEN NULL ELSE T(i + 1)
       /\ list.prev[T(i)] = IF i = 0 THEN NULL ELSE T(i - 1)
       /\ launcher[T(i)] = IF i = 0 THEN NULL ELSE T(i - 1)
  /\ live = {T(i) : i \in 0 .. (n - 1)}

Top(n) ==
  IF n = 0
    THEN /\ list.head = NULL /\ list.tail = NULL /\ list.current = NULL
         /\ current_process = NULL \/ panicked
    ELSE /\ list.head = T(0) /\ list.tail = T(n - 1) /\ list.current = T(n - 1)
         /\ \E i \in 0 .. (n - 1) : current_process = processes[i]
         /\ ~panicked

\* The fourth slot and those after it are never used.
AtMostThree == \A i \in Slots : i > 2 => processes[i] = NULL

IInv == TypeOK /\ \E n \in 0 .. MaxProcesses : Stack(n) /\ Top(n)

-----------------------------------------------------------------------------
\* task_new at the tail of a list that is not empty.
LEMMA TaskNew ==
  ASSUME NEW l \in TaskList, NEW t \in Tasks,
         l.head # NULL, l.tail \in Tasks \ {t}
  PROVE  /\ task_new(l, t) \in TaskList
         /\ task_new(l, t).head = l.head
         /\ task_new(l, t).tail = t
         /\ task_new(l, t).current = l.current
         /\ task_new(l, t).next = [l.next EXCEPT ![t] = NULL, ![l.tail] = t]
         /\ task_new(l, t).prev = [l.prev EXCEPT ![t] = l.tail]
<1> DEFINE cleared == [l EXCEPT !.next[t] = NULL, !.prev[t] = NULL]
<1>1. /\ cleared \in TaskList
      /\ cleared.head = l.head /\ cleared.tail = l.tail
      /\ cleared.current = l.current
      /\ cleared.next = [l.next EXCEPT ![t] = NULL]
      /\ cleared.prev = [l.prev EXCEPT ![t] = NULL]
  BY DEF TaskList
<1> HIDE DEF cleared
<1>2. task_new(l, t) =
        [cleared EXCEPT !.next[l.tail] = t, !.prev[t] = l.tail, !.tail = t]
  BY DEF task_new, cleared
<1>3. /\ task_new(l, t) \in TaskList
      /\ task_new(l, t).head = cleared.head
      /\ task_new(l, t).tail = t
      /\ task_new(l, t).current = cleared.current
      /\ task_new(l, t).next = [cleared.next EXCEPT ![l.tail] = t]
      /\ task_new(l, t).prev = [cleared.prev EXCEPT ![t] = l.tail]
  <2> DEFINE linked == [cleared EXCEPT !.next[l.tail] = t]
             back   == [linked EXCEPT !.prev[t] = l.tail]
  <2>1. /\ linked \in TaskList
        /\ linked.head = cleared.head /\ linked.current = cleared.current
        /\ linked.prev = cleared.prev
        /\ linked.next = [cleared.next EXCEPT ![l.tail] = t]
    BY <1>1 DEF TaskList
  <2>2. task_new(l, t) = [back EXCEPT !.tail = t]
    BY <1>2
  <2> HIDE DEF linked
  <2>3. /\ back \in TaskList
        /\ back.head = cleared.head /\ back.current = cleared.current
        /\ back.next = linked.next
        /\ back.prev = [cleared.prev EXCEPT ![t] = l.tail]
    BY <2>1 DEF TaskList
  <2> HIDE DEF back
  <2> QED
    BY <2>1, <2>2, <2>3 DEF TaskList
<1> QED
  BY <1>1, <1>3 DEF TaskList

\* task_new in an empty list: the task is its head, its tail and the current.
LEMMA TaskNewFirst ==
  ASSUME NEW l \in TaskList, NEW t \in Tasks, l.head = NULL
  PROVE  /\ task_new(l, t) \in TaskList
         /\ task_new(l, t).head = t
         /\ task_new(l, t).tail = t
         /\ task_new(l, t).current = t
         /\ task_new(l, t).next = [l.next EXCEPT ![t] = NULL]
         /\ task_new(l, t).prev = [l.prev EXCEPT ![t] = NULL]
BY DEF TaskList, task_new

\* task_list_remove of the tail, when the list has another task before it.
LEMMA RemoveTail ==
  ASSUME NEW l \in TaskList, NEW t \in Tasks, NEW before \in Tasks,
         l.tail = t, l.head # t, l.prev[t] = before, before # t
  PROVE  /\ task_list_remove(l, t) \in TaskList
         /\ task_list_remove(l, t).head = l.head
         /\ task_list_remove(l, t).tail = before
         /\ task_list_remove(l, t).next = [l.next EXCEPT ![before] = l.next[t]]
         /\ task_list_remove(l, t).prev = l.prev
         /\ task_list_remove(l, t).current =
              IF l.current # t THEN l.current
              ELSE IF l.next[t] = NULL THEN l.head ELSE l.next[t]
<1>1. before # NULL
  BY ProcessAssumption
<1> DEFINE l1 == IF l.prev[t] # NULL
                   THEN [l EXCEPT !.next[l.prev[t]] = l.next[t]] ELSE l
           l2 == IF t = l1.head THEN [l1 EXCEPT !.head = l1.next[t]] ELSE l1
           l3 == IF t = l2.tail THEN [l2 EXCEPT !.tail = l2.prev[t]] ELSE l2
           l4 == [l3 EXCEPT !.current = task_get_next(l3)]
<1>2. /\ l1 \in TaskList
      /\ l1.head = l.head /\ l1.tail = t /\ l1.current = l.current
      /\ l1.next = [l.next EXCEPT ![before] = l.next[t]]
      /\ l1.prev = l.prev
  <2>1. l1 = [l EXCEPT !.next[before] = l.next[t]]
    BY <1>1
  <2> HIDE DEF l1
  <2> QED
    BY <2>1 DEF TaskList
<1>3. task_list_remove(l, t) = IF t = l3.current THEN l4 ELSE l3
  BY Zenon DEF task_list_remove
<1> HIDE DEF l1
<1>4. /\ l3 \in TaskList
      /\ l3.head = l.head /\ l3.tail = before /\ l3.current = l.current
      /\ l3.next = l1.next /\ l3.prev = l.prev
  <2>1. l2 = l1
    BY <1>2
  <2> HIDE DEF l2
  <2>2. l3 = [l1 EXCEPT !.tail = before]
    BY <1>2, <2>1
  <2> HIDE DEF l3
  <2> QED
    BY <1>2, <2>2 DEF TaskList
<1> HIDE DEF l2, l3
<1>5. l3.current = t =>
        task_get_next(l3) = IF l.next[t] = NULL THEN l.head ELSE l.next[t]
  BY <1>2, <1>4 DEF task_get_next, TaskList
<1>6. l3.current = t =>
        /\ l4 \in TaskList
        /\ l4.head = l.head /\ l4.tail = before
        /\ l4.next = l1.next /\ l4.prev = l.prev
        /\ l4.current = IF l.next[t] = NULL THEN l.head ELSE l.next[t]
  BY <1>4, <1>5 DEF TaskList
<1> QED
  BY <1>2, <1>3, <1>4, <1>6

\* task_list_remove of the only task.
LEMMA RemoveOnly ==
  ASSUME NEW l \in TaskList, NEW t \in Tasks,
         l.tail = t, l.head = t, l.prev[t] = NULL, l.next[t] = NULL,
         l.current = t
  PROVE  task_list_remove(l, t) =
           [l EXCEPT !.head = NULL, !.tail = NULL, !.current = NULL]
BY DEF task_list_remove, task_get_next, TaskList

-----------------------------------------------------------------------------
\* The lowest free slot is the one after the stack.
LEMMA FreeSlot ==
  ASSUME NEW n \in 0 .. MaxProcesses, Stack(n), FreeSlots # {}
  PROVE  n < MaxProcesses /\ Lowest(FreeSlots) = n
<1>1. MaxProcesses \in Nat
  BY ProcessAssumption
<1>2. FreeSlots = {i \in Slots : i >= n}
  BY <1>1 DEF FreeSlots, Stack, Slots
<1>3. n < MaxProcesses
  BY <1>1, <1>2 DEF Slots
<1>4. n \in FreeSlots /\ \A j \in FreeSlots : n <= j
  BY <1>1, <1>2, <1>3 DEF Slots
<1>5. FreeSlots \subseteq Int
  BY <1>1, <1>2 DEF Slots
<1>6. \A i \in FreeSlots : (\A j \in FreeSlots : i <= j) => i = n
  BY <1>4, <1>5
<1> QED
  BY <1>3, <1>4, <1>6 DEF Lowest

\* process_switch_to_any takes slot 0 whenever that is in use.
LEMMA LowestZero ==
  ASSUME NEW m \in Nat
  PROVE  Lowest(0 .. m) = 0 /\ 0 \in 0 .. m
<1>1. 0 \in 0 .. m /\ \A j \in 0 .. m : 0 <= j
  OBVIOUS
<1>2. \A i \in 0 .. m : (\A j \in 0 .. m : i <= j) => i = 0
  BY <1>1
<1> QED
  BY <1>1, <1>2 DEF Lowest

\* The slots below n hold different processes, with different tasks.
LEMMA Distinct ==
  ASSUME NEW n \in 0 .. MaxProcesses, Stack(n)
  PROVE  /\ \A i, j \in 0 .. (n - 1) :
              i # j => processes[i] # processes[j] /\ T(i) # T(j)
         /\ \A i \in 0 .. (n - 1) : i \in Slots
BY ProcessAssumption DEF Stack, Slots

\* A new program on top of the stack.
LEMMA Push ==
  ASSUME NEW n \in 0 .. MaxProcesses, TypeOK, Stack(n), Top(n),
         ~panicked, UNCHANGED panicked,
         NEW p \in Procs, NEW t \in Tasks, process_load(p, t),
         current_process' = p,
         list' \in TaskList, list'.tail = t, list'.current = t,
         list'.head = IF n = 0 THEN t ELSE list.head,
         list'.next = IF n = 0 THEN [list.next EXCEPT ![t] = NULL]
                      ELSE [list.next EXCEPT ![t] = NULL, ![list.tail] = t],
         list'.prev = IF n = 0 THEN [list.prev EXCEPT ![t] = NULL]
                      ELSE [list.prev EXCEPT ![t] = list.tail]
  PROVE  IInv'
<1>1. MaxProcesses \in Nat /\ NULL \notin Tasks /\ NULL \notin Procs
  BY ProcessAssumption
<1>2. n < MaxProcesses /\ Lowest(FreeSlots) = n /\ n \in Slots
  BY <1>1, FreeSlot DEF process_load, Slots
<1>3. /\ live' = live \cup {t} /\ t \notin live
      /\ process' = [process EXCEPT ![t] = p]
      /\ task' = [task EXCEPT ![p] = t]
      /\ pid' = [pid EXCEPT ![p] = n]
      /\ processes' = [processes EXCEPT ![n] = p]
      /\ launcher' = [launcher EXCEPT ![t] = list.current]
      /\ p \notin {processes[i] : i \in Slots}
  BY <1>2 DEF process_load, Unreferenced
<1>4. TypeOK'
  <2>1. list.current \in Tasks \cup {NULL}
    BY DEF TypeOK, TaskList
  <2> QED
    BY <1>2, <1>3, <2>1 DEF TypeOK
<1>5. /\ processes \in [Slots -> Procs \cup {NULL}]
      /\ task \in [Procs -> Tasks \cup {NULL}] /\ pid \in [Procs -> Slots]
      /\ process \in [Tasks -> Procs \cup {NULL}] /\ live \subseteq Tasks
      /\ launcher \in [Tasks -> Tasks \cup {NULL}]
      /\ list.next \in [Tasks -> Tasks \cup {NULL}]
      /\ list.prev \in [Tasks -> Tasks \cup {NULL}]
  BY DEF TypeOK, TaskList
<1>6. T(n)' = t /\ processes'[n] = p /\ pid'[p] = n /\ process'[t] = p
  BY <1>2, <1>3, <1>5 DEF T
<1>7. \A i \in 0 .. (n - 1) :
        /\ i \in Slots /\ processes[i] \in Procs \ {p}
        /\ processes'[i] = processes[i]
        /\ T(i)' = T(i) /\ T(i) \in live /\ T(i) # t /\ T(i) \in Tasks
        /\ pid'[processes'[i]] = i
        /\ process'[T(i)'] = processes'[i]
        /\ launcher'[T(i)'] = launcher[T(i)]
  BY <1>1, <1>2, <1>3, <1>5, Distinct DEF T, Stack
<1>8. \A i \in 0 .. (n - 1) :
        /\ list'.prev[T(i)'] = list.prev[T(i)]
        /\ i # n - 1 => list'.next[T(i)'] = list.next[T(i)]
        /\ i = n - 1 => list'.next[T(i)'] = t
  <2> SUFFICES ASSUME NEW i \in 0 .. (n - 1)
               PROVE  /\ list'.prev[T(i)'] = list.prev[T(i)]
                      /\ i # n - 1 => list'.next[T(i)'] = list.next[T(i)]
                      /\ i = n - 1 => list'.next[T(i)'] = t
    OBVIOUS
  <2>1. n # 0 /\ n - 1 \in 0 .. (n - 1)
    OBVIOUS
  <2>2. list.tail = T(n - 1) /\ (i # n - 1 => T(i) # T(n - 1))
    BY <2>1, Distinct DEF Top
  <2> QED
    BY <1>5, <1>7, <2>1, <2>2
<1>9. /\ list'.next[t] = NULL
      /\ list'.prev[t] = IF n = 0 THEN NULL ELSE T(n - 1)
      /\ launcher'[t] = IF n = 0 THEN NULL ELSE T(n - 1)
  BY <1>1, <1>3, <1>5, <1>7 DEF Top
<1>10. Stack(n + 1)'
  <2>1. \A i \in Slots : processes'[i] # NULL <=> i < n + 1
    BY <1>1, <1>2, <1>3, <1>5 DEF Stack, Slots
  <2>2. \A i \in 0 .. (n - 1) :
          /\ processes'[i] \in Procs
          /\ pid'[processes'[i]] = i
          /\ T(i)' \in live'
          /\ process'[T(i)'] = processes'[i]
          /\ list'.next[T(i)'] = T(i + 1)'
          /\ list'.prev[T(i)'] = IF i = 0 THEN NULL ELSE T(i - 1)'
          /\ launcher'[T(i)'] = IF i = 0 THEN NULL ELSE T(i - 1)'
    <3> SUFFICES ASSUME NEW i \in 0 .. (n - 1)
        PROVE  /\ processes'[i] \in Procs
               /\ pid'[processes'[i]] = i
               /\ T(i)' \in live'
               /\ process'[T(i)'] = processes'[i]
               /\ list'.next[T(i)'] = T(i + 1)'
               /\ list'.prev[T(i)'] = IF i = 0 THEN NULL ELSE T(i - 1)'
               /\ launcher'[T(i)'] = IF i = 0 THEN NULL ELSE T(i - 1)'
      OBVIOUS
    <3>1. /\ list.next[T(i)] = IF i = n - 1 THEN NULL ELSE T(i + 1)
          /\ list.prev[T(i)] = IF i = 0 THEN NULL ELSE T(i - 1)
          /\ launcher[T(i)] = IF i = 0 THEN NULL ELSE T(i - 1)
      BY DEF Stack
    <3>2. /\ i # 0 => i - 1 \in 0 .. (n - 1)
          /\ i # n - 1 => i + 1 \in 0 .. (n - 1)
          /\ i = n - 1 => i + 1 = n
      OBVIOUS
    <3> QED
      BY <1>3, <1>6, <1>7, <1>8, <3>1, <3>2
  <2>3. /\ p \in Procs /\ t \in live'
        /\ n # 0 => T(n - 1)' = T(n - 1)
    BY <1>3, <1>7
  <2>4. live' = {T(i)' : i \in 0 .. ((n + 1) - 1)}
    <3>1. live = {T(i) : i \in 0 .. (n - 1)}
      BY DEF Stack
    <3>2. 0 .. ((n + 1) - 1) = (0 .. (n - 1)) \cup {n}
      OBVIOUS
    <3> QED
      BY <1>3, <1>6, <1>7, <3>1, <3>2
  <2>5. \A i \in 0 .. ((n + 1) - 1) : i \in 0 .. (n - 1) \/ i = n
    OBVIOUS
  <2>6. \A i \in 0 .. (n - 1) : i # (n + 1) - 1
    OBVIOUS
  <2>7. ASSUME NEW i \in 0 .. ((n + 1) - 1)
        PROVE  /\ processes'[i] \in Procs
               /\ pid'[processes'[i]] = i
               /\ T(i)' \in live'
               /\ process'[T(i)'] = processes'[i]
               /\ list'.next[T(i)'] = IF i = (n + 1) - 1 THEN NULL ELSE T(i + 1)'
               /\ list'.prev[T(i)'] = IF i = 0 THEN NULL ELSE T(i - 1)'
               /\ launcher'[T(i)'] = IF i = 0 THEN NULL ELSE T(i - 1)'
    <3>1. CASE i \in 0 .. (n - 1)
      BY <2>2, <2>6, <3>1
    <3>2. CASE i = n
      BY <1>6, <1>9, <2>3, <3>2
    <3> QED
      BY <2>5, <3>1, <3>2
  <2> QED
    BY <2>1, <2>4, <2>7 DEF Stack
<1>11. Top(n + 1)'
  <2>1. n # 0 => list'.head = T(0)'
    BY <1>7 DEF Top
  <2> QED
    BY <1>6, <2>1 DEF Top
<1>12. PICK m \in 0 .. MaxProcesses : m = n + 1
  BY <1>1, <1>2
<1>13. Stack(m)' /\ Top(m)'
  BY <1>10, <1>11, <1>12
<1> QED
  BY <1>4, <1>13 DEF IInv

\* A load that fails after task_new leaves the stack as it was: task_free
\* takes the new task off the list again.
LEMMA MapFailsIdle ==
  ASSUME NEW n \in 0 .. MaxProcesses, TypeOK, Stack(n), Top(n), MapFails
  PROVE  IInv'
<1>1. NULL \notin Tasks /\ NULL \notin Procs /\ MaxProcesses \in Nat
  BY ProcessAssumption
<1>2. PICK t \in Tasks \ live : list' = task_list_remove(task_new(list, t), t)
  BY DEF MapFails
<1>3. n # 0 /\ n - 1 \in 0 .. (n - 1) /\ 0 \in 0 .. (n - 1)
  BY DEF MapFails, UserMode, Top
<1>4. UNCHANGED <<live, process, processes, task, pid, current_process, panicked,
                  launcher>>
  BY DEF MapFails
<1>5. \A i \in 0 .. (n - 1) : T(i) \in live /\ T(i) # t /\ T(i) \in Tasks
  BY DEF Stack, TypeOK
<1>6. PICK last \in Tasks : last = T(n - 1) /\ last # t
  BY <1>3, <1>5
<1>7. /\ list \in TaskList /\ list.head = T(0) /\ list.head # t
      /\ list.head # NULL /\ list.tail = last /\ list.current = last
      /\ list.next[last] = NULL
  BY <1>1, <1>3, <1>5, <1>6 DEF Top, Stack, TypeOK
<1>8. PICK l \in TaskList :
        /\ l = task_new(list, t)
        /\ l.head = list.head /\ l.tail = t /\ l.current = last
        /\ l.next = [list.next EXCEPT ![t] = NULL, ![last] = t]
        /\ l.prev = [list.prev EXCEPT ![t] = last]
  BY <1>2, <1>6, <1>7, TaskNew
<1>9. l.prev[t] = last /\ l.next[t] = NULL
  BY <1>2, <1>6, <1>8 DEF TaskList
<1>10. /\ list' \in TaskList
       /\ list'.head = list.head /\ list'.tail = last /\ list'.current = last
       /\ list'.next = [l.next EXCEPT ![last] = NULL]
       /\ list'.prev = l.prev
  <2>1. list' = task_list_remove(l, t)
    BY <1>2, <1>8
  <2>2. /\ t \in Tasks
        /\ l.tail = t /\ l.head # t /\ l.prev[t] = last /\ last # t
        /\ l.current # t
    BY <1>6, <1>7, <1>8, <1>9
  <2>3. /\ task_list_remove(l, t) \in TaskList
        /\ task_list_remove(l, t).head = l.head
        /\ task_list_remove(l, t).tail = last
        /\ task_list_remove(l, t).next = [l.next EXCEPT ![last] = l.next[t]]
        /\ task_list_remove(l, t).prev = l.prev
        /\ task_list_remove(l, t).current = l.current
    BY <2>2, RemoveTail
  <2> QED
    BY <1>8, <1>9, <2>1, <2>3
<1>11. \A i \in 0 .. (n - 1) :
         /\ T(i)' = T(i)
         /\ list'.next[T(i)] = list.next[T(i)]
         /\ list'.prev[T(i)] = list.prev[T(i)]
  BY <1>2, <1>4, <1>5, <1>6, <1>7, <1>8, <1>10 DEF T, TaskList
<1>12. Stack(n)'
  <2>1. \A i \in 0 .. (n - 1) : (i # n - 1 => i + 1 \in 0 .. (n - 1))
                                /\ (i # 0 => i - 1 \in 0 .. (n - 1))
    OBVIOUS
  <2> QED
    BY <1>4, <1>11, <2>1 DEF Stack
<1>13. Top(n)'
  BY <1>3, <1>4, <1>6, <1>7, <1>10, <1>11 DEF Top
<1>14. TypeOK'
  BY <1>4, <1>10 DEF TypeOK
<1> QED
  BY <1>12, <1>13, <1>14 DEF IInv

-----------------------------------------------------------------------------
(***************************************************************************)
(* The program on top of the stack ends.  With at most three programs the  *)
(* task after the head, or the head itself, is the one under the top.      *)
(***************************************************************************)
LEMMA Pop ==
  ASSUME AtMostThree,
         NEW n \in 0 .. MaxProcesses, TypeOK, Stack(n), Top(n), Exit
  PROVE  /\ IInv'
         /\ n # 0 /\ live' = live \ {T(n - 1)}
         /\ n = 1 => panicked'
         /\ n # 1 => list'.current = T(n - 2)
<1>1. NULL \notin Tasks /\ NULL \notin Procs /\ MaxProcesses \in Nat
  BY ProcessAssumption
<1>2. n # 0 /\ n - 1 \in 0 .. (n - 1) /\ 0 \in 0 .. (n - 1) /\ ~panicked
  BY DEF Exit, UserMode, Top
<1>3. /\ processes \in [Slots -> Procs \cup {NULL}]
      /\ task \in [Procs -> Tasks \cup {NULL}] /\ pid \in [Procs -> Slots]
      /\ process \in [Tasks -> Procs \cup {NULL}] /\ live \subseteq Tasks
      /\ launcher \in [Tasks -> Tasks \cup {NULL}]
      /\ list \in TaskList
      /\ list.next \in [Tasks -> Tasks \cup {NULL}]
      /\ list.prev \in [Tasks -> Tasks \cup {NULL}]
  BY DEF TypeOK, TaskList
<1>4. \A i \in 0 .. (n - 1) :
        /\ i \in Slots /\ processes[i] \in Procs /\ T(i) \in Tasks
        /\ T(i) \in live /\ pid[processes[i]] = i
  BY <1>3, Distinct DEF Stack
<1>5. PICK t \in Tasks, p \in Procs :
        t = T(n - 1) /\ p = processes[n - 1] /\ task[p] = t /\ pid[p] = n - 1
  BY <1>2, <1>4 DEF T
<1>6. list.current = t /\ process[t] = p
  BY <1>2, <1>5 DEF Stack, Top
<1> DEFINE table == [processes EXCEPT ![n - 1] = NULL]
           left  == task_list_remove(list, t)
<1>7. /\ live' = live \ {t}
      /\ processes' = table
      /\ launcher' = [launcher EXCEPT ![t] = NULL]
      /\ IF current_process = p /\ Used(table) = {}
           THEN panicked' = TRUE /\ list' = left /\ UNCHANGED current_process
           ELSE /\ current_process' = process_unlink(table, p)
                /\ list' = task_switch(left, task_get_next(left))
                /\ UNCHANGED panicked
      /\ UNCHANGED <<process, task, pid>>
  BY <1>5, <1>6 DEF Exit
<1>8. Used(table) = 0 .. (n - 2)
  BY <1>1, <1>2, <1>3, <1>4 DEF Used, Slots, Stack
<1>9. /\ processes' \in [Slots -> Procs \cup {NULL}]
      /\ launcher' \in [Tasks -> Tasks \cup {NULL}]
      /\ \A i \in Slots : processes'[i] # NULL <=> i < n - 1
  BY <1>1, <1>2, <1>3, <1>7 DEF Stack, Slots
<1>10. \A i \in 0 .. (n - 2) :
         /\ i \in 0 .. (n - 1) /\ i # n - 1 /\ T(i) # t
         /\ processes'[i] = processes[i] /\ T(i)' = T(i)
         /\ launcher'[T(i)] = launcher[T(i)]
  <2>1. \A i \in 0 .. (n - 2) : i \in 0 .. (n - 1) /\ i # n - 1
    OBVIOUS
  <2>2. \A i \in 0 .. (n - 2) : T(i) # t /\ T(i) \in Tasks /\ i \in Slots
    BY <1>2, <1>4, <1>5, <2>1, Distinct
  <2> QED
    BY <1>3, <1>7, <2>1, <2>2 DEF T
<1>11. CASE n = 1
  <2>1. /\ list.head = t /\ list.tail = t /\ list.next[t] = NULL
        /\ list.prev[t] = NULL /\ current_process = p
    BY <1>2, <1>5, <1>11 DEF Top, Stack
  <2>2. /\ panicked' = TRUE /\ UNCHANGED current_process
        /\ list' = [list EXCEPT !.head = NULL, !.tail = NULL, !.current = NULL]
    <3>1. left = [list EXCEPT !.head = NULL, !.tail = NULL, !.current = NULL]
      BY <1>3, <1>6, <2>1, RemoveOnly
    <3>2. 0 .. (n - 2) = {}
      BY <1>11
    <3> HIDE DEF left, table
    <3>3. Used(table) = {}
      BY <1>8, <3>2
    <3> QED
      BY <1>7, <2>1, <3>1, <3>3
  <2>3. list' \in TaskList /\ list'.head = NULL /\ list'.tail = NULL
        /\ list'.current = NULL
    BY <1>3, <2>2 DEF TaskList
  <2>4. TypeOK'
    BY <1>3, <1>7, <1>9, <2>2, <2>3 DEF TypeOK
  <2>5. live' = {}
    BY <1>5, <1>7, <1>11 DEF Stack
  <2>6. Stack(0)'
    BY <1>9, <1>11, <2>5 DEF Stack
  <2>7. Top(0)'
    BY <2>2, <2>3 DEF Top
  <2>8. 0 \in 0 .. MaxProcesses
    BY <1>1
  <2> QED
    BY <1>5, <1>7, <1>11, <2>2, <2>4, <2>6, <2>7, <2>8 DEF IInv
<1>12. CASE n # 1
  <2>1. n - 2 \in 0 .. (n - 1) /\ n - 2 \in 0 .. (n - 2) /\ n \in 2 .. 3
    <3>1. PICK k \in 0 .. (n - 1) : k = n - 1
      BY <1>2
    <3>2. k \in Slots /\ processes[k] # NULL
      BY <1>1, <1>4, <3>1
    <3>3. ~ (k > 2)
      BY <3>2 DEF AtMostThree
    <3> QED
      BY <1>1, <1>2, <1>12, <3>1, <3>3
  <2>2. PICK before \in Tasks : before = T(n - 2) /\ before # t
    BY <1>4, <1>10, <2>1
  <2>3. /\ list.head = T(0) /\ T(0) \in Tasks /\ T(0) # t /\ list.tail = t
        /\ list.next[t] = NULL /\ list.prev[t] = before
    BY <1>2, <1>4, <1>5, <1>10, <1>12, <2>1, <2>2 DEF Top, Stack
  <2>4. /\ left \in TaskList
        /\ left.head = list.head /\ left.tail = before
        /\ left.next = [list.next EXCEPT ![before] = NULL]
        /\ left.prev = list.prev
        /\ left.current = list.head
    BY <1>3, <1>6, <2>2, <2>3, RemoveTail
  <2> HIDE DEF left
  <2>5. task_get_next(left) = before
    <3>1. CASE n = 2
      <4>1. before = list.head
        BY <2>2, <2>3, <3>1
      <4>2. left.next[left.current] = NULL
        BY <1>3, <2>4, <4>1
      <4> QED
        BY <2>4, <4>1, <4>2 DEF task_get_next
    <3>2. CASE n = 3
      <4>1. before = T(1) /\ 1 \in 0 .. (n - 1) /\ 0 # n - 1 /\ 0 + 1 = 1
        BY <2>2, <3>2
      <4>2. T(0) # before
        BY <1>2, <4>1, Distinct
      <4>3. list.next[T(0)] = T(1)
        BY <1>2, <4>1 DEF Stack
      <4>4. left.next[left.current] = before
        BY <1>3, <2>3, <2>4, <4>1, <4>2, <4>3
      <4> QED
        BY <1>1, <4>4 DEF task_get_next
    <3> QED
      BY <2>1, <3>1, <3>2
  <2>6. Used(table) # {} /\ Lowest(Used(table)) = 0
    <3>1. PICK m \in Nat : m = n - 2
      BY <2>1
    <3>2. Used(table) = 0 .. m
      BY <1>8, <3>1
    <3> HIDE DEF table
    <3>3. Lowest(0 .. m) = 0 /\ 0 \in 0 .. m
      BY LowestZero
    <3> QED
      BY <3>2, <3>3
  <2>7. /\ current_process' = process_unlink(table, p)
        /\ list' = task_switch(left, before)
        /\ ~panicked'
    BY <1>2, <1>7, <2>5, <2>6 DEF left
  <2>8. /\ list' \in TaskList
        /\ list'.head = list.head /\ list'.tail = before
        /\ list'.current = before
        /\ list'.next = [list.next EXCEPT ![before] = NULL]
        /\ list'.prev = list.prev
    BY <2>2, <2>4, <2>7 DEF task_switch, TaskList
  <2>9. \E i \in 0 .. (n - 2) : current_process' = processes'[i]
    <3>1. CASE current_process = p
      <4>1. current_process' = processes'[0]
        BY <1>7, <2>6, <2>7, <3>1 DEF process_unlink
      <4> QED
        BY <2>1, <4>1
    <3>2. CASE current_process # p
      <4>1. current_process' = current_process
        BY <2>7, <3>2 DEF process_unlink
      <4>2. PICK i \in 0 .. (n - 1) : current_process = processes[i]
        BY <1>2 DEF Top
      <4>3. i \in 0 .. (n - 2)
        BY <1>5, <3>2, <4>2
      <4> QED
        BY <1>10, <4>1, <4>2, <4>3
    <3> QED
      BY <3>1, <3>2
  <2>10. current_process' \in Procs
    BY <1>4, <1>10, <2>9
  <2>11. TypeOK'
    BY <1>3, <1>7, <1>9, <2>7, <2>8, <2>10 DEF TypeOK
  <2>12. PICK m \in 0 .. MaxProcesses : m = n - 1
    BY <1>1, <1>2
  <2>13. \A i \in 0 .. (n - 2) :
           list'.next[T(i)] = IF i = n - 2 THEN NULL ELSE T(i + 1)
    <3> SUFFICES ASSUME NEW i \in 0 .. (n - 2)
                 PROVE  list'.next[T(i)] = IF i = n - 2 THEN NULL ELSE T(i + 1)
      OBVIOUS
    <3>1. i \in 0 .. (n - 1) /\ T(i) \in Tasks
      BY <1>4, <1>10
    <3>2. CASE i = n - 2
      BY <1>3, <2>2, <2>8, <3>2
    <3>3. CASE i # n - 2
      <4>1. T(i) # before
        BY <2>1, <2>2, <3>1, <3>3, Distinct
      <4>2. list.next[T(i)] = T(i + 1)
        BY <1>10, <3>1 DEF Stack
      <4> QED
        BY <1>3, <2>8, <3>1, <3>3, <4>1, <4>2
    <3> QED
      BY <3>2, <3>3
  <2>14. Stack(m)'
    <3>1. m - 1 = n - 2
      BY <2>12
    <3>2. \A i \in 0 .. (n - 2) : (i # n - 2 => i + 1 \in 0 .. (n - 2))
                                  /\ (i # 0 => i - 1 \in 0 .. (n - 2))
      OBVIOUS
    <3>3. live' = {T(i) : i \in 0 .. (n - 2)}
      <4>1. live = {T(i) : i \in 0 .. (n - 1)}
        BY DEF Stack
      <4>2. 0 .. (n - 1) = (0 .. (n - 2)) \cup {n - 1}
        BY <1>2
      <4> QED
        BY <1>5, <1>7, <1>10, <4>1, <4>2
    <3>4. \A i \in 0 .. (n - 2) :
            /\ processes'[i] \in Procs
            /\ pid'[processes'[i]] = i
            /\ T(i) \in live'
            /\ process'[T(i)] = processes'[i]
            /\ list'.prev[T(i)] = IF i = 0 THEN NULL ELSE T(i - 1)
            /\ launcher'[T(i)] = IF i = 0 THEN NULL ELSE T(i - 1)
      BY <1>4, <1>7, <1>10, <2>8 DEF Stack
    <3> QED
      BY <1>9, <1>10, <2>12, <2>13, <3>1, <3>2, <3>3, <3>4 DEF Stack
  <2>15. Top(m)'
    <3>1. m # 0 /\ m - 1 = n - 2 /\ 0 \in 0 .. (n - 2)
      BY <2>1, <2>12
    <3> QED
      BY <1>10, <2>1, <2>2, <2>3, <2>7, <2>8, <2>9, <3>1 DEF Top
  <2> QED
    BY <1>2, <1>5, <1>7, <1>12, <2>2, <2>8, <2>11, <2>14, <2>15 DEF IInv
<1> QED
  BY <1>11, <1>12

-----------------------------------------------------------------------------
LEMMA InitStack == Init => IInv
<1> SUFFICES ASSUME Init PROVE IInv
  OBVIOUS
<1>1. MaxProcesses \in Nat \ {0}
  BY ProcessAssumption
<1>2. TypeOK
  <2>1. list \in TaskList
    BY DEF Init, TaskList
  <2>2. pid \in [Procs -> Slots] /\ processes \in [Slots -> Procs \cup {NULL}]
    BY <1>1 DEF Init, Slots
  <2> QED
    BY <2>1, <2>2 DEF Init, TypeOK
<1>3. Stack(0) /\ Top(0)
  BY <1>1 DEF Init, Stack, Top, Slots
<1> QED
  BY <1>1, <1>2, <1>3 DEF IInv

\* kernel_main loads the first program, and runs the head of the list.
LEMMA BootShellPushes ==
  ASSUME IInv, BootShell
  PROVE  IInv'
<1>1. PICK n \in 0 .. MaxProcesses : Stack(n) /\ Top(n)
  BY DEF IInv
<1>2. n = 0
  <2>1. \A i \in 0 .. (n - 1) : processes[i] \in Procs
    BY <1>1 DEF Stack
  <2> QED
    BY <1>1, <2>1, ProcessAssumption DEF BootShell, Top
<1>3. TypeOK /\ list \in TaskList /\ list.head = NULL
  BY <1>1, <1>2 DEF IInv, TypeOK, Top
<1>4. PICK p \in Procs, t \in Tasks :
        /\ process_load(p, t)
        /\ current_process' = p
        /\ list' = task_switch(task_new(list, t), task_new(list, t).head)
  BY DEF BootShell
<1>5. /\ list' \in TaskList /\ list'.tail = t /\ list'.current = t
      /\ list'.head = t
      /\ list'.next = [list.next EXCEPT ![t] = NULL]
      /\ list'.prev = [list.prev EXCEPT ![t] = NULL]
  <2>1. PICK l \in TaskList :
          /\ l = task_new(list, t)
          /\ l.head = t /\ l.tail = t
          /\ l.next = [list.next EXCEPT ![t] = NULL]
          /\ l.prev = [list.prev EXCEPT ![t] = NULL]
    BY <1>3, TaskNewFirst
  <2>2. list' = [l EXCEPT !.current = t]
    BY <1>4, <2>1 DEF task_switch
  <2> QED
    BY <2>1, <2>2 DEF TaskList
<1>6. ~panicked /\ UNCHANGED panicked
  BY DEF BootShell
<1> QED
  BY <1>1, <1>2, <1>3, <1>4, <1>5, <1>6, Push

\* process_load_switch and task_switch put the new program on top.
LEMMA LaunchPushes ==
  ASSUME IInv, Launch
  PROVE  IInv'
<1>1. PICK n \in 0 .. MaxProcesses : Stack(n) /\ Top(n)
  BY DEF IInv
<1>2. n # 0 /\ n - 1 \in 0 .. (n - 1) /\ 0 \in 0 .. (n - 1)
  BY <1>1 DEF Launch, UserMode, Top
<1>3. TypeOK /\ list \in TaskList /\ live \subseteq Tasks
  BY <1>1 DEF IInv, TypeOK
<1>4. PICK p \in Procs, t \in Tasks :
        /\ process_load(p, t)
        /\ current_process' = p
        /\ list' = task_switch(task_new(list, t), t)
  BY DEF Launch
<1>5. list.head # NULL /\ list.tail \in Tasks \ {t}
  <2>1. /\ list.head = T(0) /\ list.tail = T(n - 1)
        /\ T(0) \in live /\ T(n - 1) \in live
    BY <1>1, <1>2 DEF Stack, Top
  <2> QED
    BY <1>3, <1>4, <2>1, ProcessAssumption DEF process_load
<1>6. /\ list' \in TaskList /\ list'.tail = t /\ list'.current = t
      /\ list'.head = list.head
      /\ list'.next = [list.next EXCEPT ![t] = NULL, ![list.tail] = t]
      /\ list'.prev = [list.prev EXCEPT ![t] = list.tail]
  <2>1. PICK l \in TaskList :
          /\ l = task_new(list, t)
          /\ l.head = list.head /\ l.tail = t
          /\ l.next = [list.next EXCEPT ![t] = NULL, ![list.tail] = t]
          /\ l.prev = [list.prev EXCEPT ![t] = list.tail]
    BY <1>3, <1>5, TaskNew
  <2>2. list' = [l EXCEPT !.current = t]
    BY <1>4, <2>1 DEF task_switch
  <2> QED
    BY <2>1, <2>2 DEF TaskList
<1>7. ~panicked /\ UNCHANGED panicked
  BY DEF Launch, UserMode
<1> QED
  BY <1>1, <1>2, <1>3, <1>4, <1>6, <1>7, Push

\* Steps that change no process and no task.
LEMMA IdleKeepsStack ==
  ASSUME IInv, UNCHANGED vars
  PROVE  IInv'
BY DEF IInv, TypeOK, Stack, Top, T, vars

LEMMA BootFailsKeepsStack ==
  ASSUME IInv, BootFails
  PROVE  IInv'
<1>1. PICK n \in 0 .. MaxProcesses : Stack(n) /\ Top(n)
  BY DEF IInv
<1>2. n = 0
  <2>1. \A i \in 0 .. (n - 1) : processes[i] \in Procs
    BY <1>1 DEF Stack
  <2> QED
    BY <1>1, <2>1, ProcessAssumption DEF BootFails, Top
<1>3. Stack(n)' /\ Top(n)'
  BY <1>1, <1>2 DEF BootFails, Stack, Top, T
<1>4. TypeOK'
  BY DEF IInv, BootFails, TypeOK
<1> QED
  BY <1>3, <1>4 DEF IInv

LEMMA NextStack ==
  ASSUME ~InjectMayFail, AtMostThree, IInv, [Next]_vars
  PROVE  IInv'
<1>1. PICK n \in 0 .. MaxProcesses : Stack(n) /\ Top(n)
  BY DEF IInv
<1>2. TypeOK
  BY DEF IInv
<1>3. CASE MapFails
  BY <1>1, <1>2, <1>3, MapFailsIdle
<1>4. CASE Exit
  BY <1>1, <1>2, <1>4, Pop
<1>5. CASE LoadFails \/ Halted \/ UNCHANGED vars
  BY <1>5, IdleKeepsStack DEF LoadFails, Halted
<1>6. ~LaunchWithoutArguments
  BY DEF LaunchWithoutArguments
<1> QED
  BY <1>3, <1>4, <1>5, <1>6, BootShellPushes, BootFailsKeepsStack, LaunchPushes
  DEF Next

-----------------------------------------------------------------------------
(***************************************************************************)
(* With at most three programs at a time, whatever is launched, fails to   *)
(* load and ends, the programs are a stack: slots of the process table,    *)
(* links of the task list and launchers agree, and the top runs.           *)
(***************************************************************************)
THEOREM ProcessInductive ==
  ASSUME ~InjectMayFail
  PROVE  Spec /\ []AtMostThree => []IInv
<1>1. Init => IInv
  BY InitStack
<1>2. IInv /\ AtMostThree /\ [Next]_vars => IInv'
  BY NextStack
<1> QED
  BY <1>1, <1>2, PTL DEF Spec

\* The list, the tables and the two current pointers keep their types.
THEOREM ProcessTypeOK ==
  ASSUME ~InjectMayFail
  PROVE  Spec /\ []AtMostThree => []TypeOK
<1>1. IInv => TypeOK
  BY DEF IInv
<1> QED
  BY <1>1, ProcessInductive, PTL

(***************************************************************************)
(* What the scheduler reaches from task_head along next are all the tasks, *)
(* in the order of the slots, and task_tail is the last (task.c).          *)
(***************************************************************************)
THEOREM NoTaskIsLost ==
  ASSUME ~InjectMayFail
  PROVE  Spec /\ []AtMostThree => []NoTaskLost
<1>1. IInv => NoTaskLost
  <2> SUFFICES ASSUME IInv, live # {}
               PROVE  \E n \in 1 .. MaxProcesses : \E s \in [1 .. n -> live] :
                        /\ live = {s[i] : i \in 1 .. n}
                        /\ list.head = s[1]
                        /\ list.tail = s[n]
                        /\ \A i \in 1 .. n :
                             list.next[s[i]] = IF i = n THEN NULL ELSE s[i + 1]
    BY DEF NoTaskLost
  <2>1. PICK n \in 0 .. MaxProcesses : Stack(n) /\ Top(n)
    BY DEF IInv
  <2>2. n \in 1 .. MaxProcesses /\ n # 0
    BY <2>1 DEF Stack
  <2>3. PICK s : s = [i \in 1 .. n |-> T(i - 1)]
    OBVIOUS
  <2>4. \A i \in 1 .. n : i - 1 \in 0 .. (n - 1) /\ s[i] = T(i - 1)
    BY <2>3
  <2>5. s \in [1 .. n -> live]
    BY <2>1, <2>3, <2>4 DEF Stack
  <2>6. live = {s[i] : i \in 1 .. n}
    <3>1. \A i \in 0 .. (n - 1) : i + 1 \in 1 .. n /\ T(i) = s[i + 1]
      BY <2>3
    <3>2. live = {T(i) : i \in 0 .. (n - 1)}
      BY <2>1 DEF Stack
    <3> QED
      BY <2>4, <3>1, <3>2
  <2>7. list.head = s[1] /\ list.tail = s[n]
    BY <2>1, <2>2, <2>3 DEF Top
  <2>8. \A i \in 1 .. n : list.next[s[i]] = IF i = n THEN NULL ELSE s[i + 1]
    <3> SUFFICES ASSUME NEW i \in 1 .. n
                 PROVE  list.next[s[i]] = IF i = n THEN NULL ELSE s[i + 1]
      OBVIOUS
    <3>1. PICK k \in 0 .. (n - 1) : k = i - 1 /\ s[i] = T(k)
      BY <2>4
    <3>2. list.next[T(k)] = IF k = n - 1 THEN NULL ELSE T(k + 1)
      BY <2>1 DEF Stack
    <3>3. i # n => i + 1 \in 1 .. n /\ s[i + 1] = T(i)
      BY <2>3
    <3> QED
      BY <3>1, <3>2, <3>3
  <2> QED
    BY <2>2, <2>5, <2>6, <2>7, <2>8
<1> QED
  BY <1>1, ProcessInductive, PTL

(***************************************************************************)
(* At most three programs end in the order in which task_list_remove does  *)
(* no harm: only the tail leaves the list.  That is why prev, which it     *)
(* never updates, is still what it takes it for.                           *)
(***************************************************************************)
THEOREM TailLeaves ==
  ASSUME ~InjectMayFail
  PROVE  Spec /\ []AtMostThree => OnlyTailLeaves /\ []PrevIsPrevious
<1>1. IInv => PrevIsPrevious
  <2> SUFFICES ASSUME IInv, NEW t \in live
               PROVE  IF t = list.head
                        THEN list.prev[t] = NULL
                        ELSE /\ list.prev[t] \in live
                             /\ list.next[list.prev[t]] = t
    BY DEF PrevIsPrevious
  <2>1. PICK n \in 0 .. MaxProcesses : Stack(n) /\ Top(n)
    BY DEF IInv
  <2>2. PICK i \in 0 .. (n - 1) : t = T(i)
    BY <2>1 DEF Stack
  <2>3. n # 0 /\ 0 \in 0 .. (n - 1) /\ list.head = T(0)
    BY <2>1, <2>2 DEF Top
  <2>4. list.prev[t] = IF i = 0 THEN NULL ELSE T(i - 1)
    BY <2>1, <2>2 DEF Stack
  <2>5. CASE i = 0
    BY <2>2, <2>3, <2>4, <2>5
  <2>6. CASE i # 0
    <3>1. PICK k \in 0 .. (n - 1) : k = i - 1 /\ k # n - 1 /\ k + 1 = i
      BY <2>6
    <3>2. T(k) \in live /\ list.next[T(k)] = T(k + 1)
      BY <2>1, <3>1 DEF Stack
    <3>3. t # list.head
      BY <2>1, <2>2, <2>3, <2>6, Distinct
    <3> QED
      BY <2>2, <2>4, <2>6, <3>1, <3>2, <3>3
  <2> QED
    BY <2>5, <2>6
<1> DEFINE Leaves == \A t \in live \ live' : t = list.tail
<1>2. IInv /\ AtMostThree /\ [Next]_vars => [Leaves]_vars
  <2> SUFFICES ASSUME IInv, AtMostThree, Next PROVE Leaves
    OBVIOUS
  <2>1. PICK n \in 0 .. MaxProcesses : Stack(n) /\ Top(n)
    BY DEF IInv
  <2>2. ASSUME Exit PROVE Leaves
    <3>1. n # 0 /\ live' = live \ {T(n - 1)}
      BY <2>1, <2>2, Pop DEF IInv
    <3>2. list.tail = T(n - 1)
      BY <2>1, <3>1 DEF Top
    <3> QED
      BY <3>1, <3>2
  <2>3. ASSUME live \subseteq live' PROVE Leaves
    BY <2>3
  <2> HIDE DEF Leaves
  <2> QED
    BY <2>2, <2>3
    DEF Next, BootShell, BootFails, Launch, LaunchWithoutArguments, LoadFails,
        MapFails, Halted, process_load, vars
<1>3. Spec /\ []AtMostThree => [][Leaves]_vars
  BY <1>2, ProcessInductive, PTL DEF Spec
<1>4. Spec /\ []AtMostThree => []PrevIsPrevious
  BY <1>1, ProcessInductive, PTL
<1> QED
  BY <1>3, <1>4 DEF OnlyTailLeaves

\* The task that runs is allocated and belongs to a process in the table.
THEOREM RunningIsLive ==
  ASSUME ~InjectMayFail
  PROVE  Spec /\ []AtMostThree => []RunningLive
<1>1. IInv => RunningLive
  <2> SUFFICES ASSUME IInv, UserMode
               PROVE  /\ list.current \in live
                      /\ \E i \in Slots :
                           /\ processes[i] = process[list.current]
                           /\ pid[processes[i]] = i
                           /\ task[processes[i]] = list.current
    BY DEF RunningLive
  <2>1. PICK n \in 0 .. MaxProcesses : Stack(n) /\ Top(n)
    BY DEF IInv
  <2>2. PICK i \in 0 .. (n - 1) : i = n - 1 /\ list.current = T(i)
    BY <2>1 DEF UserMode, Top
  <2>3. /\ T(i) \in live /\ process[T(i)] = processes[i]
        /\ pid[processes[i]] = i /\ i \in Slots
    BY <2>1, Distinct DEF Stack
  <2> QED
    BY <2>2, <2>3 DEF T
<1> QED
  BY <1>1, ProcessInductive, PTL

\* What is typed goes to a process in the table (process_unlink).
THEOREM FocusIsLive ==
  ASSUME ~InjectMayFail
  PROVE  Spec /\ []AtMostThree => []FocusLive
<1>1. IInv => FocusLive
  <2> SUFFICES ASSUME IInv, UserMode
               PROVE  \E i \in Slots : processes[i] = current_process
    BY DEF FocusLive
  <2>1. PICK n \in 0 .. MaxProcesses : Stack(n) /\ Top(n)
    BY DEF IInv
  <2>2. PICK i \in 0 .. (n - 1) : current_process = processes[i]
    BY <2>1 DEF UserMode, Top
  <2> QED
    BY <2>1, <2>2, Distinct
<1> QED
  BY <1>1, ProcessInductive, PTL

(***************************************************************************)
(* When a program ends, task_next, which moves on from the task to which   *)
(* task_list_remove already moved, runs the program that launched it.      *)
(***************************************************************************)
THEOREM LauncherResumes ==
  ASSUME ~InjectMayFail
  PROVE  Spec /\ []AtMostThree => ResumesLauncher
<1> DEFINE Resumes ==
      \A t \in live \ live' : ~panicked' => list'.current = launcher[t]
<1>1. IInv /\ AtMostThree /\ [Next]_vars => [Resumes]_vars
  <2> SUFFICES ASSUME IInv, AtMostThree, Next PROVE Resumes
    OBVIOUS
  <2>1. PICK n \in 0 .. MaxProcesses : Stack(n) /\ Top(n)
    BY DEF IInv
  <2>2. ASSUME Exit PROVE Resumes
    <3>1. /\ n # 0 /\ live' = live \ {T(n - 1)}
          /\ n = 1 => panicked'
          /\ n # 1 => list'.current = T(n - 2)
      BY <2>1, <2>2, Pop DEF IInv
    <3>2. (n - 1 \in 0 .. (n - 1) /\ n - 1 # 0) \/ n = 1
      BY <3>1
    <3>3. n # 1 => launcher[T(n - 1)] = T((n - 1) - 1)
      BY <2>1, <3>2 DEF Stack
    <3>4. (n - 1) - 1 = n - 2
      OBVIOUS
    <3> QED
      BY <3>1, <3>3, <3>4
  <2>3. ASSUME live \subseteq live' PROVE Resumes
    BY <2>3
  <2> HIDE DEF Resumes
  <2> QED
    BY <2>2, <2>3
    DEF Next, BootShell, BootFails, Launch, LaunchWithoutArguments, LoadFails,
        MapFails, Halted, process_load, vars
<1>2. Spec /\ []AtMostThree => [][Resumes]_vars
  BY <1>1, ProcessInductive, PTL DEF Spec
<1> QED
  BY <1>2 DEF ResumesLauncher

-----------------------------------------------------------------------------
(***************************************************************************)
(* A launch that fails at its arguments leaves the caller running in front *)
(* of the new program.  While at most two programs run at a time either    *)
(* may then end first.  The one in front has no task before it, whatever   *)
(* its prev says: task_list_remove leaves prev of the next task as it was, *)
(* and it may be the address of a task that came later.                    *)
(***************************************************************************)
AtMostTwo == \A i \in Slots : i > 1 => processes[i] = NULL

OneTask(a) ==
  /\ live = {a}
  /\ list.head = a /\ list.tail = a /\ list.current = a
  /\ list.next[a] \in {NULL, a}

TwoTasks(a, b) ==
  /\ a # b /\ live = {a, b}
  /\ list.head = a /\ list.tail = b /\ list.current \in live
  /\ list.next[a] = b /\ list.next[b] = NULL
  /\ list.prev[b] = a

\* Tasks and processes of the table belong together, and a program has the
\* focus.
Matched ==
  /\ \A t \in live : /\ process[t] \in Procs
                     /\ task[process[t]] = t
                     /\ processes[pid[process[t]]] = process[t]
  /\ \A i \in Slots : processes[i] # NULL =>
       \E t \in live : processes[i] = process[t] /\ pid[process[t]] = i
  /\ \E t \in live : current_process = process[t]

NoProgram ==
  /\ current_process = NULL
  /\ live = {} /\ list.head = NULL /\ list.tail = NULL /\ list.current = NULL
  /\ \A i \in Slots : processes[i] = NULL

\* The inductive invariant for two programs.
JInv ==
  /\ TypeOK
  /\ \/ panicked
     \/ NoProgram
     \/ /\ Matched
        /\ \E a, b \in Tasks : OneTask(a) \/ TwoTasks(a, b)

\* task_list_remove gives a task list, whatever the list holds.
LEMMA RemoveType ==
  ASSUME NEW l \in TaskList, NEW t \in Tasks
  PROVE  task_list_remove(l, t) \in TaskList
<1> DEFINE l1 == IF l.prev[t] # NULL
                   THEN [l EXCEPT !.next[l.prev[t]] = l.next[t]] ELSE l
           l2 == IF t = l1.head THEN [l1 EXCEPT !.head = l1.next[t]] ELSE l1
           l3 == IF t = l2.tail THEN [l2 EXCEPT !.tail = l2.prev[t]] ELSE l2
<1>1. l1 \in TaskList
  BY DEF TaskList
<1> HIDE DEF l1
<1>2. l2 \in TaskList
  BY <1>1 DEF TaskList
<1> HIDE DEF l2
<1>3. l3 \in TaskList
  BY <1>2 DEF TaskList
<1>4. task_list_remove(l, t)
        = IF t = l3.current THEN [l3 EXCEPT !.current = task_get_next(l3)] ELSE l3
  BY Zenon DEF task_list_remove, l1, l2
<1> HIDE DEF l3
<1>5. t = l3.current => task_get_next(l3) \in Tasks \cup {NULL}
  BY <1>3 DEF TaskList, task_get_next
<1> QED
  BY <1>3, <1>4, <1>5 DEF TaskList

\* task_list_remove of the first of two tasks, with any prev.
LEMMA RemoveHead ==
  ASSUME NEW l \in TaskList, NEW a \in Tasks, NEW b \in Tasks, a # b,
         l.head = a, l.tail = b, l.current = a, l.next[a] = b, l.next[b] = NULL
  PROVE  LET left == task_list_remove(l, a) IN
         /\ left.head = b /\ left.tail = b /\ left.current = b
         /\ left.next[b] \in {NULL, b}
<1> DEFINE l1 == IF l.prev[a] # NULL
                   THEN [l EXCEPT !.next[l.prev[a]] = l.next[a]] ELSE l
           l2 == IF a = l1.head THEN [l1 EXCEPT !.head = l1.next[a]] ELSE l1
           l3 == IF a = l2.tail THEN [l2 EXCEPT !.tail = l2.prev[a]] ELSE l2
           l4 == [l3 EXCEPT !.current = task_get_next(l3)]
<1>1. b # NULL /\ a # NULL
  BY ProcessAssumption
<1>2. /\ l1 \in TaskList
      /\ l1.head = a /\ l1.tail = b /\ l1.current = a
      /\ l1.next[a] = b /\ l1.next[b] \in {NULL, b}
  BY DEF TaskList
<1>3. task_list_remove(l, a) = IF a = l3.current THEN l4 ELSE l3
  BY Zenon DEF task_list_remove
<1> HIDE DEF l1
<1>4. /\ l2 \in TaskList
      /\ l2.head = b /\ l2.tail = b /\ l2.current = a
      /\ l2.next[a] = b /\ l2.next[b] \in {NULL, b}
  BY <1>2 DEF TaskList
<1> HIDE DEF l2
<1>5. l3 = l2
  BY <1>4
<1> HIDE DEF l3
<1>6. task_get_next(l3) = b
  BY <1>1, <1>4, <1>5 DEF task_get_next
<1>7. /\ l4.head = b /\ l4.tail = b /\ l4.current = b
      /\ l4.next = l3.next
  BY <1>4, <1>5, <1>6 DEF TaskList
<1> QED
  BY <1>3, <1>4, <1>5, <1>7

-----------------------------------------------------------------------------
\* Two programs fill the first two slots.
LEMMA TwoSlots ==
  ASSUME TypeOK, AtMostTwo, Matched,
         NEW a \in Tasks, NEW b \in Tasks, TwoTasks(a, b)
  PROVE  \A i \in FreeSlots : i > 1
<1>1. MaxProcesses \in Nat /\ NULL \notin Procs
  BY ProcessAssumption
<1> DEFINE i == pid[process[a]]
           j == pid[process[b]]
<1>2. /\ process[a] \in Procs /\ process[b] \in Procs
      /\ process[a] # process[b]
      /\ i \in Slots /\ j \in Slots
      /\ processes[i] = process[a] /\ processes[j] = process[b]
  BY DEF TwoTasks, Matched, TypeOK
<1> HIDE DEF i, j
<1>3. i # j /\ i \in {0, 1} /\ j \in {0, 1}
  BY <1>1, <1>2 DEF AtMostTwo, Slots
<1>4. \A k \in FreeSlots : k # i /\ k # j /\ k \in Nat
  BY <1>1, <1>2 DEF FreeSlots, Slots
<1> QED
  BY <1>3, <1>4

\* The slot that process_load_for_slot takes is free.
LEMMA LowestFree ==
  ASSUME FreeSlots # {}
  PROVE  Lowest(FreeSlots) \in FreeSlots
<1>1. FreeSlots \subseteq Nat
  BY ProcessAssumption DEF FreeSlots, Slots
<1>2. PICK m \in FreeSlots : \A k \in FreeSlots : m <= k
  BY <1>1, LeastNumber
<1> QED
  BY <1>2 DEF Lowest

\* No third program, while at most two run.
LEMMA NoThird ==
  ASSUME TypeOK, AtMostTwo, Matched,
         NEW a \in Tasks, NEW b \in Tasks, TwoTasks(a, b),
         NEW p \in Procs, NEW t \in Tasks, process_load(p, t)
  PROVE  ~AtMostTwo'
<1>1. PICK i \in FreeSlots : i = Lowest(FreeSlots)
  BY LowestFree DEF process_load
<1>2. i \in Slots /\ i > 1
  BY TwoSlots DEF FreeSlots
<1>3. processes'[i] = p
  BY <1>1, <1>2 DEF process_load, TypeOK
<1> QED
  BY <1>2, <1>3, ProcessAssumption DEF AtMostTwo, Slots

\* A program and its task, new in the table; which of them runs is the
\* caller's affair.
LEMMA LoadMatches ==
  ASSUME TypeOK, Matched \/ NoProgram,
         NEW p \in Procs, NEW t \in Tasks, process_load(p, t),
         current_process' = p, UNCHANGED panicked, list' \in TaskList
  PROVE  TypeOK' /\ Matched' /\ live' = live \cup {t} /\ t \notin live
<1>1. NULL \notin Procs /\ NULL \notin Tasks
  BY ProcessAssumption
<1>2. PICK i \in FreeSlots : i = Lowest(FreeSlots)
  BY LowestFree DEF process_load
<1>3. i \in Slots /\ processes[i] = NULL
  BY DEF FreeSlots
<1>4. /\ processes \in [Slots -> Procs \cup {NULL}]
      /\ task \in [Procs -> Tasks \cup {NULL}] /\ pid \in [Procs -> Slots]
      /\ process \in [Tasks -> Procs \cup {NULL}] /\ live \subseteq Tasks
      /\ launcher \in [Tasks -> Tasks \cup {NULL}]
      /\ list.current \in Tasks \cup {NULL}
  BY DEF TypeOK, TaskList
<1>5. /\ t \in Tasks \ live /\ live' = live \cup {t}
      /\ process' = [process EXCEPT ![t] = p]
      /\ task' = [task EXCEPT ![p] = t]
      /\ pid' = [pid EXCEPT ![p] = i]
      /\ processes' = [processes EXCEPT ![i] = p]
      /\ launcher' = [launcher EXCEPT ![t] = list.current]
  BY <1>2 DEF process_load
<1>6. /\ \A k \in Slots : processes[k] # p
      /\ \A u \in live : process[u] # p
  BY DEF process_load, Unreferenced
<1>7. TypeOK'
  <2>1. current_process' \in Procs \cup {NULL} /\ panicked' \in BOOLEAN
    BY DEF TypeOK
  <2> QED
    BY <1>3, <1>4, <1>5, <2>1 DEF TypeOK
<1>8. Matched'
  <2>1. /\ \A u \in live : /\ process[u] \in Procs
                           /\ task[process[u]] = u
                           /\ processes[pid[process[u]]] = process[u]
        /\ \A k \in Slots : processes[k] # NULL =>
             \E u \in live : processes[k] = process[u] /\ pid[process[u]] = k
    BY DEF Matched, NoProgram
  <2>2. process'[t] = p /\ task'[p] = t /\ pid'[p] = i /\ processes'[i] = p
    BY <1>3, <1>4, <1>5
  <2>3. ASSUME NEW u \in live
        PROVE  /\ u # t /\ process'[u] = process[u]
               /\ task'[process[u]] = u
               /\ pid'[process[u]] = pid[process[u]]
               /\ processes'[pid[process[u]]] = process[u]
    <3>1. process[u] # p /\ u \in Tasks /\ u # t /\ process[u] \in Procs
      BY <1>4, <1>5, <1>6, <2>1
    <3>2. pid[process[u]] # i /\ pid[process[u]] \in Slots
      BY <1>1, <1>3, <1>4, <2>1, <3>1
    <3> QED
      BY <1>4, <1>5, <2>1, <3>1, <3>2
  <2>4. ASSUME NEW k \in Slots, processes'[k] # NULL
        PROVE  \E u \in live' : processes'[k] = process'[u]
                                  /\ pid'[process'[u]] = k
    <3>1. CASE k = i
      BY <1>5, <2>2, <3>1
    <3>2. CASE k # i
      <4>1. processes'[k] = processes[k]
        BY <1>4, <1>5, <3>2
      <4>2. PICK u \in live : processes[k] = process[u] /\ pid[process[u]] = k
        BY <2>1, <2>4, <4>1
      <4> QED
        BY <1>5, <2>3, <4>1, <4>2
    <3> QED
      BY <3>1, <3>2
  <2> QED
    BY <1>5, <2>1, <2>2, <2>3, <2>4 DEF Matched
<1> QED
  BY <1>5, <1>7, <1>8

LEMMA BootFirst ==
  ASSUME JInv, BootShell
  PROVE  JInv'
<1>1. NULL \notin Procs /\ NULL \notin Tasks
  BY ProcessAssumption
<1>2. TypeOK /\ NoProgram /\ list \in TaskList
  BY <1>1 DEF JInv, BootShell, Matched, TypeOK
<1>3. PICK p \in Procs, t \in Tasks :
        /\ process_load(p, t)
        /\ current_process' = p
        /\ list' = task_switch(task_new(list, t), task_new(list, t).head)
  BY DEF BootShell
<1> DEFINE l == task_new(list, t)
<1>4. /\ l \in TaskList /\ l.head = t /\ l.tail = t /\ l.current = t
      /\ l.next[t] = NULL
  <2>1. list.head = NULL /\ list.next \in [Tasks -> Tasks \cup {NULL}]
    BY <1>2 DEF NoProgram, TaskList
  <2>2. /\ l \in TaskList /\ l.head = t /\ l.tail = t /\ l.current = t
        /\ l.next = [list.next EXCEPT ![t] = NULL]
    <3> HIDE DEF l
    <3>1. l = task_new(list, t)
      BY DEF l
    <3> QED
      BY <1>2, <2>1, <3>1, TaskNewFirst
  <2> HIDE DEF l
  <2> QED
    BY <2>1, <2>2
<1>5. list' = [l EXCEPT !.current = t]
  BY <1>3, <1>4 DEF task_switch
<1> HIDE DEF l
<1>6. /\ list' \in TaskList /\ list'.head = t /\ list'.tail = t
      /\ list'.current = t /\ list'.next[t] = NULL
  BY <1>4, <1>5 DEF TaskList
<1>7. TypeOK' /\ Matched' /\ live' = {t}
  BY <1>2, <1>3, <1>6, LoadMatches DEF BootShell, NoProgram
<1>8. OneTask(t)'
  BY <1>6, <1>7 DEF OneTask
<1> QED
  BY <1>7, <1>8 DEF JInv

\* A second program behind the first, whichever of them then runs.
LEMMA LoadSecond ==
  ASSUME JInv, ~panicked, AtMostTwo, AtMostTwo', UserMode,
         NEW p \in Procs, NEW t \in Tasks, process_load(p, t),
         current_process' = p, UNCHANGED panicked,
         \/ list' = task_switch(task_new(list, t), t)
         \/ list' = task_new(list, t)
  PROVE  JInv'
<1>1. NULL \notin Procs /\ NULL \notin Tasks
  BY ProcessAssumption
<1>2. TypeOK /\ list \in TaskList
  BY DEF JInv, TypeOK
<1>3. Matched /\ \E a, b \in Tasks : OneTask(a) \/ TwoTasks(a, b)
  BY DEF JInv, NoProgram, UserMode
<1>4. PICK a \in Tasks : OneTask(a)
  BY <1>2, <1>3, NoThird
<1>5. t # a
  BY <1>4 DEF OneTask, process_load
<1> DEFINE l == task_new(list, t)
<1>6. /\ l \in TaskList
      /\ l.head = list.head /\ l.tail = t /\ l.current = list.current
      /\ l.next = [list.next EXCEPT ![t] = NULL, ![list.tail] = t]
      /\ l.prev = [list.prev EXCEPT ![t] = list.tail]
  BY <1>1, <1>2, <1>4, <1>5, TaskNew DEF OneTask
<1>7. list' = l \/ list' = [l EXCEPT !.current = t]
  BY DEF task_switch
<1> HIDE DEF l
<1>8. /\ l.head = a /\ l.tail = t /\ l.current = a
      /\ l.next[a] = t /\ l.next[t] = NULL /\ l.prev[t] = a
  BY <1>2, <1>4, <1>5, <1>6 DEF OneTask, TaskList
<1>9. /\ list' \in TaskList
      /\ list'.head = a /\ list'.tail = t /\ list'.current \in {a, t}
      /\ list'.next[a] = t /\ list'.next[t] = NULL /\ list'.prev[t] = a
  BY <1>6, <1>7, <1>8 DEF TaskList
<1>10. TypeOK' /\ Matched' /\ live' = {a, t}
  <2>1. TypeOK' /\ Matched' /\ live' = live \cup {t}
    BY <1>2, <1>3, <1>9, LoadMatches
  <2> QED
    BY <1>4, <2>1 DEF OneTask
<1>11. TwoTasks(a, t)'
  BY <1>5, <1>9, <1>10 DEF TwoTasks
<1> QED
  BY <1>10, <1>11 DEF JInv

\* A load that is undone after task_new leaves the list as it was, but for
\* the fields of the task that never came.
LEMMA MapFailsTwo ==
  ASSUME JInv, MapFails
  PROVE  JInv'
<1>1. NULL \notin Procs /\ NULL \notin Tasks
  BY ProcessAssumption
<1>2. TypeOK /\ list \in TaskList
  BY DEF JInv, TypeOK
<1>3. Matched /\ \E a, b \in Tasks : OneTask(a) \/ TwoTasks(a, b)
  BY DEF JInv, NoProgram, UserMode, MapFails
<1>4. PICK t \in Tasks \ live : list' = task_list_remove(task_new(list, t), t)
  BY DEF MapFails
<1>5. UNCHANGED <<live, process, processes, task, pid, current_process, panicked,
                  launcher>>
  BY DEF MapFails
<1>6. PICK last \in Tasks : /\ last = list.tail /\ last \in live /\ last # t
                            /\ list.head # NULL /\ list.head # t
                            /\ list.current # t
  BY <1>1, <1>3, <1>4 DEF OneTask, TwoTasks
<1> DEFINE l == task_new(list, t)
<1>7. /\ l \in TaskList
      /\ l.head = list.head /\ l.tail = t /\ l.current = list.current
      /\ l.next = [list.next EXCEPT ![t] = NULL, ![last] = t]
      /\ l.prev = [list.prev EXCEPT ![t] = last]
  BY <1>2, <1>6, TaskNew
<1> HIDE DEF l
<1>8. l.prev[t] = last /\ l.next[t] = NULL
  BY <1>2, <1>6, <1>7 DEF TaskList
<1>9. /\ list' \in TaskList
      /\ list'.head = list.head /\ list'.tail = last
      /\ list'.current = list.current
      /\ list'.next = [l.next EXCEPT ![last] = NULL]
      /\ list'.prev = l.prev
  <2>1. list' = task_list_remove(l, t)
    BY <1>4 DEF l
  <2>2. /\ l \in TaskList /\ l.tail = t /\ l.head # t /\ l.prev[t] = last
        /\ l.current # t /\ l.next[t] = NULL
    BY <1>6, <1>7, <1>8
  <2>3. /\ list' \in TaskList
        /\ list'.head = l.head /\ list'.tail = last
        /\ list'.next = [l.next EXCEPT ![last] = l.next[t]]
        /\ list'.prev = l.prev /\ list'.current = l.current
    BY <1>6, <2>1, <2>2, RemoveTail
  <2> QED
    BY <1>7, <1>8, <2>3
<1>10. /\ list'.next[last] = NULL
       /\ \A u \in live : u # last => list'.next[u] = list.next[u]
       /\ \A u \in live : list'.prev[u] = list.prev[u]
  <2>1. live \subseteq Tasks /\ t \notin live
    BY <1>4 DEF JInv, TypeOK
  <2> QED
    BY <1>2, <1>6, <1>7, <1>9, <2>1 DEF TaskList
<1>11. TypeOK'
  BY <1>2, <1>5, <1>9 DEF TypeOK
<1>12. Matched'
  BY <1>3, <1>5 DEF Matched
<1>13. ASSUME NEW a \in Tasks, OneTask(a)
       PROVE  OneTask(a)'
  BY <1>5, <1>6, <1>9, <1>10, <1>13 DEF OneTask
<1>14. ASSUME NEW a \in Tasks, NEW b \in Tasks, TwoTasks(a, b)
       PROVE  TwoTasks(a, b)'
  BY <1>5, <1>6, <1>9, <1>10, <1>14 DEF TwoTasks
<1> QED
  BY <1>3, <1>11, <1>12, <1>13, <1>14 DEF JInv

\* The end of the only program: the kernel panics.
LEMMA ExitOne ==
  ASSUME JInv, Exit, NEW a \in Tasks, OneTask(a), Matched
  PROVE  JInv'
<1>1. NULL \notin Procs /\ NULL \notin Tasks
  BY ProcessAssumption
<1>2. TypeOK /\ list \in TaskList
  BY DEF JInv, TypeOK
<1> DEFINE p == process[a]
           table == [processes EXCEPT ![pid[p]] = NULL]
<1>3. list.current = a /\ p \in Procs /\ task[p] = a /\ current_process = p
  BY DEF OneTask, Matched
<1>4. Used(table) = {}
  <2> SUFFICES ASSUME NEW i \in Slots, table[i] # NULL
               PROVE  FALSE
    BY DEF Used
  <2>1. i # pid[p] /\ processes[i] # NULL
    BY <1>2 DEF TypeOK
  <2> QED
    BY <2>1 DEF Matched, OneTask
<1>5. /\ panicked' = TRUE /\ list' = task_list_remove(list, a)
      /\ live' = live \ {a} /\ processes' = table
      /\ launcher' = [launcher EXCEPT ![a] = NULL]
      /\ UNCHANGED <<process, task, pid, current_process>>
  BY <1>3, <1>4 DEF Exit
<1>6. list' \in TaskList
  BY <1>2, <1>5, RemoveType
<1> QED
  BY <1>2, <1>3, <1>5, <1>6 DEF JInv, TypeOK

\* The end of one of two programs: the other runs, and has the focus.
LEMMA ExitOther ==
  ASSUME JInv, Exit, Matched, NEW a \in Tasks, NEW b \in Tasks,
         TwoTasks(a, b)
  PROVE  JInv'
<1>1. NULL \notin Procs /\ NULL \notin Tasks
  BY ProcessAssumption
<1>2. TypeOK /\ list \in TaskList
  BY DEF JInv, TypeOK
<1>3. PICK c \in Tasks, o \in Tasks :
        /\ c # o /\ list.current = c /\ live = {c, o}
        /\ (c = a /\ o = b) \/ (c = b /\ o = a)
  BY DEF TwoTasks
<1> DEFINE p == process[c]
           q == process[o]
           left == task_list_remove(list, c)
           table == [processes EXCEPT ![pid[p]] = NULL]
<1>4. /\ p \in Procs /\ q \in Procs /\ p # q
      /\ task[p] = c /\ task[q] = o
      /\ processes[pid[p]] = p /\ processes[pid[q]] = q
      /\ pid[p] # pid[q]
      /\ current_process \in {p, q}
  BY <1>3 DEF Matched
<1>5. pid[p] \in Slots /\ pid[q] \in Slots
  BY <1>2, <1>4 DEF TypeOK
<1>6. table[pid[q]] = q /\ table \in [Slots -> Procs \cup {NULL}]
  BY <1>2, <1>4, <1>5 DEF TypeOK
<1>7. \A i \in Slots : table[i] # NULL => i = pid[q]
  <2> SUFFICES ASSUME NEW i \in Slots, table[i] # NULL
               PROVE  i = pid[q]
    OBVIOUS
  <2>1. i # pid[p] /\ processes[i] # NULL
    BY <1>2, <1>5 DEF TypeOK
  <2> QED
    BY <1>3, <2>1 DEF Matched
<1>8. Used(table) = {pid[q]}
  BY <1>1, <1>4, <1>5, <1>6, <1>7 DEF Used
<1>9. process_unlink(table, p) = q
  <2>1. Lowest({pid[q]}) = pid[q]
    BY <1>5, ProcessAssumption DEF Lowest, Slots
  <2> HIDE DEF table, p, q
  <2> QED
    BY <1>4, <1>6, <1>8, <2>1 DEF process_unlink
<1>10. /\ UNCHANGED panicked
       /\ list' = task_switch(left, task_get_next(left))
       /\ live' = live \ {c} /\ processes' = table
       /\ current_process' = q
       /\ launcher' = [launcher EXCEPT ![c] = NULL]
       /\ UNCHANGED <<process, task, pid>>
  BY <1>3, <1>4, <1>8, <1>9 DEF Exit
<1>11. /\ left \in TaskList
       /\ left.head = o /\ left.tail = o /\ left.current = o
       /\ left.next[o] \in {NULL, o}
  <2>1. left \in TaskList
    BY <1>2, RemoveType
  <2>2. CASE c = a /\ o = b
    BY <1>2, <1>3, <2>1, <2>2, RemoveHead DEF TwoTasks
  <2>3. CASE c = b /\ o = a
    <3>1. /\ list.tail = c /\ list.head # c /\ list.prev[c] = o
          /\ list.head = o /\ list.next[c] = NULL
      BY <1>3, <2>3 DEF TwoTasks
    <3>2. /\ left.head = o /\ left.tail = o /\ left.current = o
          /\ left.next = [list.next EXCEPT ![o] = NULL]
      BY <1>2, <1>3, <3>1, RemoveTail
    <3> QED
      BY <1>2, <2>1, <3>2 DEF TaskList
  <2> QED
    BY <1>3, <2>2, <2>3
<1> HIDE DEF left
<1>12. task_get_next(left) = o
  BY <1>1, <1>11 DEF task_get_next
<1>13. /\ list' \in TaskList
       /\ list'.head = o /\ list'.tail = o /\ list'.current = o
       /\ list'.next[o] \in {NULL, o}
  <2>1. list' = [left EXCEPT !.current = o]
    BY <1>10, <1>12 DEF task_switch
  <2> QED
    BY <1>11, <2>1 DEF TaskList
<1>14. live' = {o}
  BY <1>3, <1>10
<1>15. TypeOK'
  BY <1>2, <1>4, <1>6, <1>10, <1>13 DEF TypeOK
<1>16. Matched'
  <2> HIDE DEF table
  <2> QED
    BY <1>4, <1>6, <1>7, <1>10, <1>14 DEF Matched
<1>17. OneTask(o)'
  BY <1>13, <1>14 DEF OneTask
<1> QED
  BY <1>15, <1>16, <1>17 DEF JInv

-----------------------------------------------------------------------------
\* No step of at most two programs breaks the invariant, whether launches
\* fail at their arguments or not.
THEOREM TwoProgramsInductive == Spec /\ []AtMostTwo => []JInv
<1>1. Init => JInv
  BY InitStack DEF Init, JInv, IInv, NoProgram
<1>2. JInv /\ AtMostTwo /\ AtMostTwo' /\ [Next]_vars => JInv'
  <2> SUFFICES ASSUME JInv, AtMostTwo, AtMostTwo', [Next]_vars
               PROVE  JInv'
    OBVIOUS
  <2>1. CASE BootShell
    BY <2>1, BootFirst
  <2>2. CASE BootFails
    BY <2>2 DEF BootFails, JInv, TypeOK
  <2>3. CASE Launch
    BY <2>3, LoadSecond DEF Launch, UserMode
  <2>4. CASE LaunchWithoutArguments
    BY <2>4, LoadSecond DEF LaunchWithoutArguments, UserMode
  <2>5. CASE MapFails
    BY <2>5, MapFailsTwo
  <2>6. CASE Exit
    <3>1. Matched /\ \E a, b \in Tasks : OneTask(a) \/ TwoTasks(a, b)
      BY <2>6 DEF JInv, NoProgram, UserMode, Exit
    <3> QED
      BY <2>6, <3>1, ExitOne, ExitOther
  <2>7. CASE LoadFails \/ Halted \/ UNCHANGED vars
    BY <2>7 DEF LoadFails, Halted, vars, JInv, TypeOK, Matched, NoProgram,
                OneTask, TwoTasks
  <2> QED
    BY <2>1, <2>2, <2>3, <2>4, <2>5, <2>6, <2>7 DEF Next
<1> QED
  BY <1>1, <1>2, PTL DEF Spec

(***************************************************************************)
(* With at most two programs at a time, what runs is allocated and is in   *)
(* the process table, also after process_inject_arguments failed and the   *)
(* programs end in another order than they were started.                   *)
(***************************************************************************)
THEOREM RunningIsLiveAfterFailure == Spec /\ []AtMostTwo => []RunningLive
<1>1. JInv => RunningLive
  <2> SUFFICES ASSUME JInv, UserMode
               PROVE  /\ list.current \in live
                      /\ \E i \in Slots :
                           /\ processes[i] = process[list.current]
                           /\ pid[processes[i]] = i
                           /\ task[processes[i]] = list.current
    BY DEF RunningLive
  <2>1. Matched /\ \E a, b \in Tasks : OneTask(a) \/ TwoTasks(a, b)
    BY DEF JInv, NoProgram, UserMode
  <2>2. list.current \in live
    BY <2>1 DEF OneTask, TwoTasks
  <2>3. pid[process[list.current]] \in Slots
    BY <2>1, <2>2 DEF Matched, JInv, TypeOK
  <2> QED
    BY <2>1, <2>2, <2>3 DEF Matched
<1> QED
  BY <1>1, TwoProgramsInductive, PTL

\* And the process with the focus, which a failed launch moves to a program
\* that does not run, is in the table.
THEOREM FocusIsLiveAfterFailure == Spec /\ []AtMostTwo => []FocusLive
<1>1. JInv => FocusLive
  <2> SUFFICES ASSUME JInv, UserMode
               PROVE  \E i \in Slots : processes[i] = current_process
    BY DEF FocusLive
  <2>1. Matched
    BY DEF JInv, NoProgram, UserMode
  <2>2. PICK t \in live : current_process = process[t]
    BY <2>1 DEF Matched
  <2>3. pid[process[t]] \in Slots /\ processes[pid[process[t]]] = process[t]
    BY <2>1 DEF Matched, JInv, TypeOK
  <2> QED
    BY <2>2, <2>3
<1> QED
  BY <1>1, TwoProgramsInductive, PTL

=============================================================================

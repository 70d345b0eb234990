------------------------------- MODULE Process -------------------------------
(***************************************************************************)
(* Processes and tasks of boiOS: the process table and the focused process *)
(* of process.c, the linked list of tasks of task.c, and the system calls  *)
(* of isr80h/process.c that start and end programs.                        *)
(*                                                                         *)
(* Each process has one task.  The tasks are in a doubly linked list with  *)
(* a head and a tail; current_task is the one that runs.  There is no      *)
(* preemption: a task runs until it launches a program, which then runs in *)
(* its place, or until it exits or faults, and then task_next picks one.   *)
(* current_process is the process that gets what is typed.                 *)
(*                                                                         *)
(* Handlers run with interrupts off, so each system call and each          *)
(* exception is one step, from the trap to the return to user mode.        *)
(***************************************************************************)
EXTENDS Integers

CONSTANTS
  MaxProcesses,   \* BOIOS_MAX_PROCESSES
  Tasks,          \* addresses that a struct task may have
  Procs,          \* addresses that a struct process may have
  NULL,           \* the null pointer
  InjectMayFail   \* whether process_inject_arguments may run out of memory

ASSUME ProcessAssumption ==
  /\ MaxProcesses \in Nat \ {0}
  /\ NULL \notin Tasks \cup Procs
  /\ InjectMayFail \in BOOLEAN

VARIABLES
  list,              \* the task list: task_head, task_tail, current_task, and
                     \* the next and prev fields of every struct task
  live,              \* the tasks that are allocated
  process,           \* task->process
  processes,         \* the process table
  task,              \* process->task
  pid,               \* process->pid
  current_process,   \* the process that has the focus
  panicked,          \* the kernel called panic, and spins
  launcher           \* history: the task that launched a task

vars == <<list, live, process, processes, task, pid, current_process, panicked,
          launcher>>

-----------------------------------------------------------------------------
Slots == 0 .. (MaxProcesses - 1)

TaskList == [head : Tasks \cup {NULL}, tail : Tasks \cup {NULL},
             current : Tasks \cup {NULL},
             next : [Tasks -> Tasks \cup {NULL}],
             prev : [Tasks -> Tasks \cup {NULL}]]

\* Mutant of task_new: the new task does not point back.
task_new_without_prev(l, t) ==
  LET cleared == [l EXCEPT !.next[t] = NULL, !.prev[t] = NULL] IN
  IF l.head = NULL
    THEN [cleared EXCEPT !.head = t, !.tail = t, !.current = t]
    ELSE [cleared EXCEPT !.next[l.tail] = t, !.tail = t]

\* task_init clears the fields; then the task goes to the tail of the list.
\* The first task of an empty list becomes the current one too.
task_new(l, t) ==
  LET cleared == [l EXCEPT !.next[t] = NULL, !.prev[t] = NULL] IN
  IF l.head = NULL
    THEN [cleared EXCEPT !.head = t, !.tail = t, !.current = t]
    ELSE [cleared EXCEPT !.next[l.tail] = t, !.prev[t] = l.tail, !.tail = t]

task_get_next(l) ==
  IF l.next[l.current] = NULL THEN l.head ELSE l.next[l.current]

\* Mutant of task_list_remove: the previous task keeps its next.
task_list_remove_without_unlink(l, t) ==
  LET l2 == IF t = l.head THEN [l EXCEPT !.head = l.next[t]] ELSE l
      l3 == IF t = l2.tail THEN [l2 EXCEPT !.tail = l2.prev[t]] ELSE l2
  IN  IF t = l3.current THEN [l3 EXCEPT !.current = task_get_next(l3)] ELSE l3

\* Mutant of task_list_remove: current_task is not moved.
task_list_remove_keeps_current(l, t) ==
  LET l1 == IF l.prev[t] # NULL
              THEN [l EXCEPT !.next[l.prev[t]] = l.next[t]] ELSE l
      l2 == IF t = l1.head THEN [l1 EXCEPT !.head = l1.next[t]] ELSE l1
  IN  IF t = l2.tail THEN [l2 EXCEPT !.tail = l2.prev[t]] ELSE l2

(***************************************************************************)
(* The four ifs of task_list_remove, in order.  The prev of the next task  *)
(* is not updated.                                                         *)
(***************************************************************************)
task_list_remove(l, t) ==
  LET l1 == IF l.prev[t] # NULL
              THEN [l EXCEPT !.next[l.prev[t]] = l.next[t]] ELSE l
      l2 == IF t = l1.head THEN [l1 EXCEPT !.head = l1.next[t]] ELSE l1
      l3 == IF t = l2.tail THEN [l2 EXCEPT !.tail = l2.prev[t]] ELSE l2
  IN  IF t = l3.current THEN [l3 EXCEPT !.current = task_get_next(l3)] ELSE l3

task_switch(l, t) == [l EXCEPT !.current = t]

FreeSlots == {i \in Slots : processes[i] = NULL}

Used(table) == {i \in Slots : table[i] # NULL}

\* Mutant of Lowest: the loop runs down from the end of the table.
LowestFromEnd(S) == (CHOOSE i \in S : \A j \in S : i >= j) + 1

\* The lowest slot that satisfies a condition, as the loops over processes do.
Lowest(S) == CHOOSE i \in S : \A j \in S : i <= j

\* Mutant of process_unlink: the focus stays on the process that ended.
process_unlink_focus_stays(table, p) == current_process

\* The focus after p left the table: process_switch_to_any takes the first
\* process that is left.
process_unlink(table, p) ==
  IF current_process = p THEN table[Lowest(Used(table))] ELSE current_process

\* A struct process is never freed; one that nothing points to is as good
\* as fresh memory.
Unreferenced ==
  Procs \ ({processes[i] : i \in Slots} \cup {process[t] : t \in live}
             \cup {current_process})

(***************************************************************************)
(* process_load_for_slot, when every step succeeds: p in the table, and t, *)
(* its task, at the tail of the list.                                      *)
(***************************************************************************)
process_load(p, t) ==
  /\ FreeSlots # {}
  /\ p \in Unreferenced
  /\ t \in Tasks \ live
  /\ live' = live \cup {t}
  /\ process' = [process EXCEPT ![t] = p]
  /\ task' = [task EXCEPT ![p] = t]
  /\ pid' = [pid EXCEPT ![p] = Lowest(FreeSlots)]
  /\ processes' = [processes EXCEPT ![Lowest(FreeSlots)] = p]
  /\ launcher' = [launcher EXCEPT ![t] = list.current]

\* User code runs: the current task made a system call or faulted.
UserMode == current_process # NULL /\ ~panicked

-----------------------------------------------------------------------------
\* kernel_main: no process yet.
Init ==
  /\ list = [head |-> NULL, tail |-> NULL, current |-> NULL,
             next |-> [t \in Tasks |-> NULL], prev |-> [t \in Tasks |-> NULL]]
  /\ live = {}
  /\ process = [t \in Tasks |-> NULL]
  /\ processes = [i \in Slots |-> NULL]
  /\ task = [p \in Procs |-> NULL]
  /\ pid = [p \in Procs |-> 0]
  /\ current_process = NULL
  /\ panicked = FALSE
  /\ launcher = [t \in Tasks |-> NULL]

\* kernel_main loads the shell and runs it.
BootShell ==
  /\ current_process = NULL
  /\ ~panicked
  /\ \E p \in Procs, t \in Tasks :
       /\ process_load(p, t)
       /\ current_process' = p
       /\ list' = task_switch(task_new(list, t), task_new(list, t).head)
  /\ UNCHANGED panicked

\* kernel_main cannot load the shell.
BootFails ==
  /\ current_process = NULL
  /\ ~panicked
  /\ panicked' = TRUE
  /\ UNCHANGED <<list, live, process, processes, task, pid, current_process,
                 launcher>>

\* isr80h_command6 and 7: process_load_switch, then the new task runs.
Launch ==
  /\ UserMode
  /\ \E p \in Procs, t \in Tasks :
       /\ process_load(p, t)
       /\ current_process' = p
       /\ list' = task_switch(task_new(list, t), t)
  /\ UNCHANGED panicked

(***************************************************************************)
(* isr80h_command7, when process_inject_arguments fails: process_load_     *)
(* switch has given the focus to the new process already, its task is in   *)
(* the list, and the caller runs on with an error.                         *)
(***************************************************************************)
LaunchWithoutArguments ==
  /\ UserMode
  /\ InjectMayFail
  /\ \E p \in Procs, t \in Tasks :
       /\ process_load(p, t)
       /\ current_process' = p
       /\ list' = task_new(list, t)
  /\ UNCHANGED panicked

\* No slot, no file, or no memory before task_new: nothing changes.
LoadFails == UserMode /\ UNCHANGED vars

(***************************************************************************)
(* process_map_memory fails: task_free takes the new task, at the tail,    *)
(* out of the list again, and its memory keeps what task_new wrote.  The   *)
(* process never gets into the table.                                      *)
(***************************************************************************)
MapFails ==
  /\ UserMode
  /\ FreeSlots # {}
  /\ \E t \in Tasks \ live : list' = task_list_remove(task_new(list, t), t)
  /\ UNCHANGED <<live, process, processes, task, pid, current_process, panicked,
                 launcher>>

-----------------------------------------------------------------------------
(***************************************************************************)
(* process_terminate of the current task's process, then task_next: the    *)
(* body of isr80h_command9_exit and of idt_handle_exception.  task_free    *)
(* removes the task from the list, process_unlink clears the slot and      *)
(* moves the focus, and task_next runs the task after the current one.     *)
(***************************************************************************)
Exit ==
  LET p     == process[list.current]
      t     == task[p]
      left  == task_list_remove(list, t)
      table == [processes EXCEPT ![pid[p]] = NULL]
  IN
  /\ UserMode
  /\ live' = live \ {t}
  /\ processes' = table
  /\ launcher' = [launcher EXCEPT ![t] = NULL]
  /\ IF current_process = p /\ Used(table) = {}
       \* panic("No processes to switch to.\n")
       THEN /\ panicked' = TRUE
            /\ list' = left
            /\ UNCHANGED current_process
       ELSE /\ current_process' = process_unlink(table, p)
            /\ list' = task_switch(left, task_get_next(left))
            /\ UNCHANGED panicked
  /\ UNCHANGED <<process, task, pid>>

\* The kernel spins in panic, for ever.
Halted == panicked /\ UNCHANGED vars

Next ==
  \/ BootShell \/ BootFails
  \/ Launch \/ LaunchWithoutArguments \/ LoadFails \/ MapFails
  \/ Exit
  \/ Halted

Spec == Init /\ [][Next]_vars

-----------------------------------------------------------------------------
\* The task list has the shape of its C types.
TypeOK ==
  /\ list \in TaskList
  /\ live \subseteq Tasks
  /\ process \in [Tasks -> Procs \cup {NULL}]
  /\ processes \in [Slots -> Procs \cup {NULL}]
  /\ task \in [Procs -> Tasks \cup {NULL}]
  /\ pid \in [Procs -> Slots]
  /\ current_process \in Procs \cup {NULL}
  /\ panicked \in BOOLEAN
  /\ launcher \in [Tasks -> Tasks \cup {NULL}]

(***************************************************************************)
(* The tasks that the scheduler can reach from task_head along next are    *)
(* all the tasks there are, each once, and task_tail is the last of them:  *)
(* no exit, launch or failed launch loses a task or links a freed one.     *)
(***************************************************************************)
NoTaskLost ==
  live # {} =>
    \E n \in 1 .. MaxProcesses : \E s \in [1 .. n -> live] :
      /\ live = {s[i] : i \in 1 .. n}
      /\ list.head = s[1]
      /\ list.tail = s[n]
      /\ \A i \in 1 .. n : list.next[s[i]] = IF i = n THEN NULL ELSE s[i + 1]

(***************************************************************************)
(* "struct task* prev; // previous task" (task.h:33): prev points to the   *)
(* task whose next points back, and is null for the head.  task_list_      *)
(* remove relies on it.                                                    *)
(***************************************************************************)
PrevIsPrevious ==
  \A t \in live :
    IF t = list.head
      THEN list.prev[t] = NULL
      ELSE list.prev[t] \in live /\ list.next[list.prev[t]] = t

(***************************************************************************)
(* The task that leaves the list is the tail: what was launched last ends  *)
(* first, so that no task is left with a prev that points to a freed one,  *)
(* as task_list_remove would leave the task after one that it removed.     *)
(* Which task runs, and so ends, is what task_list_remove and task_next    *)
(* made of current_task at the exits before.                               *)
(***************************************************************************)
OnlyTailLeaves == [][\A t \in live \ live' : t = list.tail]_vars

(***************************************************************************)
(* "free task of the process" (process.c:208): a task that was freed does  *)
(* not run again.  The task that task_next enters is allocated, and it is  *)
(* the task of a process in the table.                                     *)
(***************************************************************************)
RunningLive ==
  UserMode =>
    /\ list.current \in live
    /\ \E i \in Slots : /\ processes[i] = process[list.current]
                         /\ pid[processes[i]] = i
                         /\ task[processes[i]] = list.current

(***************************************************************************)
(* The process with the focus is in the table: process_unlink moves the    *)
(* focus away from a process that ends, whichever order the processes came *)
(* and went in.                                                            *)
(***************************************************************************)
FocusLive ==
  UserMode => \E i \in Slots : processes[i] = current_process

(***************************************************************************)
(* When a program ends, the program that launched it runs on: the removal  *)
(* in task_free moves current_task, and task_next then moves it once more. *)
(***************************************************************************)
ResumesLauncher ==
  [][\A t \in live \ live' :
       ~panicked' => list'.current = launcher[t]]_vars

=============================================================================

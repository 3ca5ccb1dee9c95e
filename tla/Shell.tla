-------------------------------- MODULE Shell --------------------------------
(***************************************************************************)
(* Job control of the shell (apps/shell.c): commands in the foreground and  *)
(* in the background, the list of processes the shell has started, and the  *)
(* wait command.  The death of a child is an event in the mailbox of the    *)
(* shell, which reads it only when it waits; children die at any time, also *)
(* before the shell has entered them into its list.                         *)
(***************************************************************************)
EXTENDS Naturals, Sequences, SequencesExt, FiniteSets

CONSTANTS MaxProcs      \* bound: commands that are started

MaxProcsAssumption == MaxProcs \in Nat

VARIABLES
    procs,      \* the list of processes, the latest first
    sh,         \* what the shell does: at the prompt, in exec, in wait, gone
    started,    \* how many processes have been started; they are 1 .. started
    alive,      \* the children that run
    events      \* the mailbox of the shell: children that have died

vars == <<procs, sh, started, alive, events>>

All == 0        \* the argument of wait that stands for every process
At(mode, pid) == [mode |-> mode, pid |-> pid]
Prompt == At("prompt", All)

Init ==
    /\ procs = <<>> /\ sh = Prompt /\ started = 0
    /\ alive = {} /\ events = <<>>

-----------------------------------------------------------------------------
(* A command (parse).                                                       *)

\* The executable is found and started.  If it is not, nothing changes.
path_exec ==
    /\ sh = Prompt /\ started < MaxProcs
    /\ started' = started + 1
    /\ alive' = alive \cup {started + 1}
    /\ \E mode \in {"fore", "back"} : sh' = At(mode, started + 1)
    /\ UNCHANGED <<procs, events>>

\* The process is entered into the list, and the shell waits for it unless it
\* runs in the background.
AddProc ==
    /\ sh.mode \in {"fore", "back"}
    /\ procs' = <<sh.pid>> \o procs
    /\ sh' = IF sh.mode = "fore" THEN At("wait", sh.pid) ELSE Prompt
    /\ UNCHANGED <<started, alive, events>>

\* Mutated form: a number that is not in the list is waited for.
AnyNumber(pid) == sh = Prompt /\ sh' = At("wait", pid) /\ UNCHANGED <<procs, started, alive, events>>

\* The wait command: for one process of the list, or for all.
wait(pid) ==
    /\ sh = Prompt
    /\ IF pid = All THEN procs # <<>> ELSE Contains(procs, pid)
    /\ sh' = At("wait", pid)
    /\ UNCHANGED <<procs, started, alive, events>>

exit ==
    /\ sh = Prompt
    /\ sh' = At("gone", All) /\ events' = <<>>
    /\ UNCHANGED <<procs, started, alive>>

\* One round of the loop of wait: whoever has died leaves the list.
WaitRound ==
    /\ sh.mode = "wait" /\ events # <<>>
    /\ procs' = SelectSeq(procs, LAMBDA p : p # Head(events))
    /\ events' = Tail(events)
    /\ sh' = IF Head(events) = sh.pid \/ (sh.pid = All /\ procs' = <<>>) THEN Prompt ELSE sh
    /\ UNCHANGED <<started, alive>>

-----------------------------------------------------------------------------
(* The children.  The kernel sends the event to the owner, if it is there.  *)
proc_died(p) ==
    /\ p \in alive
    /\ alive' = alive \ {p}
    /\ events' = IF sh.mode = "gone" THEN events ELSE Append(events, p)
    /\ UNCHANGED <<procs, sh, started>>

\* The rest of the machine goes on while the shell waits and when it is gone.
Elsewhere == sh.mode \in {"wait", "gone"} /\ UNCHANGED vars

Next ==
    \/ path_exec \/ AddProc \/ exit \/ WaitRound \/ Elsewhere
    \/ \E pid \in 0 .. MaxProcs : wait(pid)
    \/ \E p \in alive : proc_died(p)

\* The shell runs when it can; children need not end.
Spec == Init /\ [][Next]_vars /\ WF_vars(AddProc) /\ WF_vars(WaitRound)

-----------------------------------------------------------------------------
(* Properties.                                                              *)

Pending == alive \cup ToSet(events)

\* The list has exactly the children whose death the shell has not read yet,
\* each once, except the one that is just being started (parse, wait).
ListExact ==
    sh.mode # "gone" =>
       /\ ToSet(procs) = Pending \ (IF sh.mode \in {"fore", "back"} THEN {sh.pid} ELSE {})
       /\ Cardinality(ToSet(procs)) = Len(procs)

\* The shell leaves a wait only when the process it waits for, or every
\* process it had started, is dead (wait).
WaitsForDeath ==
    [][sh.mode = "wait" /\ sh'.mode = "prompt" =>
          IF sh.pid = All THEN alive = {} ELSE sh.pid \notin alive]_vars

\* Once what the shell waits for is dead the prompt comes back, whatever died
\* before and whichever waits have read the events in the meantime (wait).
PromptReturns ==
    (sh.mode = "wait" /\ (IF sh.pid = All THEN alive = {} ELSE sh.pid \notin alive))
       ~> sh.mode # "wait"
=============================================================================

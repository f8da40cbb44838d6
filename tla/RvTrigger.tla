------------------------------ MODULE RvTrigger ------------------------------
(***************************************************************************)
(* contrib/p550/rvtrigger/rvtrace-trigger.c: the kernel module that has    *)
(* the debug triggers of every CPU emit a trace SYNC at given addresses.   *)
(* The firmware (SBI DBTR) owns the triggers; module and firmware share a  *)
(* buffer per CPU.  The hotplug core calls the module for one CPU after    *)
(* the other, so one callback runs at a time, one step per SBI call.       *)
(* Every call may be refused.                                              *)
(***************************************************************************)
EXTENDS Integers, Sequences, FiniteSets

CONSTANTS
    Cpus, Buffers,      \* the CPUs, and the memory kzalloc_node hands out
    Params,             \* values of the parameter addrs: sequences of names
    Parsed, Symbol,     \* what kstrtoul and kallsyms_lookup_name return for a name:
                        \* an error number, or 0 for a name that is a number; the
                        \* address of a symbol, or 0
    NumTriggers,        \* triggers of type 6 a CPU has
    NULL

ASSUME TriggerAssumption ==
    /\ NumTriggers \in Nat /\ IsFiniteSet(Cpus) /\ NULL \notin Buffers
    /\ Params \subseteq Seq(DOMAIN Parsed)
    /\ Parsed \in [DOMAIN Parsed -> Nat] /\ Symbol \in [DOMAIN Parsed -> Nat]

VARIABLES
    module,             \* what the hotplug core does for the module
    resolved_addrs,     \* per name of addrs; 0: not resolved
    online, up,         \* the CPUs online, and those rvtrigger_cpu_online has set up
    pc, cpu,            \* the callback: its next step, and its CPU
    shmem_msgs,         \* per CPU
    heap,               \* allocated memory
    shmem, trig,        \* firmware, per CPU: the shared buffer, and the triggers
    lost,               \* history: memory the firmware has refused to give back
    uncleared,          \* history: CPUs where the last 'Uninstall all' was incomplete,
    unstopped           \* and where a later call on the triggers was refused

hotplug == <<module, resolved_addrs, online, up>>
memory == <<shmem_msgs, heap, lost>>
firmware == <<shmem, trig>>
history == <<uncleared, unstopped>>
vars == <<hotplug, pc, cpu, memory, firmware, history>>

Idx == 0 .. NumTriggers - 1
Free == [addr |-> 0, on |-> FALSE]

\* A trigger somebody else has left behind.
Stale == [addr |-> 1, on |-> TRUE]

Init == /\ module = "out" /\ resolved_addrs = << >>
        /\ online = Cpus /\ up = {}
        /\ pc = "none" /\ cpu = NULL
        /\ shmem_msgs = [c \in Cpus |-> NULL] /\ heap = {} /\ lost = {}
        /\ shmem = [c \in Cpus |-> NULL]
        /\ trig = [c \in Cpus |-> [i \in Idx |-> IF i = 0 THEN Stale ELSE Free]]
        /\ uncleared = {} /\ unstopped = {}

-----------------------------------------------------------------------------
\* The names that were resolved, trig_idx when the loop over addrs comes to the
\* i-th, and the address of the message with that index.
Resolved == { i \in DOMAIN resolved_addrs : resolved_addrs[i] # 0 }
trig_idx(i) == Cardinality({ j \in Resolved : j < i })
trig_set == { trig_idx(i) : i \in Resolved }
tdata2(t) == resolved_addrs[CHOOSE i \in Resolved : trig_idx(i) = t]

\* The firmware refuses a call that would have stopped or shown the triggers.
Refuses == unstopped' = unstopped \cup {cpu} /\ UNCHANGED uncleared

Goto(label) == pc' = label /\ UNCHANGED cpu
Returns == pc' = "none" /\ cpu' = NULL
SetTrig(t) == trig' = [trig EXCEPT ![cpu] = t]

\* The callback returns.
Succeeds == /\ Returns
            /\ up' = up \cup {cpu} /\ online' = online \cup {cpu}
            /\ UNCHANGED <<module, resolved_addrs>>
\* mutant: a CPU that failed to start is tried again
FailsAgain == Returns /\ UNCHANGED hotplug
\* A CPU that fails to start is not online: a failure while the module is
\* loaded undoes the CPUs done before, and the load.
Fails == /\ Returns
         /\ module' = IF module = "setup" THEN "remove" ELSE module
         /\ UNCHANGED <<resolved_addrs, online, up>>

-----------------------------------------------------------------------------
(***************************************************************************)
(* rvtrigger_cpu_online.                                                   *)
(***************************************************************************)
Alloc == /\ pc = "alloc"
         /\ \/ Fails /\ UNCHANGED memory
            \/ \E b \in Buffers \ heap :
                 /\ heap' = heap \cup {b}
                 /\ shmem_msgs' = [shmem_msgs EXCEPT ![cpu] = b]
                 /\ Goto("set_shmem")
                 /\ UNCHANGED <<lost, hotplug>>
         /\ UNCHANGED <<firmware, history>>

SetShmem == /\ pc = "set_shmem"
            /\ \/ /\ shmem' = [shmem EXCEPT ![cpu] = shmem_msgs[cpu]]
                  /\ Goto("uninstall_all") /\ UNCHANGED history
               \/ Goto("free") /\ UNCHANGED <<shmem, history>>
            /\ UNCHANGED <<hotplug, memory, trig>>

\* mutant: what is installed is left alone
UninstallNone == /\ pc = "uninstall_all"
                 /\ Goto("install") /\ uncleared' = uncleared \ {cpu}
                 /\ unstopped' = unstopped \ {cpu}
                 /\ UNCHANGED <<hotplug, memory, firmware>>
\* One call per trigger; the results are ignored.
UninstallAll == /\ pc = "uninstall_all"
                /\ \E kept \in SUBSET { i \in Idx : trig[cpu][i] # Free } :
                     /\ SetTrig([i \in Idx |-> IF i \in kept THEN trig[cpu][i] ELSE Free])
                     /\ uncleared' = IF kept = {} THEN uncleared \ {cpu} ELSE uncleared \cup {cpu}
                     /\ unstopped' = unstopped \ {cpu}
                /\ Goto("install")
                /\ UNCHANGED <<hotplug, memory, shmem>>

\* The firmware takes the first triggers that are free, one for each message.
FreeTriggers == { i \in Idx : trig[cpu][i] = Free }
FreeBelow(i) == Cardinality({ j \in FreeTriggers : j < i })

Install == /\ pc = "install"
           /\ \/ /\ Cardinality(Resolved) <= Cardinality(FreeTriggers)
                 /\ SetTrig([i \in Idx |->
                                IF i \in FreeTriggers /\ FreeBelow(i) \in trig_set
                                   THEN [addr |-> tdata2(FreeBelow(i)), on |-> FALSE]
                                   ELSE trig[cpu][i]])
                 /\ Goto("enable") /\ UNCHANGED history
              \/ Goto("free") /\ UNCHANGED <<trig, history>>
           /\ UNCHANGED <<hotplug, memory, shmem>>

\* Triggers that are installed are switched on or off.
Switched(s, on) == [i \in Idx |-> IF i \in s /\ trig[cpu][i] # Free
                                     THEN [trig[cpu][i] EXCEPT !.on = on] ELSE trig[cpu][i]]

Enable == /\ pc = "enable"
          /\ \/ SetTrig(Switched(trig_set, TRUE)) /\ Goto("read") /\ UNCHANGED history
             \/ \E some \in SUBSET trig_set :
                  SetTrig(Switched(some, TRUE)) /\ Goto("undo") /\ UNCHANGED history
          /\ UNCHANGED <<hotplug, memory, shmem>>

\* TRIGSET_DISABLE, in online when ENABLE failed and in offline.
Disabling(label) == /\ \/ SetTrig(Switched(trig_set, FALSE)) /\ UNCHANGED history
                       \/ Refuses /\ UNCHANGED trig
                    /\ Goto(label)
                    /\ UNCHANGED <<hotplug, memory, shmem>>

\* mutant: a failed ENABLE is not undone
UndoNothing == pc = "undo" /\ Goto("free") /\ UNCHANGED <<hotplug, memory, firmware, history>>
Undo == pc = "undo" /\ Disabling("free")

Read == /\ pc = "read"
        /\ \/ Succeeds /\ UNCHANGED history
           \/ Goto("free") /\ Refuses /\ UNCHANGED hotplug
        /\ UNCHANGED <<memory, firmware>>

-----------------------------------------------------------------------------
(***************************************************************************)
(* __rvtrigger_cpu_release, at the end of a failed online and of offline:  *)
(* the memory is kept when the firmware does not let go of it.             *)
(***************************************************************************)
\* mutant: the memory is freed whatever the firmware says
ReleasesAnyway == /\ \/ shmem' = [shmem EXCEPT ![cpu] = NULL] /\ UNCHANGED history
                     \/ UNCHANGED <<shmem, history>>
                  /\ heap' = heap \ {shmem_msgs[cpu]}
                  /\ shmem_msgs' = [shmem_msgs EXCEPT ![cpu] = NULL]
                  /\ UNCHANGED <<lost, trig>>
\* mutant: the pointer is dropped and the memory not freed
ReleasesPointer == /\ \/ shmem' = [shmem EXCEPT ![cpu] = NULL] /\ UNCHANGED history
                      \/ UNCHANGED <<shmem, history>>
                   /\ shmem_msgs' = [shmem_msgs EXCEPT ![cpu] = NULL]
                   /\ UNCHANGED <<heap, lost, trig>>
Releases == /\ \/ /\ shmem' = [shmem EXCEPT ![cpu] = NULL] /\ UNCHANGED history
                  /\ heap' = heap \ {shmem_msgs[cpu]}
                  /\ shmem_msgs' = [shmem_msgs EXCEPT ![cpu] = NULL]
                  /\ UNCHANGED lost
               \/ /\ lost' = lost \cup {shmem_msgs[cpu]}
                  /\ UNCHANGED <<history, shmem, heap, shmem_msgs>>
            /\ UNCHANGED trig

Free_ == pc = "free" /\ Releases /\ Fails

(***************************************************************************)
(* rvtrigger_cpu_offline.                                                  *)
(***************************************************************************)
Disable == pc = "disable" /\ Disabling("uninstall")

Uninstall == /\ pc = "uninstall"
             /\ \/ SetTrig([i \in Idx |-> IF i \in trig_set THEN Free ELSE trig[cpu][i]])
                   /\ UNCHANGED history
                \/ Refuses /\ UNCHANGED trig
             /\ Goto("release")
             /\ UNCHANGED <<hotplug, memory, shmem>>

Release == /\ pc = "release"
           /\ Releases /\ Returns
           /\ up' = up \ {cpu}
           /\ online' = IF module = "in" THEN online \ {cpu} ELSE online
           /\ UNCHANGED <<module, resolved_addrs>>

-----------------------------------------------------------------------------
(***************************************************************************)
(* rvtrigger_init and rvtrigger_exit, and the hotplug core (external).     *)
(***************************************************************************)
Resolve(name) == IF Parsed[name] # 0 THEN Parsed[name] ELSE Symbol[name]

Idle(state) == pc = "none" /\ module = state
Calls(c, label) == pc' = label /\ cpu' = c
                   /\ UNCHANGED <<online, up, memory, firmware, history>>

\* mutant: the number of triggers is not looked at
LoadAnyway == /\ Idle("out")
              /\ \E addrs \in Params :
                   resolved_addrs' = [i \in DOMAIN addrs |-> Resolve(addrs[i])]
              /\ module' = "setup"
              /\ UNCHANGED <<online, up, pc, cpu, memory, firmware, history>>
\* Where there are too few triggers, or the firmware refuses, it is not loaded.
Load == /\ Idle("out")
        /\ \E addrs \in Params :
             /\ NumTriggers >= Len(addrs)
             /\ resolved_addrs' = [i \in DOMAIN addrs |-> Resolve(addrs[i])]
        /\ module' = "setup"
        /\ UNCHANGED <<online, up, pc, cpu, memory, firmware, history>>

\* kstrtoul stores the value of a number where its third argument points, which is
\* NULL: if that faults, the module stays where it is.
LoadFaults == /\ Idle("out")
              /\ \E addrs \in Params :
                   /\ NumTriggers >= Len(addrs)
                   /\ \E i \in DOMAIN addrs : Parsed[addrs[i]] = 0
              /\ module' = "stuck"
              /\ UNCHANGED <<resolved_addrs, online, up, pc, cpu, memory, firmware, history>>
Stuck == module = "stuck" /\ UNCHANGED vars

\* cpuhp_setup_state goes through the CPUs online.
SetupCpu(c) == /\ Idle("setup") /\ c \in online \ up
               /\ Calls(c, "alloc") /\ UNCHANGED <<module, resolved_addrs>>
Loaded == /\ Idle("setup") /\ online \subseteq up
          /\ module' = "in"
          /\ UNCHANGED <<resolved_addrs, online, up, pc, cpu, memory, firmware, history>>

CpuUp(c) == /\ Idle("in") /\ c \notin online
            /\ Calls(c, "alloc") /\ UNCHANGED <<module, resolved_addrs>>
CpuDown(c) == /\ Idle("in") /\ c \in up /\ online # {c}
              /\ Calls(c, "disable") /\ UNCHANGED <<module, resolved_addrs>>

\* rvtrigger_exit: cpuhp_remove_state takes the module off the CPUs.
Exit == /\ Idle("in")
        /\ module' = "remove"
        /\ UNCHANGED <<resolved_addrs, online, up, pc, cpu, memory, firmware, history>>
RemoveCpu(c) == /\ Idle("remove") /\ c \in up
                /\ Calls(c, "disable") /\ UNCHANGED <<module, resolved_addrs>>
\* The module goes away, and its data with it.
Removed == /\ Idle("remove") /\ up = {}
           /\ module' = "out"
           /\ resolved_addrs' = << >> /\ shmem_msgs' = [c \in Cpus |-> NULL]
           /\ UNCHANGED <<online, up, pc, cpu, heap, lost, firmware, history>>

Callback == \/ Alloc \/ SetShmem \/ UninstallAll \/ Install \/ Enable \/ Undo \/ Read
            \/ Free_ \/ Disable \/ Uninstall \/ Release
Hotplug == \/ Load \/ LoadFaults \/ Stuck \/ Loaded \/ Exit \/ Removed
           \/ \E c \in Cpus : SetupCpu(c) \/ CpuUp(c) \/ CpuDown(c) \/ RemoveCpu(c)

Next == Callback \/ Hotplug

\* A callback runs to its end, and the hotplug core finishes what it has begun.
Fairness == /\ WF_vars(Callback)
            /\ WF_vars(Loaded \/ Removed \/ \E c \in Cpus : SetupCpu(c) \/ RemoveCpu(c))

Spec == Init /\ [][Next]_vars /\ Fairness

-----------------------------------------------------------------------------
(***************************************************************************)
(* Properties.                                                             *)
(***************************************************************************)
\* The module keeps the types of its variables, and its addresses fit the
\* triggers there are (rvtrace-trigger.c:233-236).
TypeOK == /\ module \in {"out", "setup", "in", "remove", "stuck"}
          /\ resolved_addrs \in Seq(Nat) /\ Len(resolved_addrs) <= NumTriggers
          /\ up \subseteq online /\ online \subseteq Cpus
          /\ heap \cup lost \subseteq Buffers
          /\ {shmem_msgs[c] : c \in Cpus} \cup {shmem[c] : c \in Cpus} \subseteq Buffers \cup {NULL}
          /\ trig \in [Cpus -> [Idx -> [addr : Nat, on : BOOLEAN]]]

\* The firmware never holds memory the kernel has freed, whatever calls it
\* refuses (__rvtrigger_cpu_release, rvtrace-trigger.c:118-129).
FirmwareMemoryIsLive == \A c \in Cpus : shmem[c] \in heap \cup {NULL}

\* No CPU's memory is the memory of another, and memory that nobody points to is
\* memory the firmware has refused to give back (rvtrace-trigger.c:122-128).
MemoryIsAccountedFor ==
    /\ heap \ { shmem_msgs[c] : c \in Cpus } \subseteq lost
    /\ \A c, d \in Cpus : c # d /\ shmem_msgs[c] # NULL => shmem_msgs[c] # shmem_msgs[d]

\* A CPU that is set up emits a SYNC at every address resolved, from index 0 on,
\* whatever an earlier attempt or somebody else has left in its triggers
\* (rvtrace-trigger.c:157-191), if they could be uninstalled.
UpMeansTriggered ==
    \A c \in up :
        \/ c \in uncleared
        \/ cpu = c /\ pc # "none"
        \/ \A i \in Resolved : trig[c][trig_idx(i)] = [addr |-> resolved_addrs[i], on |-> TRUE]

\* contrib/p550/README.md:89-92: "install triggers that fire upon \__switch_to
\* (host task switch)".  What fires on a CPU that is set up is a name's address.
TriggersFireAtSymbols ==
    \A c \in up \ uncleared :
        cpu # c => \A i \in Idx : trig[c][i].on => \E n \in DOMAIN Symbol :
                                                      trig[c][i].addr = Symbol[n]

\* A CPU the module has been taken off, or could not be put on, has no trigger of
\* the module that fires, unless the firmware refused to stop it or to read back
\* the triggers (rvtrace-trigger.c:175-194: only then is nothing undone).
DownMeansSilent ==
    pc = "none" =>
        \A c \in Cpus \ up :
            \/ \A i \in Idx : trig[c][i].on => trig[c][i] = Stale
            \/ c \in uncleared \cup unstopped

\* Loading ends: the module is in on every CPU online, or out
\* (cpuhp_setup_state, rvtrace-trigger.c:258-261).
LoadEnds == module = "setup" ~> module = "out" \/ (module = "in" /\ online = up)
=============================================================================

-------------------------- MODULE RvTriggerProofs --------------------------
(***************************************************************************)
(* Proofs about RvTrigger for every set of CPUs, buffers and addresses and *)
(* every number of triggers, whatever calls the firmware refuses.          *)
(***************************************************************************)
EXTENDS RvTrigger, FiniteSetTheorems, TLAPS

(***************************************************************************)
(* The inductive invariant: where the callback is, what it knows of the    *)
(* memory, and what it knows of the triggers.                              *)
(***************************************************************************)
OnlineSteps == {"alloc", "set_shmem", "uninstall_all", "install", "enable", "undo",
                "read", "free"}
OfflineSteps == {"disable", "uninstall", "release"}

\* The callback in progress is for CPU c.
Busy(c) == pc # "none" /\ cpu = c

Control == /\ module \in {"out", "setup", "in", "remove", "stuck"}
           /\ resolved_addrs \in Seq(Nat) /\ Len(resolved_addrs) <= NumTriggers
           /\ up \subseteq online /\ online \subseteq Cpus
           /\ pc \in {"none"} \cup OnlineSteps \cup OfflineSteps
           /\ pc \in OnlineSteps => cpu \in Cpus \ up
           /\ pc \in OfflineSteps => cpu \in up
           /\ module = "out" => pc = "none" /\ up = {}

\* What the module and the firmware point to is allocated, and never shared
\* between two CPUs; the memory of a CPU that is down is lost.
Memory == /\ heap \subseteq Buffers /\ lost \subseteq heap
          /\ shmem_msgs \in [Cpus -> heap \cup {NULL}]
          /\ shmem \in [Cpus -> heap \cup {NULL}]
          /\ heap \subseteq lost \cup { shmem_msgs[c] : c \in Cpus }
          /\ \A c, d \in Cpus :
               c # d /\ shmem_msgs[c] # NULL =>
                   shmem_msgs[c] # shmem_msgs[d] /\ shmem[d] # shmem_msgs[c]
          /\ \A c \in Cpus : \/ c \in up \/ (Busy(c) /\ pc # "alloc")
                             \/ shmem_msgs[c] \in lost \cup {NULL}
          /\ \A c \in Cpus : c \in up \/ (Busy(c) /\ pc # "alloc") =>
                                 shmem_msgs[c] \notin lost \cup {NULL}

TriggerState == [addr : Nat, on : BOOLEAN]

\* Exactly the triggers of the module are installed on a CPU.
Holds(c, on) ==
    \A i \in Idx : trig[c][i] = IF i \in trig_set THEN [addr |-> tdata2(i), on |-> on]
                                                  ELSE Free

Silent(c) == \A i \in Idx : trig[c][i].on => trig[c][i] = Stale
Quiet(c) == Silent(c) \/ c \in uncleared \cup unstopped

Triggers ==
    /\ trig \in [Cpus -> [Idx -> TriggerState]]
    /\ \A c \in up : Busy(c) \/ c \in uncleared \/ Holds(c, TRUE)
    /\ \A c \in Cpus \ up : Busy(c) \/ Quiet(c)
    /\ pc \in {"alloc", "set_shmem", "free", "uninstall", "release"} => Quiet(cpu)
    /\ pc = "install" => cpu \in uncleared \/ \A i \in Idx : trig[cpu][i] = Free
    /\ pc = "enable" => cpu \in uncleared \/ Holds(cpu, FALSE)
    /\ pc \in {"read", "disable"} => cpu \in uncleared \/ Holds(cpu, TRUE)
    /\ pc = "undo" => cpu \in uncleared
                      \/ \A i \in Idx : trig[cpu][i].on => i \in trig_set

IInv == Control /\ Memory /\ Triggers

-----------------------------------------------------------------------------
(***************************************************************************)
(* The control state.                                                      *)
(***************************************************************************)
\* A step of the callback that goes on to another step of the same callback.
LEMMA GotoControl ==
  ASSUME Control, NEW label, Goto(label), UNCHANGED hotplug,
         \/ pc \in OnlineSteps /\ label \in OnlineSteps
         \/ pc \in OfflineSteps /\ label \in OfflineSteps
  PROVE  Control'
  <1>1. pc' = label /\ UNCHANGED <<module, resolved_addrs, online, up, cpu>>
    BY DEF Goto, hotplug
  <1> QED
    BY <1>1 DEF Control, OnlineSteps, OfflineSteps

\* The callback returns with an error.
LEMMA FailsControl == Control /\ pc \in OnlineSteps /\ Fails => Control'
  <1> SUFFICES ASSUME Control, pc \in OnlineSteps, Fails PROVE Control'
    OBVIOUS
  <1>1. /\ pc' = "none" /\ UNCHANGED <<resolved_addrs, online, up>>
        /\ module' \in {module, "remove"}
    BY DEF Fails, Returns
  <1>2. module # "out"
    BY DEF Control, OnlineSteps
  <1> QED
    BY <1>1, <1>2 DEF Control, OnlineSteps, OfflineSteps

\* The addresses a load resolves fit the triggers there are.
LEMMA LoadResolves == Load => /\ resolved_addrs' \in Seq(Nat)
                              /\ Len(resolved_addrs') <= NumTriggers
  <1> SUFFICES ASSUME Load
               PROVE  resolved_addrs' \in Seq(Nat) /\ Len(resolved_addrs') <= NumTriggers
    OBVIOUS
  <1>1. PICK addrs \in Params :
          /\ NumTriggers >= Len(addrs)
          /\ resolved_addrs' = [i \in DOMAIN addrs |-> Resolve(addrs[i])]
    BY DEF Load
  <1>2. addrs \in Seq(DOMAIN Parsed)
    BY <1>1, TriggerAssumption
  <1>3. DOMAIN addrs = 1 .. Len(addrs) /\ Len(addrs) \in Nat
    BY <1>2
  <1>4. \A i \in DOMAIN addrs : Resolve(addrs[i]) \in Nat
    <2> TAKE i \in DOMAIN addrs
    <2>1. addrs[i] \in DOMAIN Parsed
      BY <1>2, <1>3
    <2> QED
      BY <2>1, TriggerAssumption DEF Resolve
  <1>5. resolved_addrs' \in [1 .. Len(addrs) -> Nat]
    BY <1>1, <1>3, <1>4
  <1>6. resolved_addrs' \in Seq(Nat) /\ Len(resolved_addrs') = Len(addrs)
    BY <1>3, <1>5
  <1> QED
    BY <1>1, <1>3, <1>6, TriggerAssumption

\* Every step keeps the control state.
LEMMA NextControl == Control /\ [Next]_vars => Control'
  <1> SUFFICES ASSUME Control, [Next]_vars PROVE Control'
    OBVIOUS
  <1>1. CASE Alloc
    <2>1. pc = "alloc" /\ pc \in OnlineSteps /\ "set_shmem" \in OnlineSteps
      BY <1>1 DEF Alloc, OnlineSteps
    <2>2. Fails \/ (Goto("set_shmem") /\ UNCHANGED hotplug)
      BY <1>1 DEF Alloc
    <2> QED
      BY <2>1, <2>2, FailsControl, GotoControl
  <1>2. CASE SetShmem
    BY <1>2, GotoControl DEF SetShmem, OnlineSteps
  <1>3. CASE UninstallAll
    BY <1>3, GotoControl DEF UninstallAll, OnlineSteps
  <1>4. CASE Install
    BY <1>4, GotoControl DEF Install, OnlineSteps
  <1>5. CASE Enable
    BY <1>5, GotoControl DEF Enable, OnlineSteps
  <1>6. CASE Undo
    BY <1>6, GotoControl DEF Undo, Disabling, OnlineSteps
  <1>7. CASE Read
    <2>1. pc = "read" /\ pc \in OnlineSteps
      BY <1>7 DEF Read, OnlineSteps
    <2>2. CASE Goto("free") /\ UNCHANGED hotplug
      BY <2>1, <2>2, GotoControl DEF OnlineSteps
    <2>3. CASE Succeeds
      <3>1. /\ pc' = "none" /\ up' = up \cup {cpu} /\ online' = online \cup {cpu}
            /\ UNCHANGED <<module, resolved_addrs>>
        BY <2>3 DEF Succeeds, Returns
      <3> QED
        BY <2>1, <3>1 DEF Control, OnlineSteps, OfflineSteps
    <2> QED
      BY <1>7, <2>2, <2>3 DEF Read
  <1>8. CASE Free_
    BY <1>8, FailsControl DEF Free_, OnlineSteps
  <1>9. CASE Disable
    BY <1>9, GotoControl DEF Disable, Disabling, OfflineSteps
  <1>10. CASE Uninstall
    BY <1>10, GotoControl DEF Uninstall, OfflineSteps
  <1>11. CASE Release
    <2>1. /\ pc = "release" /\ pc' = "none" /\ up' = up \ {cpu}
          /\ online' \in {online, online \ {cpu}}
          /\ UNCHANGED <<module, resolved_addrs>>
      BY <1>11 DEF Release, Returns
    <2> QED
      BY <2>1 DEF Control, OnlineSteps, OfflineSteps
  <1>12. CASE Load
    <2>1. /\ pc = "none" /\ module' = "setup" /\ UNCHANGED <<online, up, pc>>
      BY <1>12 DEF Load, Idle
    <2> QED
      BY <1>12, <2>1, LoadResolves DEF Control, OnlineSteps, OfflineSteps
  <1>13. CASE Loaded \/ Exit \/ LoadFaults
    BY <1>13 DEF Loaded, Exit, LoadFaults, Idle, Control, OnlineSteps, OfflineSteps
  <1>14. CASE Removed
    <2>1. /\ pc = "none" /\ up = {} /\ module' = "out" /\ resolved_addrs' = << >>
          /\ UNCHANGED <<online, up, pc>>
      BY <1>14 DEF Removed, Idle
    <2>2. << >> \in Seq(Nat) /\ Len(<< >>) <= NumTriggers
      BY TriggerAssumption
    <2> QED
      BY <2>1, <2>2 DEF Control, OnlineSteps, OfflineSteps
  <1>15. ASSUME NEW c \in Cpus, SetupCpu(c) \/ CpuUp(c) PROVE Control'
    <2>1. /\ c \notin up /\ pc' = "alloc" /\ cpu' = c /\ module # "out"
          /\ UNCHANGED <<module, resolved_addrs, online, up>>
      BY <1>15 DEF SetupCpu, CpuUp, Calls, Idle, Control
    <2> QED
      BY <2>1 DEF Control, OnlineSteps, OfflineSteps
  <1>16. ASSUME NEW c \in Cpus, CpuDown(c) \/ RemoveCpu(c) PROVE Control'
    <2>1. /\ c \in up /\ pc' = "disable" /\ cpu' = c /\ module # "out"
          /\ UNCHANGED <<module, resolved_addrs, online, up>>
      BY <1>16 DEF CpuDown, RemoveCpu, Calls, Idle
    <2> QED
      BY <2>1 DEF Control, OnlineSteps, OfflineSteps
  <1>17. CASE UNCHANGED vars
    BY <1>17 DEF vars, hotplug, Control
  <1> QED
    BY <1>1, <1>2, <1>3, <1>4, <1>5, <1>6, <1>7, <1>8, <1>9, <1>10, <1>11, <1>12,
       <1>13, <1>14, <1>15, <1>16, <1>17 DEF Next, Callback, Hotplug, Stuck

-----------------------------------------------------------------------------
(***************************************************************************)
(* The memory.                                                             *)
(***************************************************************************)
\* The callback works with memory of its own.
Working(c) == c \in up \/ (Busy(c) /\ pc # "alloc")

\* A step that leaves the memory alone, and those who work with it.
LEMMA MemoryStays ==
  ASSUME Memory, UNCHANGED <<memory, shmem>>, \A c \in Cpus : Working(c)' = Working(c)
  PROVE  Memory'
  <1>1. UNCHANGED <<shmem_msgs, heap, lost, shmem>>
    BY DEF memory
  <1>2. \A c \in Cpus : (c \in up \/ (Busy(c) /\ pc # "alloc"))
                          <=> (c \in up \/ (Busy(c) /\ pc # "alloc"))'
    BY DEF Working
  <1> QED
    BY <1>1, <1>2 DEF Memory

\* A CPU gets memory: fresh, so nobody else points to it.
LEMMA AllocMemory == Control /\ Memory /\ Alloc => Memory'
  <1> SUFFICES ASSUME Control, Memory, Alloc PROVE Memory'
    OBVIOUS
  <1>1. pc = "alloc" /\ cpu \in Cpus /\ cpu \notin up /\ UNCHANGED shmem
    BY DEF Alloc, Control, OnlineSteps, firmware
  <1>2. CASE Fails /\ UNCHANGED memory
    <2>1. pc' = "none" /\ up' = up
      BY <1>2 DEF Fails, Returns
    <2>2. \A c \in Cpus : Working(c)' = Working(c)
      BY <1>1, <2>1 DEF Working, Busy
    <2> QED
      BY <1>1, <1>2, <2>2, MemoryStays
  <1>3. ASSUME NEW b \in Buffers \ heap,
               heap' = heap \cup {b},
               shmem_msgs' = [shmem_msgs EXCEPT ![cpu] = b],
               Goto("set_shmem"), UNCHANGED <<lost, hotplug>>
        PROVE  Memory'
    <2>1. pc' = "set_shmem" /\ cpu' = cpu /\ up' = up /\ lost' = lost /\ shmem' = shmem
      BY <1>1, <1>3 DEF Goto, hotplug
    <2>2. b # NULL /\ b \notin lost /\ b \in Buffers /\ b \notin heap
      BY TriggerAssumption DEF Memory
    <2>3. /\ shmem_msgs'[cpu] = b
          /\ \A c \in Cpus : c # cpu => shmem_msgs'[c] = shmem_msgs[c]
          /\ shmem_msgs' \in [Cpus -> heap' \cup {NULL}]
      BY <1>1, <1>3 DEF Memory
    <2>4. shmem' \in [Cpus -> heap' \cup {NULL}]
      BY <1>3, <2>1 DEF Memory
    <2>5. heap' \subseteq lost' \cup { shmem_msgs'[c] : c \in Cpus }
      <3>1. shmem_msgs[cpu] \in lost \cup {NULL}
        BY <1>1 DEF Memory, Busy
      <3>2. ASSUME NEW x \in heap' PROVE x \in lost' \cup { shmem_msgs'[c] : c \in Cpus }
        <4>1. CASE x = b
          BY <1>1, <2>3, <4>1
        <4>2. CASE x \in heap
          <5>1. x # NULL
            BY <4>2, TriggerAssumption DEF Memory
          <5>2. x \in lost \/ \E c \in Cpus : shmem_msgs[c] = x
            BY <4>2 DEF Memory
          <5> QED
            BY <2>1, <2>3, <3>1, <5>1, <5>2
        <4> QED
          BY <1>3, <3>2, <4>1, <4>2
      <3> QED
        BY <3>2
    <2>6. \A c, d \in Cpus :
            c # d /\ shmem_msgs'[c] # NULL =>
                shmem_msgs'[c] # shmem_msgs'[d] /\ shmem'[d] # shmem_msgs'[c]
      <3> SUFFICES ASSUME NEW c \in Cpus, NEW d \in Cpus, c # d, shmem_msgs'[c] # NULL
                   PROVE  shmem_msgs'[c] # shmem_msgs'[d] /\ shmem'[d] # shmem_msgs'[c]
        OBVIOUS
      <3>1. shmem_msgs[c] \in heap \cup {NULL} /\ shmem_msgs[d] \in heap \cup {NULL}
            /\ shmem[d] \in heap \cup {NULL}
        BY DEF Memory
      <3>2. CASE c = cpu
        BY <2>1, <2>2, <2>3, <3>1, <3>2
      <3>3. CASE c # cpu
        BY <2>1, <2>2, <2>3, <3>1, <3>3 DEF Memory
      <3> QED
        BY <3>2, <3>3
    <2>7. \A c \in Cpus : /\ Working(c)' \/ shmem_msgs'[c] \in lost' \cup {NULL}
                          /\ Working(c)' => shmem_msgs'[c] \notin lost' \cup {NULL}
      <3> TAKE c \in Cpus
      <3>1. CASE c = cpu
        BY <2>1, <2>2, <2>3, <3>1 DEF Working, Busy
      <3>2. CASE c # cpu
        <4>1. Working(c)' = Working(c)
          BY <1>1, <2>1, <3>2 DEF Working, Busy
        <4> QED
          BY <2>1, <2>3, <3>2, <4>1 DEF Memory, Working
      <3> QED
        BY <3>1, <3>2
    <2>8. heap' \subseteq Buffers /\ lost' \subseteq heap'
      BY <1>3, <2>1 DEF Memory
    <2> QED
      BY <2>3, <2>4, <2>5, <2>6, <2>7, <2>8 DEF Memory, Working
  <1> QED
    BY <1>2, <1>3 DEF Alloc

\* The firmware is told of the memory.
LEMMA SetShmemMemory == Control /\ Memory /\ SetShmem => Memory'
  <1> SUFFICES ASSUME Control, Memory, SetShmem PROVE Memory'
    OBVIOUS
  <1>1. /\ pc = "set_shmem" /\ cpu \in Cpus /\ pc' \in {"uninstall_all", "free"}
        /\ cpu' = cpu /\ up' = up
        /\ UNCHANGED <<shmem_msgs, heap, lost>>
    BY DEF SetShmem, Control, OnlineSteps, Goto, hotplug, memory
  <1>2. \A c \in Cpus : Working(c)' = Working(c)
    BY <1>1 DEF Working, Busy
  <1>3. CASE UNCHANGED shmem
    BY <1>1, <1>2, <1>3, MemoryStays DEF memory
  <1>4. CASE shmem' = [shmem EXCEPT ![cpu] = shmem_msgs[cpu]]
    <2>1. shmem' \in [Cpus -> heap \cup {NULL}]
      BY <1>1, <1>4 DEF Memory
    <2>2. \A c, d \in Cpus : c # d /\ shmem_msgs[c] # NULL => shmem'[d] # shmem_msgs[c]
      BY <1>1, <1>4 DEF Memory
    <2> QED
      BY <1>1, <1>2, <2>1, <2>2 DEF Memory, Working
  <1> QED
    BY <1>3, <1>4 DEF SetShmem

\* __rvtrigger_cpu_release: the memory goes back to the kernel, or the CPU keeps
\* it and it is lost.
LEMMA ReleasesMemory ==
  ASSUME Control, Memory, Releases, pc \in {"free", "release"},
         pc' = "none", up' = up \ {cpu}
  PROVE  Memory'
  <1> DEFINE b == shmem_msgs[cpu]
  <1>1. cpu \in Cpus /\ pc \notin {"none", "alloc"}
    BY DEF Control, OnlineSteps, OfflineSteps
  <1>2. b \in heap /\ b \notin lost /\ b # NULL
    BY <1>1 DEF Memory, Busy
  <1>3. \A c \in Cpus : Working(c)' <=> c # cpu /\ Working(c)
    BY <1>1 DEF Working, Busy
  <1> HIDE DEF b
  <1>4. CASE /\ shmem' = [shmem EXCEPT ![cpu] = NULL]
             /\ heap' = heap \ {b}
             /\ shmem_msgs' = [shmem_msgs EXCEPT ![cpu] = NULL]
             /\ lost' = lost
    <2>1. /\ shmem'[cpu] = NULL /\ shmem_msgs'[cpu] = NULL
          /\ \A c \in Cpus : c # cpu => shmem'[c] = shmem[c] /\ shmem_msgs'[c] = shmem_msgs[c]
      BY <1>1, <1>4 DEF Memory
    <2>2. \A c \in Cpus : c # cpu => shmem[c] # b /\ shmem_msgs[c] # b
      BY <1>1, <1>2 DEF Memory, b
    <2>3. /\ shmem_msgs' \in [Cpus -> heap' \cup {NULL}]
          /\ shmem' \in [Cpus -> heap' \cup {NULL}]
      BY <1>1, <1>4, <2>1, <2>2 DEF Memory
    <2>4. heap' \subseteq lost' \cup { shmem_msgs'[c] : c \in Cpus }
      <3> SUFFICES ASSUME NEW x \in heap', x \notin lost
                   PROVE  \E c \in Cpus : shmem_msgs'[c] = x
        BY <1>4
      <3>1. PICK c \in Cpus : shmem_msgs[c] = x
        BY <1>4 DEF Memory
      <3>2. c # cpu
        BY <1>4, <3>1 DEF b
      <3> QED
        BY <2>1, <3>1, <3>2
    <2>5. \A c, d \in Cpus :
            c # d /\ shmem_msgs'[c] # NULL =>
                shmem_msgs'[c] # shmem_msgs'[d] /\ shmem'[d] # shmem_msgs'[c]
      BY <2>1 DEF Memory
    <2>6. \A c \in Cpus : /\ Working(c)' \/ shmem_msgs'[c] \in lost' \cup {NULL}
                          /\ Working(c)' => shmem_msgs'[c] \notin lost' \cup {NULL}
      BY <1>3, <1>4, <2>1 DEF Memory, Working
    <2>7. heap' \subseteq Buffers /\ lost' \subseteq heap'
      BY <1>2, <1>4 DEF Memory
    <2> QED
      BY <2>3, <2>4, <2>5, <2>6, <2>7 DEF Memory, Working
  <1>5. CASE lost' = lost \cup {b} /\ UNCHANGED <<shmem, heap, shmem_msgs>>
    <2>1. \A c \in Cpus : c # cpu => shmem_msgs[c] # b
      BY <1>1, <1>2 DEF Memory, b
    <2>2. \A c \in Cpus : /\ Working(c)' \/ shmem_msgs'[c] \in lost' \cup {NULL}
                          /\ Working(c)' => shmem_msgs'[c] \notin lost' \cup {NULL}
      BY <1>1, <1>3, <1>5, <2>1 DEF Memory, Working, b
    <2>3. heap' \subseteq lost' \cup { shmem_msgs'[c] : c \in Cpus }
      BY <1>5 DEF Memory
    <2>4. heap' \subseteq Buffers /\ lost' \subseteq heap'
      BY <1>2, <1>5 DEF Memory
    <2> QED
      BY <1>5, <2>2, <2>3, <2>4 DEF Memory, Working
  <1> QED
    BY <1>4, <1>5 DEF Releases, b

\* Every step keeps the memory accounted for.
LEMMA NextMemory == Control /\ Memory /\ [Next]_vars => Memory'
  <1> SUFFICES ASSUME Control, Memory, [Next]_vars PROVE Memory'
    OBVIOUS
  <1>1. CASE Alloc
    BY <1>1, AllocMemory
  <1>2. CASE SetShmem
    BY <1>2, SetShmemMemory
  <1>3. CASE UninstallAll \/ Install \/ Enable \/ Undo \/ Disable \/ Uninstall
    <2>1. /\ pc \notin {"none", "alloc"} /\ pc' \notin {"none", "alloc"}
          /\ cpu' = cpu /\ up' = up /\ UNCHANGED <<memory, shmem>>
      BY <1>3 DEF UninstallAll, Install, Enable, Undo, Disable, Uninstall, Disabling,
                  Goto, hotplug
    <2>2. \A c \in Cpus : Working(c)' = Working(c)
      BY <2>1 DEF Working, Busy
    <2> QED
      BY <2>1, <2>2, MemoryStays
  <1>4. CASE Read
    <2>1. /\ pc = "read" /\ UNCHANGED <<memory, shmem>>
          /\ \/ pc' = "none" /\ up' = up \cup {cpu}
             \/ pc' = "free" /\ cpu' = cpu /\ up' = up
      BY <1>4 DEF Read, Succeeds, Returns, Goto, hotplug, firmware
    <2>2. \A c \in Cpus : Working(c)' = Working(c)
      BY <2>1 DEF Working, Busy
    <2> QED
      BY <2>1, <2>2, MemoryStays
  <1>5. CASE Free_
    <2>1. pc = "free" /\ Releases /\ pc' = "none" /\ up' = up
      BY <1>5 DEF Free_, Fails, Returns
    <2>2. up' = up \ {cpu}
      BY <2>1 DEF Control, OnlineSteps
    <2> QED
      BY <2>1, <2>2, ReleasesMemory
  <1>6. CASE Release
    BY <1>6, ReleasesMemory DEF Release, Returns
  <1>7. CASE Load \/ LoadFaults \/ Loaded \/ Exit
    <2>1. pc = "none" /\ pc' = pc /\ up' = up /\ UNCHANGED <<memory, shmem>>
      BY <1>7 DEF Load, LoadFaults, Loaded, Exit, Idle, firmware
    <2>2. \A c \in Cpus : Working(c)' = Working(c)
      BY <2>1 DEF Working, Busy
    <2> QED
      BY <2>1, <2>2, MemoryStays
  <1>8. CASE Removed
    <2>1. /\ pc = "none" /\ pc' = pc /\ up = {} /\ up' = {}
          /\ shmem_msgs' = [c \in Cpus |-> NULL] /\ UNCHANGED <<heap, lost, shmem>>
      BY <1>8 DEF Removed, Idle, firmware
    <2>2. \A c \in Cpus : shmem_msgs[c] \in lost \cup {NULL}
      BY <2>1 DEF Memory, Busy
    <2>3. heap \subseteq lost
      <3> SUFFICES ASSUME NEW x \in heap, x \notin lost PROVE FALSE
        OBVIOUS
      <3>1. x \in Buffers /\ \E c \in Cpus : shmem_msgs[c] = x
        BY DEF Memory
      <3> QED
        BY <2>2, <3>1, TriggerAssumption
    <2> QED
      BY <2>1, <2>3 DEF Memory, Busy
  <1>9. ASSUME NEW c \in Cpus, SetupCpu(c) \/ CpuUp(c) PROVE Memory'
    <2>1. /\ pc = "none" /\ pc' = "alloc" /\ cpu' = c /\ up' = up
          /\ UNCHANGED <<memory, shmem>>
      BY <1>9 DEF SetupCpu, CpuUp, Calls, Idle, firmware
    <2>2. \A d \in Cpus : Working(d)' = Working(d)
      BY <2>1 DEF Working, Busy
    <2> QED
      BY <2>1, <2>2, MemoryStays
  <1>10. ASSUME NEW c \in Cpus, CpuDown(c) \/ RemoveCpu(c) PROVE Memory'
    <2>1. /\ pc = "none" /\ pc' = "disable" /\ cpu' = c /\ c \in up /\ up' = up
          /\ UNCHANGED <<memory, shmem>>
      BY <1>10 DEF CpuDown, RemoveCpu, Calls, Idle, firmware
    <2>2. \A d \in Cpus : Working(d)' = Working(d)
      BY <2>1 DEF Working, Busy
    <2> QED
      BY <2>1, <2>2, MemoryStays
  <1>11. CASE UNCHANGED vars
    <2>1. UNCHANGED <<pc, cpu, up, memory, shmem>>
      BY <1>11 DEF vars, hotplug, firmware
    <2>2. \A c \in Cpus : Working(c)' = Working(c)
      BY <2>1 DEF Working, Busy
    <2> QED
      BY <2>1, <2>2, MemoryStays
  <1> QED
    BY <1>1, <1>2, <1>3, <1>4, <1>5, <1>6, <1>7, <1>8, <1>9, <1>10, <1>11
       DEF Next, Callback, Hotplug, Stuck

-----------------------------------------------------------------------------
(***************************************************************************)
(* The triggers.                                                           *)
(***************************************************************************)
\* The index the loop over addrs gives to a resolved name is that of a trigger
\* (trig_idx < num_trig), grows from one resolved name to the next, and so leads
\* back to the name's address, which is not 0.
LEMMA Indices ==
  ASSUME Control
  PROVE  /\ IsFiniteSet(Resolved)
         /\ \A i \in Resolved : /\ resolved_addrs[i] \in Nat \ {0}
                                /\ trig_idx(i) \in Idx
                                /\ tdata2(trig_idx(i)) = resolved_addrs[i]
         /\ trig_set \subseteq Idx
         /\ \A t \in trig_set : tdata2(t) \in Nat \ {0}
  <1> DEFINE n == Len(resolved_addrs)
  <1>1. n \in Nat /\ n <= NumTriggers /\ DOMAIN resolved_addrs = 1 .. n /\ NumTriggers \in Nat
    BY TriggerAssumption DEF Control
  <1>2. IsFiniteSet(1 .. n) /\ Resolved \subseteq 1 .. n
    BY <1>1, FS_Interval DEF Resolved
  <1>3. IsFiniteSet(Resolved) /\ \A j \in Resolved : j \in Nat /\ 1 <= j /\ j <= n
    <2>1. IsFiniteSet(Resolved)
      BY <1>2, FS_Subset
    <2>2. \A j \in 1 .. n : j \in Nat /\ 1 <= j /\ j <= n
      BY <1>1
    <2> QED
      BY <1>2, <2>1, <2>2
  <1>4. \A i \in Resolved : resolved_addrs[i] \in Nat \ {0}
    BY <1>1 DEF Resolved, Control
  <1> DEFINE Below(i) == { j \in Resolved : j < i }
  <1>5. \A i \in Resolved : IsFiniteSet(Below(i)) /\ Cardinality(Below(i)) \in Nat
    <2> TAKE i \in Resolved
    <2>1. Below(i) \in SUBSET Resolved
      OBVIOUS
    <2> QED
      BY <1>3, <2>1, FS_Subset, FS_CardinalityType
  <1>6. ASSUME NEW i \in Resolved PROVE trig_idx(i) \in Idx
    <2>1. i \in Nat /\ 1 <= i /\ i <= n
      BY <1>3
    <2>2. Below(i) \in SUBSET (1 .. i - 1)
      <3>1. \A j \in Below(i) : j \in Nat /\ 1 <= j /\ j < i
        BY <1>3
      <3>2. \A j \in Below(i) : j \in 1 .. i - 1
        BY <2>1, <3>1
      <3> QED
        BY <3>2
    <2>3. IsFiniteSet(1 .. i - 1) /\ Cardinality(1 .. i - 1) = i - 1
      <3>1. i - 1 \in Int /\ 1 \in Int /\ (1 > i - 1 => i - 1 = 0)
        BY <1>1, <2>1
      <3>2. IsFiniteSet(1 .. i - 1)
            /\ Cardinality(1 .. i - 1) = IF 1 > i - 1 THEN 0 ELSE (i - 1) - 1 + 1
        BY <3>1, FS_Interval
      <3> QED
        BY <3>1, <3>2
    <2>4. Cardinality(Below(i)) <= i - 1
      BY <2>2, <2>3, FS_Subset
    <2> QED
      <3>1. trig_idx(i) \in Nat /\ trig_idx(i) <= i - 1
        BY <1>5, <2>4 DEF trig_idx
      <3> QED
        BY <1>1, <2>1, <3>1 DEF Idx
  <1>7. ASSUME NEW i \in Resolved, NEW j \in Resolved, i < j
        PROVE  trig_idx(i) # trig_idx(j)
    <2>1. i \in Nat /\ j \in Nat
      BY <1>3
    <2>2. Below(i) \in SUBSET Below(j)
      <3>1. \A k \in Below(i) : k \in Nat /\ k \in Resolved /\ k < i
        BY <1>3
      <3>2. \A k \in Below(i) : k \in Resolved /\ k < j
        BY <1>7, <2>1, <3>1
      <3> QED
        BY <3>2
    <2>3. i \in Below(j) /\ i \notin Below(i)
      BY <1>7, <2>1
    <2>4. Cardinality(Below(j)) # Cardinality(Below(i))
      BY <1>5, <2>2, <2>3, FS_Subset
    <2> QED
      BY <2>4 DEF trig_idx
  <1>8. \A i \in Resolved : tdata2(trig_idx(i)) = resolved_addrs[i]
    <2> TAKE i \in Resolved
    <2> DEFINE k == CHOOSE j \in Resolved : trig_idx(j) = trig_idx(i)
    <2>1. k \in Resolved /\ trig_idx(k) = trig_idx(i)
      OBVIOUS
    <2>2. k \in Nat /\ i \in Nat
      BY <1>3, <2>1
    <2>3. k = i
      <3> HIDE DEF k
      <3>1. ~(k < i) /\ ~(i < k)
        BY <1>7, <2>1
      <3> QED
        BY <2>2, <3>1
    <2> QED
      BY <2>3 DEF tdata2
  <1> QED
    BY <1>3, <1>4, <1>6, <1>8 DEF trig_set

\* What is derived from the addresses only changes with them.
LEMMA AddressesStay ==
  ASSUME UNCHANGED resolved_addrs
  PROVE  trig_set' = trig_set /\ \A t : tdata2(t)' = tdata2(t)
  <1>1. Resolved' = Resolved
    BY DEF Resolved
  <1>2. \A i : trig_idx(i)' = trig_idx(i)
    BY <1>1 DEF trig_idx
  <1> QED
    BY <1>1, <1>2 DEF trig_set, tdata2

\* A step of the callback leaves the triggers of the other CPUs alone.
LEMMA OthersStay ==
  ASSUME Control, Triggers, pc # "none", UNCHANGED resolved_addrs,
         NEW k \in Cpus, k = cpu,
         up' \subseteq Cpus,
         \A c \in Cpus : c # k => /\ trig'[c] = trig[c]
                                  /\ c \in uncleared' <=> c \in uncleared
                                  /\ c \in unstopped' <=> c \in unstopped
                                  /\ c \in up' <=> c \in up,
         \/ Busy(k)'
         \/ /\ k \in up' => k \in uncleared' \/ Holds(k, TRUE)'
            /\ k \notin up' => Quiet(k)'
  PROVE  /\ \A c \in up' : Busy(c)' \/ c \in uncleared' \/ Holds(c, TRUE)'
         /\ \A c \in Cpus \ up' : Busy(c)' \/ Quiet(c)'
  <1>1. ASSUME NEW c \in Cpus, c # k
        PROVE  /\ Holds(c, TRUE)' = Holds(c, TRUE)
               /\ Quiet(c)' <=> Quiet(c)
               /\ ~Busy(c)
    <2>1. trig'[c] = trig[c]
      BY <1>1
    <2>2. Holds(c, TRUE)' = Holds(c, TRUE)
      BY <2>1, AddressesStay DEF Holds
    <2>3. Silent(c)' <=> Silent(c)
      BY <2>1 DEF Silent
    <2> QED
      BY <1>1, <2>2, <2>3 DEF Quiet, Busy
  <1>2. ASSUME NEW c \in Cpus
        PROVE  /\ c \in up' => Busy(c)' \/ c \in uncleared' \/ Holds(c, TRUE)'
               /\ c \notin up' => Busy(c)' \/ Quiet(c)'
    <2>1. CASE c = k
      BY <2>1
    <2>2. CASE c # k
      BY <1>1, <2>2 DEF Triggers
    <2> QED
      BY <2>1, <2>2
  <1> QED
    BY <1>2

\* Uninstalling all triggers: each is free, or the CPU counts as uncleared.
LEMMA UninstallAllTriggers == Control /\ Triggers /\ UninstallAll => Triggers'
  <1> SUFFICES ASSUME Control, Triggers, UninstallAll PROVE Triggers'
    OBVIOUS
  <1>1. PICK kept \in SUBSET { i \in Idx : trig[cpu][i] # Free } :
          /\ SetTrig([i \in Idx |-> IF i \in kept THEN trig[cpu][i] ELSE Free])
          /\ uncleared' = IF kept = {} THEN uncleared \ {cpu} ELSE uncleared \cup {cpu}
          /\ unstopped' = unstopped \ {cpu}
    BY DEF UninstallAll
  <1>2. /\ pc = "uninstall_all" /\ pc' = "install" /\ cpu' = cpu
        /\ UNCHANGED <<module, resolved_addrs, online, up>>
    BY DEF UninstallAll, Goto, hotplug
  <1>3. PICK k \in Cpus : k = cpu
    BY <1>2 DEF Control, OnlineSteps
  <1>4. /\ trig' \in [Cpus -> [Idx -> TriggerState]]
        /\ trig'[k] = [i \in Idx |-> IF i \in kept THEN trig[k][i] ELSE Free]
        /\ \A c \in Cpus : c # k => trig'[c] = trig[c]
    <2>1. Free \in TriggerState
      BY DEF Free, TriggerState
    <2>2. trig \in [Cpus -> [Idx -> TriggerState]]
      BY DEF Triggers
    <2> QED
      BY <1>1, <1>3, <2>1, <2>2 DEF SetTrig
  <1>5. \A c \in Cpus : c # k => /\ c \in uncleared' <=> c \in uncleared
                                 /\ c \in unstopped' <=> c \in unstopped
                                 /\ c \in up' <=> c \in up
    BY <1>1, <1>2, <1>3
  <1>6. /\ \A c \in up' : Busy(c)' \/ c \in uncleared' \/ Holds(c, TRUE)'
        /\ \A c \in Cpus \ up' : Busy(c)' \/ Quiet(c)'
    <2>1. Busy(k)' /\ up' \subseteq Cpus /\ pc # "none"
      BY <1>2, <1>3 DEF Busy, Control
    <2> QED
      BY <1>2, <1>3, <1>4, <1>5, <2>1, OthersStay
  <1>7. cpu' \in uncleared' \/ \A i \in Idx : trig'[cpu'][i] = Free
    BY <1>1, <1>2, <1>3, <1>4
  <1> QED
    BY <1>2, <1>4, <1>6, <1>7 DEF Triggers

\* A step of the callback that gives its CPU the triggers t and goes on.
LEMMA SetTrigStep ==
  ASSUME Control, Triggers, pc # "none", pc' # "none", cpu' = cpu, UNCHANGED hotplug,
         NEW k \in Cpus, k = cpu,
         NEW t \in [Idx -> TriggerState], trig' = [trig EXCEPT ![k] = t],
         uncleared' = uncleared, unstopped' \in {unstopped, unstopped \cup {k}}
  PROVE  /\ trig' \in [Cpus -> [Idx -> TriggerState]] /\ trig'[k] = t
         /\ \A c \in up' : Busy(c)' \/ c \in uncleared' \/ Holds(c, TRUE)'
         /\ \A c \in Cpus \ up' : Busy(c)' \/ Quiet(c)'
  <1>1. trig \in [Cpus -> [Idx -> TriggerState]]
    BY DEF Triggers
  <1>2. /\ trig' \in [Cpus -> [Idx -> TriggerState]] /\ trig'[k] = t
        /\ \A c \in Cpus : c # k => trig'[c] = trig[c]
    BY <1>1
  <1>3. UNCHANGED <<resolved_addrs, up>> /\ up \subseteq Cpus
    BY DEF hotplug, Control
  <1>4. Busy(k)'
    BY DEF Busy
  <1>5. \A c \in Cpus : c # k => /\ trig'[c] = trig[c]
                                 /\ c \in uncleared' <=> c \in uncleared
                                 /\ c \in unstopped' <=> c \in unstopped
                                 /\ c \in up' <=> c \in up
    BY <1>2, <1>3
  <1> QED
    BY <1>2, <1>3, <1>4, <1>5, OthersStay

\* Where all triggers are free the firmware gives the n-th message the n-th
\* trigger, so index and trigger agree.
LEMMA InstallsInOrder ==
  ASSUME \A i \in Idx : trig[cpu][i] = Free
  PROVE  FreeTriggers = Idx /\ \A i \in Idx : FreeBelow(i) = i
  <1>1. FreeTriggers = Idx
    BY DEF FreeTriggers
  <1>2. ASSUME NEW i \in Idx PROVE FreeBelow(i) = i
    <2>1. i \in Nat /\ i < NumTriggers /\ NumTriggers \in Nat
      BY TriggerAssumption DEF Idx
    <2>2. { j \in FreeTriggers : j < i } = 0 .. i - 1
      <3>1. \A j : j \in Idx /\ j < i <=> j \in 0 .. i - 1
        BY <2>1 DEF Idx
      <3> QED
        BY <1>1, <3>1
    <2>3. Cardinality(0 .. i - 1) = IF 0 > i - 1 THEN 0 ELSE (i - 1) - 0 + 1
      BY <2>1, FS_Interval
    <2>4. Cardinality(0 .. i - 1) = i
      BY <2>1, <2>3
    <2> QED
      BY <2>2, <2>4 DEF FreeBelow
  <1> QED
    BY <1>1, <1>2

\* Installing the messages.
LEMMA InstallTriggers == Control /\ Triggers /\ Install => Triggers'
  <1> SUFFICES ASSUME Control, Triggers, Install PROVE Triggers'
    OBVIOUS
  <1>1. /\ pc = "install" /\ cpu' = cpu /\ UNCHANGED hotplug /\ UNCHANGED history
        /\ uncleared' = uncleared /\ unstopped' = unstopped /\ UNCHANGED resolved_addrs
    BY DEF Install, Goto, history, hotplug
  <1>2. PICK k \in Cpus : k = cpu
    BY <1>1 DEF Control, OnlineSteps
  <1>3. trig \in [Cpus -> [Idx -> TriggerState]]
    BY DEF Triggers
  <1>4. cpu \in uncleared \/ \A i \in Idx : trig[cpu][i] = Free
    BY <1>1 DEF Triggers
  <1>5. CASE pc' = "enable" /\
             SetTrig([i \in Idx |-> IF i \in FreeTriggers /\ FreeBelow(i) \in trig_set
                                       THEN [addr |-> tdata2(FreeBelow(i)), on |-> FALSE]
                                       ELSE trig[cpu][i]])
    <2> DEFINE t == [i \in Idx |-> IF i \in FreeTriggers /\ FreeBelow(i) \in trig_set
                                      THEN [addr |-> tdata2(FreeBelow(i)), on |-> FALSE]
                                      ELSE trig[cpu][i]]
    <2>1. t \in [Idx -> TriggerState]
      <3> SUFFICES ASSUME NEW i \in Idx
                   PROVE  (IF i \in FreeTriggers /\ FreeBelow(i) \in trig_set
                             THEN [addr |-> tdata2(FreeBelow(i)), on |-> FALSE]
                             ELSE trig[cpu][i]) \in TriggerState
        OBVIOUS
      <3>1. FreeBelow(i) \in trig_set => tdata2(FreeBelow(i)) \in Nat
        BY Indices
      <3> QED
        BY <1>2, <1>3, <3>1 DEF TriggerState
    <2>2. trig' = [trig EXCEPT ![k] = t]
      BY <1>2, <1>5 DEF SetTrig
    <2>3. (\A i \in Idx : trig[cpu][i] = Free) =>
             \A i \in Idx : t[i] = IF i \in trig_set THEN [addr |-> tdata2(i), on |-> FALSE]
                                                     ELSE Free
      BY InstallsInOrder
    <2> HIDE DEF t
    <2>4. /\ trig' \in [Cpus -> [Idx -> TriggerState]] /\ trig'[k] = t
          /\ \A c \in up' : Busy(c)' \/ c \in uncleared' \/ Holds(c, TRUE)'
          /\ \A c \in Cpus \ up' : Busy(c)' \/ Quiet(c)'
      BY <1>1, <1>2, <1>5, <2>1, <2>2, SetTrigStep
    <2>5. cpu' \in uncleared' \/ Holds(cpu, FALSE)'
      BY <1>1, <1>2, <1>4, <2>3, <2>4, AddressesStay DEF Holds
    <2> QED
      BY <1>5, <2>4, <2>5 DEF Triggers
  <1>6. CASE pc' = "free" /\ trig' = trig
    <2>1. trig' = [trig EXCEPT ![k] = trig[k]] /\ trig[k] \in [Idx -> TriggerState]
      BY <1>3, <1>6
    <2>2. /\ trig' \in [Cpus -> [Idx -> TriggerState]]
          /\ \A c \in up' : Busy(c)' \/ c \in uncleared' \/ Holds(c, TRUE)'
          /\ \A c \in Cpus \ up' : Busy(c)' \/ Quiet(c)'
      BY <1>1, <1>2, <1>6, <2>1, SetTrigStep
    <2>3. Quiet(cpu)'
      <3>1. (\A i \in Idx : trig[cpu][i] = Free) => Silent(cpu)'
        BY <1>1, <1>6 DEF Silent, Free
      <3> QED
        BY <1>1, <1>4, <3>1 DEF Quiet
    <2> QED
      BY <1>6, <2>2, <2>3 DEF Triggers
  <1> QED
    BY <1>5, <1>6 DEF Install, Goto

\* What ENABLE and DISABLE make of a CPU's triggers.
LEMMA SwitchedTriggers ==
  ASSUME Triggers, cpu \in Cpus, NEW s, NEW on \in BOOLEAN
  PROVE  /\ Switched(s, on) \in [Idx -> TriggerState]
         /\ \A i \in Idx : /\ i \in s /\ trig[cpu][i] # Free =>
                                 Switched(s, on)[i] = [addr |-> trig[cpu][i].addr, on |-> on]
                           /\ i \notin s \/ trig[cpu][i] = Free =>
                                 Switched(s, on)[i] = trig[cpu][i]
  <1>1. \A i \in Idx : trig[cpu][i] \in TriggerState
    BY DEF Triggers
  <1>2. ASSUME NEW i \in Idx
        PROVE  [trig[cpu][i] EXCEPT !.on = on] = [addr |-> trig[cpu][i].addr, on |-> on]
    BY <1>1 DEF TriggerState
  <1>3. ASSUME NEW i \in Idx PROVE [addr |-> trig[cpu][i].addr, on |-> on] \in TriggerState
    BY <1>1 DEF TriggerState
  <1> QED
    BY <1>1, <1>2, <1>3 DEF Switched

\* Switching the triggers on, all of them or, when it fails, some.
LEMMA EnableTriggers == Control /\ Triggers /\ Enable => Triggers'
  <1> SUFFICES ASSUME Control, Triggers, Enable PROVE Triggers'
    OBVIOUS
  <1>1. /\ pc = "enable" /\ cpu' = cpu /\ UNCHANGED hotplug
        /\ uncleared' = uncleared /\ unstopped' = unstopped /\ UNCHANGED resolved_addrs
    BY DEF Enable, Goto, history, hotplug
  <1>2. PICK k \in Cpus : k = cpu
    BY <1>1 DEF Control, OnlineSteps
  <1>3. PICK s \in SUBSET trig_set :
          /\ SetTrig(Switched(s, TRUE))
          /\ pc' = "undo" \/ (pc' = "read" /\ s = trig_set)
    BY DEF Enable, Goto
  <1> DEFINE t == Switched(s, TRUE)
  <1>4. /\ t \in [Idx -> TriggerState]
        /\ \A i \in Idx : /\ i \in s /\ trig[k][i] # Free =>
                                t[i] = [addr |-> trig[k][i].addr, on |-> TRUE]
                          /\ i \notin s \/ trig[k][i] = Free => t[i] = trig[k][i]
    BY <1>2, SwitchedTriggers
  <1>5. trig' = [trig EXCEPT ![k] = t]
    BY <1>2, <1>3 DEF SetTrig
  <1> HIDE DEF t
  <1>6. /\ trig' \in [Cpus -> [Idx -> TriggerState]] /\ trig'[k] = t
        /\ \A c \in up' : Busy(c)' \/ c \in uncleared' \/ Holds(c, TRUE)'
        /\ \A c \in Cpus \ up' : Busy(c)' \/ Quiet(c)'
    BY <1>1, <1>2, <1>3, <1>4, <1>5, SetTrigStep
  <1>7. cpu \in uncleared \/ Holds(k, FALSE)
    BY <1>1, <1>2 DEF Triggers
  <1>8. ASSUME Holds(k, FALSE), NEW i \in Idx
        PROVE  /\ i \in trig_set => trig[k][i] # Free /\ trig[k][i].addr = tdata2(i)
                                    /\ trig[k][i] = [addr |-> tdata2(i), on |-> FALSE]
               /\ i \notin trig_set => trig[k][i] = Free
    <2>1. CASE i \in trig_set
      <3>1. trig[k][i] = [addr |-> tdata2(i), on |-> FALSE]
        BY <1>8, <2>1 DEF Holds
      <3>2. tdata2(i) # 0
        BY <2>1, Indices
      <3> QED
        BY <2>1, <3>1, <3>2 DEF Free
    <2>2. CASE i \notin trig_set
      BY <1>8, <2>2 DEF Holds
    <2> QED
      BY <2>1, <2>2
  <1>9. CASE pc' = "read" /\ s = trig_set
    <2>1. ASSUME Holds(k, FALSE), NEW i \in Idx
          PROVE  t[i] = IF i \in trig_set THEN [addr |-> tdata2(i), on |-> TRUE] ELSE Free
      BY <1>4, <1>8, <1>9, <2>1
    <2>2. cpu' \in uncleared' \/ Holds(cpu, TRUE)'
      BY <1>1, <1>2, <1>6, <1>7, <2>1, AddressesStay DEF Holds
    <2> QED
      BY <1>6, <1>9, <2>2 DEF Triggers
  <1>10. CASE pc' = "undo"
    <2>1. ASSUME Holds(k, FALSE), NEW i \in Idx, i \notin trig_set
          PROVE  t[i] = Free
      BY <1>4, <1>8, <2>1
    <2>2. ASSUME Holds(k, FALSE), NEW i \in Idx, t[i].on PROVE i \in trig_set
      <3>1. Free.on = FALSE
        BY DEF Free
      <3> QED
        BY <2>1, <2>2, <3>1
    <2>3. cpu' \in uncleared' \/ \A i \in Idx : trig'[cpu'][i].on => i \in trig_set'
      BY <1>1, <1>2, <1>6, <1>7, <2>2, AddressesStay
    <2> QED
      BY <1>6, <1>10, <2>3 DEF Triggers
  <1> QED
    BY <1>3, <1>9, <1>10

\* A CPU that loses its triggers, or where the firmware refused to stop them.
\* The step ends in `label', where the CPU is known to be quiet.
LEMMA QuietStep ==
  ASSUME Control, Triggers, NEW k \in Cpus, k = cpu, pc # "none",
         cpu' = cpu, UNCHANGED hotplug,
         pc' \in {"free", "uninstall", "release"},
         NEW t \in [Idx -> TriggerState], trig' = [trig EXCEPT ![k] = t],
         uncleared' = uncleared, unstopped' \in {unstopped, unstopped \cup {k}},
         \/ k \in uncleared' \cup unstopped'
         \/ \A i \in Idx : t[i].on => t[i] = Stale
  PROVE  Triggers'
  <1>1. pc' # "none"
    OBVIOUS
  <1>2. /\ trig' \in [Cpus -> [Idx -> TriggerState]] /\ trig'[k] = t
        /\ \A c \in up' : Busy(c)' \/ c \in uncleared' \/ Holds(c, TRUE)'
        /\ \A c \in Cpus \ up' : Busy(c)' \/ Quiet(c)'
    BY <1>1, SetTrigStep
  <1>3. Quiet(cpu)'
    BY <1>2 DEF Quiet, Silent
  <1> QED
    BY <1>2, <1>3 DEF Triggers

\* Switching the triggers off, in online after a failed ENABLE and in offline.
LEMMA DisablingTriggers ==
  ASSUME Control, Triggers, NEW label, Disabling(label), cpu \in Cpus,
         \/ pc = "undo" /\ label = "free"
         \/ pc = "disable" /\ label = "uninstall"
  PROVE  Triggers'
  <1>1. /\ pc' = label /\ cpu' = cpu /\ UNCHANGED hotplug /\ pc # "none"
        /\ pc' \in {"free", "uninstall", "release"}
    BY DEF Disabling, Goto
  <1>2. PICK k \in Cpus : k = cpu
    OBVIOUS
  <1>3. trig \in [Cpus -> [Idx -> TriggerState]]
    BY DEF Triggers
  <1>4. CASE Refuses /\ UNCHANGED trig
    <2>1. uncleared' = uncleared /\ unstopped' = unstopped \cup {k}
      BY <1>2, <1>4 DEF Refuses
    <2>2. trig' = [trig EXCEPT ![k] = trig[k]] /\ trig[k] \in [Idx -> TriggerState]
      BY <1>3, <1>4
    <2>3. k \in uncleared' \cup unstopped'
      BY <2>1
    <2> QED
      BY <1>1, <1>2, <2>1, <2>2, <2>3, QuietStep
  <1>5. CASE SetTrig(Switched(trig_set, FALSE)) /\ UNCHANGED history
    <2> DEFINE t == Switched(trig_set, FALSE)
    <2>1. uncleared' = uncleared /\ unstopped' = unstopped
      BY <1>5 DEF history
    <2>2. /\ t \in [Idx -> TriggerState]
          /\ \A i \in Idx : /\ i \in trig_set /\ trig[k][i] # Free =>
                                  t[i] = [addr |-> trig[k][i].addr, on |-> FALSE]
                            /\ i \notin trig_set \/ trig[k][i] = Free => t[i] = trig[k][i]
      BY <1>2, SwitchedTriggers
    <2>3. trig' = [trig EXCEPT ![k] = t]
      BY <1>2, <1>5 DEF SetTrig
    <2> HIDE DEF t
    <2>4. k \in uncleared \/ \A i \in Idx : trig[k][i].on => i \in trig_set
      <3>1. CASE pc = "undo"
        BY <1>2, <3>1 DEF Triggers
      <3>2. CASE pc = "disable"
        <4>1. k \in uncleared \/ Holds(k, TRUE)
          BY <1>2, <3>2 DEF Triggers
        <4>2. ASSUME Holds(k, TRUE), NEW i \in Idx, trig[k][i].on PROVE i \in trig_set
          <5>1. Free.on = FALSE
            BY DEF Free
          <5> QED
            BY <4>2, <5>1 DEF Holds
        <4> QED
          BY <4>1, <4>2
      <3> QED
        BY <3>1, <3>2
    <2>5. ASSUME \A i \in Idx : trig[k][i].on => i \in trig_set, NEW i \in Idx
          PROVE  t[i].on = FALSE
      <3>1. trig[k][i].on \in BOOLEAN
        BY <1>3 DEF TriggerState
      <3>2. CASE i \in trig_set /\ trig[k][i] # Free
        BY <2>2, <3>2
      <3>3. CASE trig[k][i] = Free
        BY <2>2, <3>3 DEF Free
      <3>4. CASE i \notin trig_set
        BY <2>2, <2>5, <3>1, <3>4
      <3> QED
        BY <3>2, <3>3, <3>4
    <2>6. k \in uncleared' \cup unstopped' \/ \A i \in Idx : t[i].on => t[i] = Stale
      BY <2>1, <2>4, <2>5
    <2> QED
      BY <1>1, <1>2, <2>1, <2>2, <2>3, <2>6, QuietStep
  <1> QED
    BY <1>4, <1>5 DEF Disabling

\* Uninstalling the triggers of the module.
LEMMA UninstallTriggers == Control /\ Triggers /\ Uninstall => Triggers'
  <1> SUFFICES ASSUME Control, Triggers, Uninstall PROVE Triggers'
    OBVIOUS
  <1>1. /\ pc = "uninstall" /\ pc' = "release" /\ cpu' = cpu /\ UNCHANGED hotplug
        /\ pc # "none" /\ pc' \in {"free", "uninstall", "release"}
    BY DEF Uninstall, Goto
  <1>2. PICK k \in Cpus : k = cpu
    BY <1>1 DEF Control, OfflineSteps
  <1>3. trig \in [Cpus -> [Idx -> TriggerState]]
    BY DEF Triggers
  <1>4. CASE Refuses /\ UNCHANGED trig
    <2>1. uncleared' = uncleared /\ unstopped' = unstopped \cup {k}
      BY <1>2, <1>4 DEF Refuses
    <2>2. trig' = [trig EXCEPT ![k] = trig[k]] /\ trig[k] \in [Idx -> TriggerState]
      BY <1>3, <1>4
    <2>3. k \in uncleared' \cup unstopped'
      BY <2>1
    <2> QED
      BY <1>1, <1>2, <2>1, <2>2, <2>3, QuietStep
  <1>5. CASE /\ SetTrig([i \in Idx |-> IF i \in trig_set THEN Free ELSE trig[cpu][i]])
             /\ UNCHANGED history
    <2> DEFINE t == [i \in Idx |-> IF i \in trig_set THEN Free ELSE trig[k][i]]
    <2>1. uncleared' = uncleared /\ unstopped' = unstopped
      BY <1>5 DEF history
    <2>2. t \in [Idx -> TriggerState]
      <3>1. Free \in TriggerState
        BY DEF Free, TriggerState
      <3> QED
        BY <1>3, <3>1
    <2>3. trig' = [trig EXCEPT ![k] = t]
      BY <1>2, <1>5 DEF SetTrig
    <2>4. k \in uncleared \cup unstopped \/ Silent(k)
      BY <1>1, <1>2 DEF Triggers, Quiet
    <2>5. Silent(k) => \A i \in Idx : t[i].on => t[i] = Stale
      <3>1. Free.on = FALSE
        BY DEF Free
      <3> QED
        BY <3>1 DEF Silent
    <2> HIDE DEF t
    <2> QED
      BY <1>1, <1>2, <2>1, <2>2, <2>3, <2>4, <2>5, QuietStep
  <1> QED
    BY <1>4, <1>5 DEF Uninstall

\* The callback returns: its CPU is up with its triggers on, or down and quiet.
LEMMA ReturnTriggers ==
  ASSUME Control, Triggers, NEW k \in Cpus, k = cpu, pc # "none", pc' = "none",
         UNCHANGED <<resolved_addrs, trig, uncleared, unstopped>>,
         \/ up' = up \cup {k} /\ (k \in uncleared \/ Holds(k, TRUE))
         \/ up' = up \ {k} /\ Quiet(k)
  PROVE  Triggers'
  <1>1. up' \subseteq Cpus
    BY DEF Control
  <1>2. Holds(k, TRUE)' = Holds(k, TRUE) /\ (Quiet(k)' <=> Quiet(k))
    BY AddressesStay DEF Holds, Quiet, Silent
  <1>3. \A c \in Cpus : c # k => /\ trig'[c] = trig[c]
                                 /\ c \in uncleared' <=> c \in uncleared
                                 /\ c \in unstopped' <=> c \in unstopped
                                 /\ c \in up' <=> c \in up
    OBVIOUS
  <1>4. /\ k \in up' => k \in uncleared' \/ Holds(k, TRUE)'
        /\ k \notin up' => Quiet(k)'
    BY <1>2
  <1>5. /\ \A c \in up' : Busy(c)' \/ c \in uncleared' \/ Holds(c, TRUE)'
        /\ \A c \in Cpus \ up' : Busy(c)' \/ Quiet(c)'
    BY <1>1, <1>3, <1>4, OthersStay
  <1> QED
    BY <1>5 DEF Triggers

\* A step of the callback that leaves the triggers alone.
LEMMA PassTriggers ==
  ASSUME Control, Triggers, cpu \in Cpus, pc # "none", cpu' = cpu, UNCHANGED hotplug,
         UNCHANGED trig, uncleared' = uncleared,
         \/ unstopped' = unstopped /\ pc' \in {"set_shmem", "free"} /\ Quiet(cpu)
         \/ unstopped' = unstopped /\ pc' = "uninstall_all"
         \/ unstopped' = unstopped \cup {cpu} /\ pc' = "free"
  PROVE  Triggers'
  <1>1. PICK k \in Cpus : k = cpu
    OBVIOUS
  <1>2. trig' = [trig EXCEPT ![k] = trig[k]] /\ trig[k] \in [Idx -> TriggerState]
    BY DEF Triggers
  <1>3. pc' # "none" /\ unstopped' \in {unstopped, unstopped \cup {k}}
    BY <1>1
  <1>4. /\ trig' \in [Cpus -> [Idx -> TriggerState]]
        /\ \A c \in up' : Busy(c)' \/ c \in uncleared' \/ Holds(c, TRUE)'
        /\ \A c \in Cpus \ up' : Busy(c)' \/ Quiet(c)'
    BY <1>1, <1>2, <1>3, SetTrigStep
  <1>5. pc' # "uninstall_all" => Quiet(cpu)'
    BY DEF Quiet, Silent
  <1> QED
    BY <1>4, <1>5 DEF Triggers

\* A step of the hotplug core: the triggers stay, a callback may begin.
LEMMA IdleTriggers ==
  ASSUME Control, Triggers, pc = "none", UNCHANGED <<trig, uncleared, unstopped, up>>,
         resolved_addrs' = resolved_addrs \/ up = {},
         \/ pc' = "none"
         \/ pc' = "alloc" /\ cpu' \in Cpus \ up
         \/ pc' = "disable" /\ cpu' \in up
  PROVE  Triggers'
  <1>1. \A c \in Cpus : Quiet(c)' <=> Quiet(c)
    BY DEF Quiet, Silent
  <1>2. \A c \in up : Holds(c, TRUE)' <=> Holds(c, TRUE)
    BY AddressesStay DEF Holds
  <1>3. /\ \A c \in up : c \in uncleared \/ Holds(c, TRUE)
        /\ \A c \in Cpus \ up : Quiet(c)
    BY DEF Triggers, Busy
  <1>4. /\ \A c \in up' : Busy(c)' \/ c \in uncleared' \/ Holds(c, TRUE)'
        /\ \A c \in Cpus \ up' : Busy(c)' \/ Quiet(c)'
    BY <1>1, <1>2, <1>3 DEF Control
  <1>5. pc' = "alloc" => Quiet(cpu)'
    BY <1>3 DEF Quiet, Silent
  <1>6. pc' = "disable" => cpu' \in uncleared' \/ Holds(cpu, TRUE)'
    BY <1>3, AddressesStay DEF Holds
  <1> QED
    BY <1>4, <1>5, <1>6 DEF Triggers

\* Every step keeps what is known of the triggers.
LEMMA NextTriggers == Control /\ Triggers /\ [Next]_vars => Triggers'
  <1> SUFFICES ASSUME Control, Triggers, [Next]_vars PROVE Triggers'
    OBVIOUS
  <1>1. pc \in OnlineSteps \cup OfflineSteps => cpu \in Cpus
    BY DEF Control
  <1>2. CASE Alloc
    <2>1. pc = "alloc" /\ cpu \in Cpus \ up /\ UNCHANGED <<trig, uncleared, unstopped>>
          /\ Quiet(cpu)
      BY <1>2 DEF Alloc, firmware, history, Control, OnlineSteps, Triggers
    <2>2. CASE Fails
      <3>1. pc' = "none" /\ up' = up \ {cpu} /\ UNCHANGED resolved_addrs
        BY <2>1, <2>2 DEF Fails, Returns
      <3> QED
        BY <2>1, <3>1, ReturnTriggers
    <2>3. CASE Goto("set_shmem") /\ UNCHANGED hotplug
      BY <2>1, <2>3, PassTriggers DEF Goto
    <2> QED
      BY <1>2, <2>2, <2>3 DEF Alloc
  <1>3. CASE SetShmem
    <2>1. pc = "set_shmem" /\ cpu \in Cpus /\ UNCHANGED <<trig, uncleared, unstopped, hotplug>>
          /\ Quiet(cpu) /\ cpu' = cpu /\ pc' \in {"uninstall_all", "free"}
      BY <1>1, <1>3 DEF SetShmem, history, OnlineSteps, Triggers, Goto
    <2> QED
      BY <2>1, PassTriggers
  <1>4. CASE UninstallAll
    BY <1>4, UninstallAllTriggers
  <1>5. CASE Install
    BY <1>5, InstallTriggers
  <1>6. CASE Enable
    BY <1>6, EnableTriggers
  <1>7. CASE Undo
    BY <1>1, <1>7, DisablingTriggers DEF Undo, OnlineSteps
  <1>8. CASE Read
    <2>1. pc = "read" /\ cpu \in Cpus /\ UNCHANGED trig
          /\ (cpu \in uncleared \/ Holds(cpu, TRUE))
      BY <1>1, <1>8 DEF Read, firmware, OnlineSteps, Triggers
    <2>2. CASE Succeeds /\ UNCHANGED history
      <3>1. /\ pc' = "none" /\ up' = up \cup {cpu}
            /\ UNCHANGED <<resolved_addrs, uncleared, unstopped>>
        BY <2>2 DEF Succeeds, Returns, history
      <3> QED
        BY <2>1, <3>1, ReturnTriggers
    <2>3. CASE Goto("free") /\ Refuses /\ UNCHANGED hotplug
      BY <2>1, <2>3, PassTriggers DEF Goto, Refuses
    <2> QED
      BY <1>8, <2>2, <2>3 DEF Read
  <1>9. CASE Free_
    <2>1. /\ pc = "free" /\ cpu \in Cpus \ up /\ Quiet(cpu) /\ pc' = "none"
          /\ UNCHANGED <<trig, uncleared, unstopped, resolved_addrs, up>>
      BY <1>9 DEF Free_, Releases, Fails, Returns, history, Control, OnlineSteps, Triggers
    <2>2. up' = up \ {cpu}
      BY <2>1
    <2> QED
      BY <2>1, <2>2, ReturnTriggers
  <1>10. CASE Disable
    BY <1>1, <1>10, DisablingTriggers DEF Disable, OfflineSteps
  <1>11. CASE Uninstall
    BY <1>11, UninstallTriggers
  <1>12. CASE Release
    <2>1. /\ pc = "release" /\ cpu \in Cpus /\ Quiet(cpu) /\ pc' = "none"
          /\ up' = up \ {cpu}
          /\ UNCHANGED <<trig, uncleared, unstopped, resolved_addrs>>
      BY <1>1, <1>12 DEF Release, Releases, Returns, history, OfflineSteps, Triggers
    <2> QED
      BY <2>1, ReturnTriggers
  <1>13. CASE Load \/ LoadFaults \/ Loaded \/ Exit \/ Removed
    <2>1. /\ pc = "none" /\ pc' = "none" /\ UNCHANGED <<trig, uncleared, unstopped, up>>
          /\ resolved_addrs' = resolved_addrs \/ up = {}
      BY <1>13 DEF Load, LoadFaults, Loaded, Exit, Removed, Idle, firmware, history, Control
    <2> QED
      BY <2>1, IdleTriggers
  <1>14. ASSUME NEW c \in Cpus, SetupCpu(c) \/ CpuUp(c) PROVE Triggers'
    <2>1. /\ pc = "none" /\ pc' = "alloc" /\ cpu' = c /\ c \in Cpus \ up
          /\ UNCHANGED <<trig, uncleared, unstopped, up, resolved_addrs>>
      BY <1>14 DEF SetupCpu, CpuUp, Calls, Idle, firmware, history, Control
    <2> QED
      BY <2>1, IdleTriggers
  <1>15. ASSUME NEW c \in Cpus, CpuDown(c) \/ RemoveCpu(c) PROVE Triggers'
    <2>1. /\ pc = "none" /\ pc' = "disable" /\ cpu' = c /\ c \in up
          /\ UNCHANGED <<trig, uncleared, unstopped, up, resolved_addrs>>
      BY <1>15 DEF CpuDown, RemoveCpu, Calls, Idle, firmware, history
    <2> QED
      BY <2>1, IdleTriggers
  <1>16. CASE UNCHANGED vars
    <2>1. UNCHANGED <<pc, cpu, up, resolved_addrs, trig, uncleared, unstopped>>
      BY <1>16 DEF vars, hotplug, firmware, history
    <2>2. \A c : /\ Holds(c, TRUE)' = Holds(c, TRUE) /\ Holds(c, FALSE)' = Holds(c, FALSE)
                 /\ Quiet(c)' = Quiet(c) /\ Busy(c)' = Busy(c)
      BY <2>1, AddressesStay DEF Holds, Quiet, Silent, Busy
    <2>3. trig_set' = trig_set
      BY <2>1, AddressesStay
    <2>4. Quiet(cpu)' = Quiet(cpu) /\ Holds(cpu, TRUE)' = Holds(cpu, TRUE)
          /\ Holds(cpu, FALSE)' = Holds(cpu, FALSE)
      BY <2>1, AddressesStay DEF Holds, Quiet, Silent
    <2> QED
      BY <2>1, <2>2, <2>3, <2>4 DEF Triggers
  <1> QED
    BY <1>2, <1>3, <1>4, <1>5, <1>6, <1>7, <1>8, <1>9, <1>10, <1>11, <1>12, <1>13,
       <1>14, <1>15, <1>16 DEF Next, Callback, Hotplug, Stuck

-----------------------------------------------------------------------------
(***************************************************************************)
(* The theorems.                                                           *)
(***************************************************************************)
\* The initial state satisfies the invariant: only the triggers somebody else
\* has left behind are installed.
LEMMA InitIInv == Init => IInv
  <1> SUFFICES ASSUME Init PROVE IInv
    OBVIOUS
  <1>1. Control
    <2>1. << >> \in Seq(Nat) /\ Len(<< >>) <= NumTriggers
      BY TriggerAssumption
    <2> QED
      BY <2>1 DEF Init, Control, OnlineSteps, OfflineSteps
  <1>2. Memory
    BY DEF Init, Memory, Busy
  <1>3. Triggers
    <2>1. Free \in TriggerState /\ Stale \in TriggerState /\ Free.on = FALSE
      BY DEF Free, Stale, TriggerState
    <2>2. trig \in [Cpus -> [Idx -> TriggerState]]
      BY <2>1 DEF Init
    <2>3. \A c \in Cpus : \A i \in Idx : trig[c][i] \in {Free, Stale}
      BY DEF Init
    <2>4. \A c \in Cpus : Silent(c)
      BY <2>1, <2>3 DEF Silent
    <2> QED
      BY <2>2, <2>4 DEF Init, Triggers, Quiet
  <1> QED
    BY <1>1, <1>2, <1>3 DEF IInv

\* The invariant holds throughout.
LEMMA AlwaysIInv == Spec => []IInv
  <1>1. IInv /\ [Next]_vars => IInv'
    BY NextControl, NextMemory, NextTriggers DEF IInv
  <1> QED
    BY <1>1, InitIInv, PTL DEF Spec

\* The addresses always fit the triggers there are (rvtrace-trigger.c:233-236).
THEOREM TriggerTypes == Spec => []TypeOK
  <1>1. IInv => TypeOK
    <2> SUFFICES ASSUME IInv PROVE TypeOK
      OBVIOUS
    <2>1. {shmem_msgs[c] : c \in Cpus} \cup {shmem[c] : c \in Cpus} \subseteq Buffers \cup {NULL}
      BY DEF IInv, Memory
    <2>2. trig \in [Cpus -> [Idx -> [addr : Nat, on : BOOLEAN]]]
      BY DEF IInv, Triggers, TriggerState
    <2> QED
      BY <2>1, <2>2 DEF IInv, Control, Memory, TypeOK
  <1> QED
    BY <1>1, AlwaysIInv, PTL

\* The firmware never holds memory the kernel has freed, for any number of CPUs
\* and whatever calls it refuses (rvtrace-trigger.c:118-129).
THEOREM FirmwareMemoryAlwaysLive == Spec => []FirmwareMemoryIsLive
  <1>1. IInv => FirmwareMemoryIsLive
    BY DEF IInv, Memory, FirmwareMemoryIsLive
  <1> QED
    BY <1>1, AlwaysIInv, PTL

\* No memory is shared between two CPUs, and none is leaked but what the firmware
\* has refused to give back (rvtrace-trigger.c:122-128).
THEOREM MemoryAlwaysAccountedFor == Spec => []MemoryIsAccountedFor
  <1>1. IInv => MemoryIsAccountedFor
    BY DEF IInv, Memory, MemoryIsAccountedFor
  <1> QED
    BY <1>1, AlwaysIInv, PTL

\* A CPU that is set up emits a SYNC at every address resolved, for every number
\* of triggers and addresses and whatever was left in the triggers, if that could
\* be uninstalled (rvtrace-trigger.c:157-191).
THEOREM UpAlwaysTriggered == Spec => []UpMeansTriggered
  <1>1. IInv => UpMeansTriggered
    <2> SUFFICES ASSUME IInv, NEW c \in up, c \notin uncleared, ~Busy(c),
                        NEW i \in Resolved
                 PROVE  trig[c][trig_idx(i)] = [addr |-> resolved_addrs[i], on |-> TRUE]
      BY DEF UpMeansTriggered, Busy
    <2>1. Holds(c, TRUE)
      BY DEF IInv, Triggers
    <2>2. trig_idx(i) \in Idx /\ tdata2(trig_idx(i)) = resolved_addrs[i]
      BY Indices DEF IInv
    <2>3. trig_idx(i) \in trig_set
      BY DEF trig_set
    <2> QED
      BY <2>1, <2>2, <2>3 DEF Holds
  <1> QED
    BY <1>1, AlwaysIInv, PTL

\* A CPU the module has been taken off, or could not be put on, has no trigger of
\* the module that fires, unless the firmware refused to stop it or to read back
\* the triggers (rvtrace-trigger.c:175-194).
THEOREM DownAlwaysSilent == Spec => []DownMeansSilent
  <1>1. IInv => DownMeansSilent
    <2> SUFFICES ASSUME IInv, pc = "none", NEW c \in Cpus \ up
                 PROVE  \/ \A i \in Idx : trig[c][i].on => trig[c][i] = Stale
                        \/ c \in uncleared \cup unstopped
      BY DEF DownMeansSilent
    <2>1. Quiet(c)
      BY DEF IInv, Triggers, Busy
    <2> QED
      BY <2>1 DEF Quiet, Silent
  <1> QED
    BY <1>1, AlwaysIInv, PTL
=============================================================================

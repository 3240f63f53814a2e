------------------------------- MODULE Entry -------------------------------
(***************************************************************************)
(* Crossing between user mode and the kernel on one processor: the system  *)
(* call stub, the timer and PIC stubs, the exception path and the context  *)
(* switch of kernel/interrupts.s, with isr_handler (kernel/idt.c), the     *)
(* switch tail of schedule() and the first entry (kernel/entry.c).         *)
(*                                                                         *)
(* A user context (RIP, RSP, RFLAGS) and an FPU state are named by the     *)
(* thread they belong to.  The kernel runs with interrupts disabled, so    *)
(* interrupts and exceptions arrive in user mode.                          *)
(***************************************************************************)
EXTENDS Integers, FiniteSets

CONSTANTS EntThreads

VARIABLES
    entCur,       \* the current thread
    entAt,        \* where each thread is: new, user, syscall, irq, fault, dead
    entUser,      \* the user context loaded in the processor, or "none" in the kernel
    entScratch,   \* cpu_syscall_gs: the saved user context and kernel_rsp
    entFrame,     \* the interrupt frame on each thread's kernel stack
    entRsp0,      \* tss.rsp0
    entGs,        \* MSR_GS_BASE: "user" (0) or "kernel" (&cpu_syscall_gs)
    entGsBad,     \* history: %gs was used while it was not the scratch area
    entFpu,       \* whose FPU state the processor holds, or "zero"
    entExt,       \* extended_state of each thread
    entPic        \* interrupts in service, [master, slave]

entVars == <<entCur, entAt, entUser, entScratch, entFrame, entRsp0, entGs, entGsBad,
             entFpu, entExt, entPic>>

PicIdle == [master |-> {}, slave |-> {}]

\* the first thread has been dispatched and is about to enter user mode
EntInit ==
    /\ entCur \in EntThreads
    /\ entAt = [t \in EntThreads |-> "new"]
    /\ entUser = "none"
    /\ entScratch = [user |-> "none", kernel |-> entCur]
    /\ entFrame = [t \in EntThreads |-> "none"]
    /\ entRsp0 = entCur
    /\ entGs = "user" /\ entGsBad = FALSE
    /\ entFpu = "zero" /\ entExt = [t \in EntThreads |-> "zero"]
    /\ entPic = PicIdle

-----------------------------------------------------------------------------
(* The context switch: the tail of schedule() and context_switch.           *)

context_switch(old, new) ==
    /\ entExt' = [entExt EXCEPT ![old] = entFpu]
    /\ entFpu' = entExt[new]

SwitchTail(new) ==
    /\ entCur' = new
    /\ entRsp0' = new                                          \* tss_set_stack
    /\ entScratch' = [entScratch EXCEPT !.kernel = new]        \* syscall_set_kernel_stack

\* the kernel leaves the current thread, which is now at `at`, for another one
SwitchFrom(at) ==
    \E new \in EntThreads \ {entCur} :
       /\ entAt[new] # "dead"
       /\ entAt' = [entAt EXCEPT ![entCur] = at]
       /\ SwitchTail(new) /\ context_switch(entCur, new)

-----------------------------------------------------------------------------
(* First entry: entry_pipeline_run and user_mode_jump.                      *)

user_mode_jump ==
    /\ entAt' = [entAt EXCEPT ![entCur] = "user"]
    /\ entUser' = entCur /\ entFpu' = "zero"
\* the mode check of entry_verify panics instead of returning; a thread that enters passed it
entry_pipeline_run ==
    /\ entUser = "none" /\ entAt[entCur] = "new"
    /\ user_mode_jump
    /\ UNCHANGED <<entCur, entScratch, entFrame, entRsp0, entGs, entGsBad, entExt, entPic>>

\* user code computes with the FPU
UserRuns ==
    /\ entUser # "none" /\ entFpu' = entCur
    /\ UNCHANGED <<entCur, entAt, entUser, entScratch, entFrame, entRsp0, entGs, entGsBad,
                   entExt, entPic>>

-----------------------------------------------------------------------------
(* System calls.                                                            *)

\* syscall_entry up to the call of the dispatcher: GS, the user stack, RIP and RFLAGS
syscall_entry ==
    /\ entUser # "none"
    /\ entGs' = "kernel"
    /\ entScratch' = [entScratch EXCEPT !.user = entUser]
    /\ entUser' = "none"
    /\ entAt' = [entAt EXCEPT ![entCur] = "syscall"]
    /\ UNCHANGED <<entCur, entFrame, entRsp0, entGsBad, entFpu, entExt, entPic>>

\* the dispatcher calls schedule(): SYS_YIELD, SYS_WAIT, IPC; or SYS_EXIT
SyscallSwitches ==
    /\ entUser = "none" /\ entAt[entCur] = "syscall"
    /\ SwitchFrom("syscall") \/ SwitchFrom("dead")
    /\ UNCHANGED <<entUser, entFrame, entGs, entGsBad, entPic>>

\* the rest of the stub: scrub, GS again, the saved context, GS cleared, sysretq
SysretGs_Fault == entGs
SysretGs == "kernel"
SyscallReturns ==
    /\ entUser = "none" /\ entAt[entCur] = "syscall"
    /\ entGsBad' = (entGsBad \/ SysretGs # "kernel")
    /\ entUser' = entScratch.user
    /\ entGs' = "user" /\ entFpu' = "zero"
    /\ entAt' = [entAt EXCEPT ![entCur] = "user"]
    /\ UNCHANGED <<entCur, entScratch, entFrame, entRsp0, entExt, entPic>>

-----------------------------------------------------------------------------
(* Interrupts and exceptions from user mode: the frame goes on the stack    *)
(* that tss.rsp0 names.                                                     *)

Eoi(lines) == lines \ {i \in lines : \A j \in lines : i <= j}

\* what is in service when vector 32, 39 or 47 is delivered, genuine or spurious, and what
\* timer_stub, isr_spurious_39 and isr_spurious_47 leave in service
Raised(irq) ==
    [master |-> CASE irq = "timer" -> {0} [] irq = "irq7" -> {7} [] irq = "spurious7" -> {}
                  [] irq \in {"irq15", "spurious15"} -> {2},
     slave |-> IF irq = "irq15" THEN {7} ELSE {}]
Acknowledged(irq, pic) ==
    CASE irq = "timer" -> [pic EXCEPT !.master = Eoi(@)]
      [] irq \in {"irq7", "spurious7"} -> IF 7 \in pic.master THEN [pic EXCEPT !.master = Eoi(@)] ELSE pic
      [] irq \in {"irq15", "spurious15"} ->
           [master |-> Eoi(pic.master), slave |-> IF 7 \in pic.slave THEN Eoi(pic.slave) ELSE pic.slave]

\* timer_stub: acknowledge, then timer_handler, which may call schedule()
TimerInterrupt ==
    /\ entUser # "none"
    /\ entFrame' = [entFrame EXCEPT ![entRsp0] = entUser]
    /\ entUser' = "none"
    /\ entPic' = Acknowledged("timer", Raised("timer"))
    /\ \/ SwitchFrom("irq")
       \/ /\ entAt' = [entAt EXCEPT ![entCur] = "irq"]
          /\ UNCHANGED <<entCur, entScratch, entRsp0, entFpu, entExt>>
    /\ UNCHANGED <<entGs, entGsBad>>

\* iretq with the frame on the current thread's stack
InterruptReturns ==
    /\ entUser = "none" /\ entAt[entCur] \in {"irq", "fault"}
    /\ entUser' = entFrame[entCur]
    /\ entFrame' = [entFrame EXCEPT ![entCur] = "none"]
    /\ entAt' = [entAt EXCEPT ![entCur] = "user"]
    /\ UNCHANGED <<entCur, entScratch, entRsp0, entGs, entGsBad, entFpu, entExt, entPic>>

\* isr_spurious_39 and isr_spurious_47 interrupt and return
SpuriousInterrupt ==
    /\ entUser # "none"
    /\ \E irq \in {"irq7", "spurious7", "irq15", "spurious15"} :
          entPic' = Acknowledged(irq, Raised(irq))
    /\ UNCHANGED <<entCur, entAt, entUser, entScratch, entFrame, entRsp0, entGs, entGsBad,
                   entFpu, entExt>>

\* isr_handler for a user exception: a page fault that the lattice or the VMM resolves is
\* retried (the lattice may block first); any other ends in thread_exit
isr_handler ==
    /\ entUser # "none"
    /\ entFrame' = [entFrame EXCEPT ![entRsp0] = entUser]
    /\ entUser' = "none"
    /\ \/ /\ entAt' = [entAt EXCEPT ![entCur] = "fault"]
          /\ UNCHANGED <<entCur, entScratch, entRsp0, entFpu, entExt>>
       \/ SwitchFrom("fault")
       \/ SwitchFrom("dead")
    /\ UNCHANGED <<entGs, entGsBad, entPic>>

EntNext ==
    \/ entry_pipeline_run \/ UserRuns
    \/ syscall_entry \/ SyscallSwitches \/ SyscallReturns
    \/ TimerInterrupt \/ InterruptReturns \/ SpuriousInterrupt \/ isr_handler

EntSpec == EntInit /\ [][EntNext]_entVars

-----------------------------------------------------------------------------
(* Properties.                                                              *)

\* The kernel uses %gs only while it points at the scratch area, although another thread's
\* sysret may have cleared it while this one was switched out (interrupts.s, syscall_entry).
GsValidInKernel == ~entGsBad

\* An interrupt or a system call of the current thread starts on its own kernel stack: the
\* TSS and the system call area follow every switch.
KernelStackIsOwn == entRsp0 = entCur /\ entScratch.kernel = entCur

\* A thread in user mode computes with its own FPU state or a scrubbed one.
FpuStateIsOwn == entUser # "none" => entFpu \in {entCur, "zero"}

\* No interrupt stays in service in user mode, so the controller keeps delivering.
PicIdleInUserMode == entUser # "none" => entPic = PicIdle

\* What the processor holds for the current thread is that thread's own, whatever was switched,
\* interrupted or returned from before: %gs, kernel stack, FPU and interrupt controller.
ContextIsOwn ==
    /\ GsValidInKernel
    /\ KernelStackIsOwn
    /\ FpuStateIsOwn
    /\ PicIdleInUserMode
=============================================================================

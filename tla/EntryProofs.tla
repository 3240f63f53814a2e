---------------------------- MODULE EntryProofs ----------------------------
(***************************************************************************)
(* Proofs about the entry paths of kernel/interrupts.s.  EntryInv says of  *)
(* every register the stubs share what it holds between two steps: the     *)
(* FPU and the saved states belong to their threads also while a thread is *)
(* in the kernel or switched out, which is what makes a return correct.    *)
(***************************************************************************)
EXTENDS Entry, TLAPS

EntryType ==
    /\ entCur \in EntThreads
    /\ entScratch \in [user : EntThreads \cup {"none"}, kernel : EntThreads]
    /\ entUser \in EntThreads \cup {"none"}
    /\ entFrame \in [EntThreads -> EntThreads \cup {"none"}]
    /\ entExt \in [EntThreads -> EntThreads \cup {"zero"}]

\* The processor's and the saved FPU states are those of their threads or scrubbed.
OwnFpu ==
    /\ entFpu \in {entCur, "zero"}
    /\ \A t \in EntThreads : entExt[t] \in {t, "zero"}

EntryInv ==
    /\ EntryType
    /\ OwnFpu
    /\ KernelStackIsOwn
    /\ GsValidInKernel
    /\ entPic = PicIdle

-----------------------------------------------------------------------------
\* Whichever of the vectors 32, 39 and 47 is delivered, genuine or spurious, its stub leaves
\* nothing in service at either controller.
LEMMA AcknowledgedIsIdle ==
    ASSUME NEW irq \in {"timer", "irq7", "spurious7", "irq15", "spurious15"}
    PROVE  Acknowledged(irq, Raised(irq)) = PicIdle
<1>1. Eoi({}) = {} /\ Eoi({0}) = {} /\ Eoi({2}) = {} /\ Eoi({7}) = {}
  BY DEF Eoi
<1>2. CASE irq = "timer"
  BY <1>1, <1>2 DEF Acknowledged, Raised, PicIdle
<1>3. CASE irq = "irq7"
  BY <1>1, <1>3 DEF Acknowledged, Raised, PicIdle
<1>4. CASE irq = "spurious7"
  BY <1>1, <1>4 DEF Acknowledged, Raised, PicIdle
<1>5. CASE irq = "irq15"
  BY <1>1, <1>5 DEF Acknowledged, Raised, PicIdle
<1>6. CASE irq = "spurious15"
  BY <1>1, <1>6 DEF Acknowledged, Raised, PicIdle
<1> QED  BY <1>2, <1>3, <1>4, <1>5, <1>6

\* A switch hands the FPU, the TSS and the system call area over together.
LEMMA SwitchKeepsOwnership ==
    ASSUME EntryInv, NEW at, SwitchFrom(at)
    PROVE  /\ entCur' \in EntThreads
           /\ entScratch' \in [user : EntThreads \cup {"none"}, kernel : EntThreads]
           /\ entExt' \in [EntThreads -> EntThreads \cup {"zero"}]
           /\ OwnFpu'
           /\ KernelStackIsOwn'
<1> USE DEF EntryInv, EntryType, OwnFpu, KernelStackIsOwn
<1>1. PICK new \in EntThreads \ {entCur} : SwitchTail(new) /\ context_switch(entCur, new)
  BY DEF SwitchFrom
<1>2. /\ entCur' = new /\ entRsp0' = new
      /\ entScratch' = [entScratch EXCEPT !.kernel = new]
      /\ entExt' = [entExt EXCEPT ![entCur] = entFpu] /\ entFpu' = entExt[new]
  BY <1>1 DEF SwitchTail, context_switch
<1>3. entFpu \in EntThreads \cup {"zero"}
  OBVIOUS
<1>4. entExt' \in [EntThreads -> EntThreads \cup {"zero"}]
  BY <1>2, <1>3
<1>5. \A t \in EntThreads : entExt'[t] \in {t, "zero"}
  BY <1>2
<1>6. entFpu' \in {entCur', "zero"}
  BY <1>2
<1> QED  BY <1>1, <1>2, <1>4, <1>5, <1>6

LEMMA EntryInit == EntInit => EntryInv
  BY DEF EntInit, EntryInv, EntryType, OwnFpu, KernelStackIsOwn, GsValidInKernel, PicIdle

LEMMA EntryStep == EntryInv /\ [EntNext]_entVars => EntryInv'
<1> SUFFICES ASSUME EntryInv, [EntNext]_entVars PROVE EntryInv'
  OBVIOUS
<1> USE DEF EntryInv, EntryType, OwnFpu, KernelStackIsOwn, GsValidInKernel
<1>1. CASE entry_pipeline_run
  BY <1>1 DEF entry_pipeline_run, user_mode_jump
<1>2. CASE UserRuns
  BY <1>2 DEF UserRuns
<1>3. CASE syscall_entry
  BY <1>3 DEF syscall_entry
<1>4. CASE SyscallSwitches
  BY <1>4, SwitchKeepsOwnership DEF SyscallSwitches
<1>5. CASE SyscallReturns
  BY <1>5 DEF SyscallReturns, SysretGs
<1>6. CASE TimerInterrupt
  <2>1. entPic' = PicIdle
    BY <1>6, AcknowledgedIsIdle DEF TimerInterrupt
  <2>2. CASE SwitchFrom("irq")
    BY <1>6, <2>1, <2>2, SwitchKeepsOwnership DEF TimerInterrupt
  <2>3. CASE UNCHANGED <<entCur, entScratch, entRsp0, entFpu, entExt>>
    BY <1>6, <2>1, <2>3 DEF TimerInterrupt
  <2> QED  BY <1>6, <2>2, <2>3 DEF TimerInterrupt
<1>7. CASE InterruptReturns
  BY <1>7 DEF InterruptReturns
<1>8. CASE SpuriousInterrupt
  <2>1. entPic' = PicIdle
    BY <1>8, AcknowledgedIsIdle DEF SpuriousInterrupt
  <2> QED  BY <1>8, <2>1 DEF SpuriousInterrupt
<1>9. CASE isr_handler
  <2>1. CASE SwitchFrom("fault") \/ SwitchFrom("dead")
    BY <1>9, <2>1, SwitchKeepsOwnership DEF isr_handler
  <2>2. CASE UNCHANGED <<entCur, entScratch, entRsp0, entFpu, entExt>>
    BY <1>9, <2>2 DEF isr_handler
  <2> QED  BY <1>9, <2>1, <2>2 DEF isr_handler
<1>10. CASE UNCHANGED entVars
  BY <1>10 DEF entVars
<1> QED
  BY <1>1, <1>2, <1>3, <1>4, <1>5, <1>6, <1>7, <1>8, <1>9, <1>10 DEF EntNext

-----------------------------------------------------------------------------
\* The inductive invariant holds in every reachable state, for any set of threads.
THEOREM EntryInvariant == EntSpec => []EntryInv
  BY EntryInit, EntryStep, PTL DEF EntSpec

\* Interrupts, exceptions and system calls of the current thread always start on its own
\* kernel stack: tss_set_stack and syscall_set_kernel_stack follow every context switch.
THEOREM OwnKernelStack == EntSpec => []KernelStackIsOwn
<1>1. EntryInv => KernelStackIsOwn
  BY DEF EntryInv
<1> QED  BY <1>1, EntryInvariant, PTL

\* The kernel never uses %gs while it is clear, although a sysret of another thread clears
\* it: every entry loads it before the first use.
THEOREM GsIsValid == EntSpec => []GsValidInKernel
<1>1. EntryInv => GsValidInKernel
  BY DEF EntryInv
<1> QED  BY <1>1, EntryInvariant, PTL

\* User code never runs on the FPU state of another thread: context_switch saves and loads
\* it, user_mode_jump and the system call return scrub it.
THEOREM OwnFpuState == EntSpec => []FpuStateIsOwn
<1>1. EntryInv => FpuStateIsOwn
  BY DEF EntryInv, OwnFpu, FpuStateIsOwn
<1> QED  BY <1>1, EntryInvariant, PTL

\* The stubs for vectors 32, 39 and 47 leave no interrupt in service.
THEOREM NothingInService == EntSpec => []PicIdleInUserMode
<1>1. EntryInv => PicIdleInUserMode
  BY DEF EntryInv, PicIdleInUserMode
<1> QED  BY <1>1, EntryInvariant, PTL

\* Together: what the processor holds for the current thread is that thread's own.
THEOREM ContextStaysOwn == EntSpec => []ContextIsOwn
BY GsIsValid, OwnKernelStack, OwnFpuState, NothingInService, PTL DEF ContextIsOwn
=============================================================================

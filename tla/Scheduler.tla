----------------------------- MODULE Scheduler -----------------------------
(***************************************************************************)
(* The envelope scheduler of kernel/scheduler.c with the thread life cycle *)
(* of kernel/thread.c, on the one processor that dispatches threads: one   *)
(* ready queue ("envelope") and one zombie queue per mode, scheduling      *)
(* authority, entry leases, budgets, and the timer.                        *)
(*                                                                         *)
(* Kernel code runs with interrupts off, so each handler is one step up to *)
(* the point where it calls schedule(); schedule() goes on in steps of its *)
(* own, one per candidate it examines, during which nothing else happens.  *)
(* Time is abstract: a refill that the elapsed ticks may or may not grant  *)
(* is a choice.                                                            *)
(***************************************************************************)
EXTENDS Integers, Sequences

CONSTANTS
    Threads,      \* user threads; each belongs to one process
    Procs,
    Boot,         \* boot_thread: SCHED_CLASS_SYSTEM, mode KERNEL
    Owner,        \* Owner[t]: the process of thread t
    UserModes,
    FirstMode,    \* the mode in which the scheduler is initialised
    ProcMode,     \* ProcMode[p]: the mode of process p
    Addrs,        \* addresses a root authority object can have
    Quantum,      \* DEFAULT_QUANTUM
    MaxSlice,     \* max_slice of every derived authority
    MaxAcc,       \* its local_max_accumulated
    MaxTotal,     \* max_total_budget of every root authority
    Weight,       \* sched_weight
    StallTokens,  \* tokens a thread gains when it has been stalled
    MaxTokens,    \* bound on the tokens a stalled thread collects
    ReapBudget,   \* SCHED_REAP_BUDGET
    MaxEpoch,     \* bound on the number of mode transitions
    MaxDepth      \* bound (the counter saturates) on nested idle loops

ASSUME SchedulerAssumption ==
    /\ Boot \notin Threads
    /\ Owner \in [Threads -> Procs]
    /\ ProcMode \in [Procs -> UserModes]
    /\ FirstMode \in UserModes
    /\ "KERNEL" \notin UserModes
    /\ Addrs \subseteq Nat \ {0}
    /\ Quantum \in Nat \ {0}
    /\ MaxSlice \in Nat \ {0}
    /\ MaxAcc \in Nat \ {0}
    /\ MaxTotal \in Nat /\ MaxTotal >= MaxSlice
    /\ Weight \in Nat \ {0}
    /\ StallTokens \in Nat
    /\ MaxTokens \in Nat
    /\ ReapBudget \in Nat \ {0}
    /\ MaxEpoch \in Nat
    /\ MaxDepth \in Nat

Souls == Threads \cup {Boot}
Envelopes == UserModes \cup {"KERNEL"}

\* "NONE": no such thread_t; "NEW": created (as READY) but not yet added.
Live == {"NEW", "READY", "RUNNING", "BLOCKED", "BLOCKED_AUTH",
         "SUSPENDED_MODE", "ZOMBIE"}
States == Live \cup {"NONE"}

\* sched_thread_mode
ModeOf(t) == IF t = Boot THEN "KERNEL" ELSE ProcMode[Owner[t]]

Least(a, b) == IF a < b THEN a ELSE b

VARIABLES
    pc,         \* "run", "filter" and "check" (in schedule), "revoke", "idle"
    victim,     \* the process whose root is being revoked, Boot if none
    mode,       \* g_sched_global_mode, which active_mode is refreshed from
    epoch,      \* g_sched_global_security_epoch
    current,    \* current_thread
    st,         \* thread_t.state
    ready,      \* ready queue of each envelope
    zombies,    \* zombie queue of each envelope
    waiting,    \* threads on a wait queue of an endpoint, lattice or process
    tokens,     \* sched_tokens
    ticks,      \* ticks_remaining
    budget,     \* remaining_thread_budget
    pbudget,    \* remaining_process_budget
    root,       \* the root authority in sched_auth_root_slot, 0 if none
    held,       \* root authority objects that are allocated
    auth,       \* the root the thread's live authority points to, 0 if none
    rootValid,  \* sched_auth_root_valid
    authValid,  \* sched_auth_valid
    lease,      \* lease.epoch
    leaseSeen,  \* lease_validated_epoch
    leaseOk,    \* lease_valid_cache
    resched,    \* g_force_resched
    depth,      \* idle loops nested on the stack of the current thread
    revoked,    \* history: threads whose authority was revoked
    banned      \* history: processes whose root was revoked

modeVars == <<mode, epoch>>
queueVars == <<ready, zombies, waiting>>
authVars == <<root, held, auth, revoked, banned>>
flagVars == <<rootValid, authValid, leaseSeen, leaseOk>>
budgetVars == <<budget, pbudget>>
vars == <<pc, victim, modeVars, current, st, queueVars, tokens, ticks,
          budgetVars, authVars, flagVars, lease, resched, depth>>

TypeOK ==
    /\ pc \in {"run", "filter", "check", "revoke", "idle"}
    /\ victim \in Procs \cup {Boot}
    /\ mode \in UserModes
    /\ epoch \in Nat \ {0}
    /\ current \in Souls
    /\ st \in [Souls -> States]
    /\ ready \in [Envelopes -> Seq(Souls)]
    /\ zombies \in [Envelopes -> Seq(Souls)]
    /\ waiting \subseteq Threads
    /\ tokens \in [Souls -> Nat]
    /\ ticks \in [Souls -> Nat]
    /\ budget \in [Threads -> Nat]
    /\ pbudget \in [Procs -> 0 .. MaxTotal]
    /\ root \in [Procs -> Addrs \cup {0}]
    /\ held \in [Procs -> SUBSET Addrs]
    /\ auth \in [Threads -> Addrs \cup {0}]
    /\ rootValid \in [Procs -> BOOLEAN]
    /\ authValid \in [Threads -> BOOLEAN]
    /\ lease \in [Threads -> Nat]
    /\ leaseSeen \in [Threads -> Nat]
    /\ leaseOk \in [Threads -> BOOLEAN]
    /\ resched \in BOOLEAN
    /\ depth \in Nat
    /\ revoked \subseteq Threads
    /\ banned \subseteq Procs

-----------------------------------------------------------------------------
(* Queues. *)

CutAt(q, i) == [j \in 1 .. Len(q) - 1 |-> IF j < i THEN q[j] ELSE q[j + 1]]

\* ready_remove_locked
Without(q, t) ==
    IF \E i \in 1 .. Len(q) : q[i] = t
    THEN CutAt(q, CHOOSE i \in 1 .. Len(q) : q[i] = t)
    ELSE q

\* ready_enqueue_locked and ready_enqueue_head_locked
Enqueued(queues, t) == [queues EXCEPT ![ModeOf(t)] = Append(@, t)]
Pushed(queues, t) == [queues EXCEPT ![ModeOf(t)] = <<t>> \o @]

-----------------------------------------------------------------------------
(* The tests a thread has to pass before it may be queued or dispatched.   *)

\* scheduler_mode_allowed, for a user thread
scheduler_mode_allowed(t, actor) ==
    /\ ModeOf(t) = mode
    /\ ModeOf(actor) \in {"KERNEL", ModeOf(t)}

\* scheduler_auth_allowed: the root can be looked up only in its mode.
RootFound(t) == root[Owner[t]] # 0 /\ ModeOf(t) = mode


scheduler_auth_allowed(t) == RootFound(t) /\ auth[t] = root[Owner[t]]

\* Fault: the cached verdict outlives its epoch.
scheduler_lease_valid_AnyEpoch(t) ==
    IF leaseSeen[t] # 0
    THEN leaseOk[t]
    ELSE lease[t] >= epoch /\ ModeOf(t) = mode

scheduler_lease_valid(t) ==
    IF leaseSeen[t] = epoch
    THEN leaseOk[t]
    ELSE lease[t] >= epoch /\ ModeOf(t) = mode

\* The flags these two leave behind.
Examined(t) ==
    /\ rootValid' = [rootValid EXCEPT ![Owner[t]] = RootFound(t)]
    /\ authValid' = [authValid EXCEPT ![t] = scheduler_auth_allowed(t)]
    /\ IF scheduler_auth_allowed(t)
       THEN /\ leaseSeen' = [leaseSeen EXCEPT ![t] = epoch]
            /\ leaseOk' = [leaseOk EXCEPT ![t] = scheduler_lease_valid(t)]
       ELSE UNCHANGED <<leaseSeen, leaseOk>>

(* scheduler_refill_budget: the process budget and the thread budget after *)
(* it.  The process is filled up if a period has passed; the thread gets a *)
(* slice per period of its own, within its ceiling and what the process    *)
(* has left, which may be less than it had.                                *)
scheduler_refill_process_budget(p) ==
    {pbudget[p]} \cup (IF rootValid[p] THEN {MaxTotal} ELSE {})

scheduler_refill_budget(t) ==
    UNION {{<<pb, budget[t]>>}
           \cup {<<pb, Least(Least(budget[t] + n * MaxSlice, MaxAcc), pb)>> :
                    n \in 1 .. MaxAcc}
           \cup (IF budget[t] = 0 THEN {<<pb, Least(MaxSlice, pb)>>} ELSE {}) :
           pb \in scheduler_refill_process_budget(Owner[t])}

\* The state in which scheduler_add and scheduler_wake leave a thread, with
\* pb and b its budgets after the refill.
Verdict(t, actor, pb, b) ==
    IF \/ ~scheduler_auth_allowed(t)
       \/ ~scheduler_lease_valid(t)
       \/ pb = 0
    THEN "BLOCKED_AUTH"
    ELSE IF ModeOf(t) # mode THEN "SUSPENDED_MODE"
    ELSE IF b = 0 THEN "BLOCKED_AUTH"
    ELSE IF ~scheduler_mode_allowed(t, actor) THEN "BLOCKED"
    ELSE "READY"

\* The common part of scheduler_add and scheduler_wake; s holds the states
\* the threads have otherwise.
Admit(t, s) ==
    \E r \in scheduler_refill_budget(t) :
        LET verdict == Verdict(t, current, r[1], r[2])
        IN  /\ pbudget' = [pbudget EXCEPT ![Owner[t]] = r[1]]
            /\ budget' = [budget EXCEPT ![t] = r[2]]
            /\ Examined(t)
            /\ st' = [s EXCEPT ![t] = verdict]
            /\ ready' = IF verdict = "READY" THEN Enqueued(ready, t) ELSE ready

-----------------------------------------------------------------------------
\* scheduler_init
Init ==
    /\ pc = "run"
    /\ victim = Boot
    /\ mode = FirstMode
    /\ epoch = 1
    /\ current = Boot
    /\ st = [t \in Souls |-> IF t = Boot THEN "RUNNING" ELSE "NONE"]
    /\ ready = [m \in Envelopes |-> <<>>]
    /\ zombies = [m \in Envelopes |-> <<>>]
    /\ waiting = {}
    /\ tokens = [t \in Souls |-> 0]
    /\ ticks = [t \in Souls |-> IF t = Boot THEN Quantum ELSE 0]
    /\ budget = [t \in Threads |-> 0]
    /\ pbudget = [p \in Procs |-> 0]
    /\ root = [p \in Procs |-> 0]
    /\ held = [p \in Procs |-> {}]
    /\ auth = [t \in Threads |-> 0]
    /\ rootValid = [p \in Procs |-> FALSE]
    /\ authValid = [t \in Threads |-> FALSE]
    /\ lease = [t \in Threads |-> 0]
    /\ leaseSeen = [t \in Threads |-> 0]
    /\ leaseOk = [t \in Threads |-> FALSE]
    /\ resched = FALSE
    /\ depth = 0
    /\ revoked = {}
    /\ banned = {}

-----------------------------------------------------------------------------
(* What the running thread asks the kernel for.                            *)

\* thread_create, by the kernel: no authority yet, a lease of this epoch.
thread_create(t) ==
    /\ pc = "run" /\ current = Boot
    /\ st[t] = "NONE"
    /\ st' = [st EXCEPT ![t] = "NEW"]
    /\ tokens' = [tokens EXCEPT ![t] = 0]
    /\ ticks' = [ticks EXCEPT ![t] = Quantum]
    /\ budget' = [budget EXCEPT ![t] = Quantum]
    /\ auth' = [auth EXCEPT ![t] = 0]
    /\ authValid' = [authValid EXCEPT ![t] = FALSE]
    /\ lease' = [lease EXCEPT ![t] = epoch]
    /\ leaseSeen' = [leaseSeen EXCEPT ![t] = 0]
    /\ leaseOk' = [leaseOk EXCEPT ![t] = FALSE]
    /\ UNCHANGED <<pc, victim, modeVars, current, queueVars, pbudget, root,
                   held, revoked, banned, rootValid, resched, depth>>

\* scheduler_mint_root_auth, by the kernel or by a thread of the process
scheduler_mint_root_auth(p) ==
    /\ pc = "run"
    /\ \/ current = Boot /\ \E t \in Threads : Owner[t] = p /\ st[t] # "NONE"
       \/ current # Boot /\ Owner[current] = p
    /\ \E a \in Addrs \ held[p] :
          /\ root' = [root EXCEPT ![p] = a]
          /\ held' = [held EXCEPT ![p] = @ \cup {a}]
    /\ rootValid' = [rootValid EXCEPT ![p] = TRUE]
    /\ pbudget' = [pbudget EXCEPT ![p] = MaxTotal]
    /\ banned' = banned \ {p}
    /\ UNCHANGED <<pc, victim, modeVars, current, st, queueVars, tokens, ticks,
                   budget, auth, revoked, authValid, leaseSeen, leaseOk, lease,
                   resched, depth>>

\* scheduler_derive_thread_auth, by the kernel or by the thread itself
scheduler_derive_thread_auth(t) ==
    /\ pc = "run"
    /\ current \in {Boot, t}
    /\ st[t] \notin {"NONE", "ZOMBIE"}
    /\ RootFound(t)
    /\ auth' = [auth EXCEPT ![t] = root[Owner[t]]]
    /\ authValid' = [authValid EXCEPT ![t] = TRUE]
    /\ tokens' = [tokens EXCEPT ![t] = 0]
    /\ budget' = [budget EXCEPT ![t] = MaxSlice]
    /\ revoked' = revoked \ {t}
    /\ UNCHANGED <<pc, victim, modeVars, current, st, queueVars, ticks, pbudget,
                   root, held, banned, rootValid, leaseSeen, leaseOk, lease,
                   resched, depth>>

\* cap_delete of an authority: the object is freed, the scheduler not told.
DeleteRoot(p) ==
    /\ pc = "run"
    /\ root[p] # 0
    /\ current # Boot /\ Owner[current] = p
    /\ root' = [root EXCEPT ![p] = 0]
    /\ held' = [held EXCEPT ![p] = @ \ {root[p]}]
    /\ UNCHANGED <<pc, victim, modeVars, current, st, queueVars, tokens, ticks,
                   budgetVars, auth, revoked, banned, flagVars, lease, resched,
                   depth>>

DeleteAuth(t) ==
    /\ pc = "run"
    /\ auth[t] # 0
    /\ current # Boot /\ Owner[current] = Owner[t]
    /\ auth' = [auth EXCEPT ![t] = 0]
    /\ UNCHANGED <<pc, victim, modeVars, current, st, queueVars, tokens, ticks,
                   budgetVars, root, held, revoked, banned, flagVars, lease,
                   resched, depth>>

\* scheduler_add, by the kernel: of a new thread, or again of one it refused
scheduler_add(t) ==
    /\ pc = "run" /\ current = Boot
    /\ st[t] \in {"NEW", "BLOCKED_AUTH"}
    /\ Admit(t, st)
    /\ UNCHANGED <<pc, victim, modeVars, current, zombies, waiting, tokens,
                   ticks, authVars, lease, resched, depth>>

\* genesis_spawn_process_from_module: a process with one thread, its root
\* and its authority, made by a thread of another process of the same mode.
\* The authority fails where that mode is no longer active, and nothing is
\* undone; otherwise the thread is added, if the caller asked for that.
genesis_spawn(t) ==
    /\ pc = "run" /\ current # Boot
    /\ \A u \in Threads : Owner[u] = Owner[t] => st[u] = "NONE"
    /\ ModeOf(t) = ModeOf(current)
    /\ \E a \in Addrs, added \in BOOLEAN :
          LET able == ModeOf(t) = mode
              queued == able /\ added
          IN  /\ st' = [st EXCEPT ![t] = IF queued THEN "READY" ELSE "NEW"]
              /\ ready' = IF queued THEN Enqueued(ready, t) ELSE ready
              /\ root' = [root EXCEPT ![Owner[t]] = a]
              /\ held' = [held EXCEPT ![Owner[t]] = {a}]
              /\ auth' = [auth EXCEPT ![t] = IF able THEN a ELSE 0]
              /\ authValid' = [authValid EXCEPT ![t] = able]
              /\ budget' = [budget EXCEPT ![t] = IF able THEN MaxSlice ELSE Quantum]
              /\ leaseSeen' = [leaseSeen EXCEPT ![t] = IF queued THEN epoch ELSE 0]
              /\ leaseOk' = [leaseOk EXCEPT ![t] = queued]
    /\ pbudget' = [pbudget EXCEPT ![Owner[t]] = MaxTotal]
    /\ rootValid' = [rootValid EXCEPT ![Owner[t]] = TRUE]
    /\ lease' = [lease EXCEPT ![t] = epoch]
    /\ tokens' = [tokens EXCEPT ![t] = 0]
    /\ ticks' = [ticks EXCEPT ![t] = Quantum]
    /\ UNCHANGED <<pc, victim, modeVars, current, zombies, waiting, revoked,
                   banned, resched, depth>>

\* scheduler_wake of a thread taken off its wait queue
scheduler_wake(t) ==
    /\ pc = "run"
    /\ t \in waiting
    /\ waiting' = waiting \ {t}
    /\ Admit(t, st)
    /\ UNCHANGED <<pc, victim, modeVars, current, zombies, tokens, ticks,
                   authVars, lease, resched, depth>>

\* scheduler_block by a thread that has put itself on a wait queue
scheduler_block ==
    /\ pc = "run"
    /\ current # Boot
    /\ st' = [st EXCEPT ![current] = "BLOCKED"]
    /\ waiting' = waiting \cup {current}
    /\ pc' = "filter"
    /\ UNCHANGED <<victim, modeVars, current, ready, zombies, tokens, ticks,
                   budgetVars, authVars, flagVars, lease, resched, depth>>

thread_yield ==
    /\ pc = "run"
    /\ pc' = "filter"
    /\ UNCHANGED <<victim, modeVars, current, st, queueVars, tokens, ticks,
                   budgetVars, authVars, flagVars, lease, resched, depth>>

\* An accepted mode transition: scheduler_on_mode_transition.
scheduler_on_mode_transition(m) ==
    /\ pc = "run"
    /\ m # mode
    /\ epoch < MaxEpoch
    /\ mode' = m
    /\ epoch' = epoch + 1
    /\ UNCHANGED <<pc, victim, current, st, queueVars, tokens, ticks,
                   budgetVars, authVars, flagVars, lease, resched, depth>>

\* thread_exit: wake the process's waiter, if any, and become a zombie.
thread_exit ==
    /\ pc = "run"
    /\ current # Boot
    /\ LET s == [st EXCEPT ![current] = "ZOMBIE"]
       IN  \/ \E w \in waiting :
                 /\ Owner[w] = Owner[current]
                 /\ waiting' = waiting \ {w}
                 /\ Admit(w, s)
           \/ st' = s /\ UNCHANGED <<waiting, ready, budgetVars, flagVars>>
    /\ zombies' = Enqueued(zombies, current)
    /\ pc' = "filter"
    /\ UNCHANGED <<victim, modeVars, current, tokens, ticks, authVars, lease,
                   resched, depth>>

-----------------------------------------------------------------------------
(* Revocation. *)

\* cap_revoke looks the authority up, in the capability space of p and in
\* the mode of p.
RevokedBy(p) ==
    /\ current # Boot => Owner[current] = p
    /\ ProcMode[p] = mode

\* scheduler_revoke_thread_immediate, from cap_revoke of the authority
scheduler_revoke_thread_immediate(t) ==
    /\ pc = "run"
    /\ auth[t] # 0 /\ st[t] # "NONE"
    /\ RevokedBy(Owner[t])
    /\ auth' = [auth EXCEPT ![t] = 0]
    /\ authValid' = [authValid EXCEPT ![t] = FALSE]
    /\ tokens' = [tokens EXCEPT ![t] = 0]
    /\ ready' = [m \in Envelopes |-> Without(ready[m], t)]
    /\ IF st[t] \in {"NEW", "READY", "RUNNING"}
       THEN /\ st' = [st EXCEPT ![t] = "BLOCKED_AUTH"]
            /\ ticks' = [ticks EXCEPT ![t] = 0]
       ELSE UNCHANGED <<st, ticks>>
    /\ IF current = t
       THEN resched' = TRUE /\ pc' = "filter"
       ELSE UNCHANGED <<resched, pc>>
    /\ revoked' = revoked \cup {t}
    /\ UNCHANGED <<victim, modeVars, current, zombies, waiting, budgetVars,
                   root, held, banned, rootValid, leaseSeen, leaseOk, lease,
                   depth>>

\* scheduler_revoke_process_immediate, from cap_revoke of the root: first
\* the process, then its queued threads one by one, then the current thread.
scheduler_revoke_process_immediate(p) ==
    /\ pc = "run"
    /\ root[p] # 0
    /\ RevokedBy(p)
    /\ root' = [root EXCEPT ![p] = 0]
    /\ rootValid' = [rootValid EXCEPT ![p] = FALSE]
    /\ pbudget' = [pbudget EXCEPT ![p] = 0]
    /\ banned' = banned \cup {p}
    /\ victim' = p
    /\ pc' = "revoke"
    /\ UNCHANGED <<modeVars, current, st, queueVars, tokens, ticks, budget,
                   held, auth, revoked, authValid, leaseSeen, leaseOk, lease,
                   resched, depth>>

Doomed(t) == t # Boot /\ Owner[t] = victim

RevokeQueued ==
    /\ pc = "revoke"
    /\ \E m \in Envelopes : \E i \in 1 .. Len(ready[m]) :
          LET t == ready[m][i]
          IN  /\ Doomed(t)
              /\ ready' = [ready EXCEPT ![m] = CutAt(@, i)]
              /\ authValid' = [authValid EXCEPT ![t] = FALSE]
              /\ st' = [st EXCEPT ![t] = "BLOCKED_AUTH"]
              /\ ticks' = [ticks EXCEPT ![t] = 0]
    /\ UNCHANGED <<pc, victim, modeVars, current, zombies, waiting, tokens,
                   budgetVars, authVars, rootValid, leaseSeen, leaseOk, lease,
                   resched, depth>>

RevokeCurrent ==
    /\ pc = "revoke"
    /\ \A m \in Envelopes : \A i \in 1 .. Len(ready[m]) : ~Doomed(ready[m][i])
    /\ IF Doomed(current)
       THEN /\ authValid' = [authValid EXCEPT ![current] = FALSE]
            /\ st' = [st EXCEPT ![current] = "BLOCKED_AUTH"]
            /\ ticks' = [ticks EXCEPT ![current] = 0]
            /\ resched' = TRUE
            /\ pc' = "filter"
       ELSE pc' = "run" /\ UNCHANGED <<authValid, st, ticks, resched>>
    /\ victim' = Boot
    /\ UNCHANGED <<modeVars, current, queueVars, tokens, budgetVars,
                   authVars, rootValid, leaseSeen, leaseOk, lease, depth>>

-----------------------------------------------------------------------------
(* Reaping: thread_destroy, and process_destroy with the last thread.      *)

\* Fault: the thread on whose stack the kernel runs is reaped too.
Reapable_Current(n) == n = Least(Len(zombies[mode]), ReapBudget)

\* scheduler_reap takes the first n zombies of the active envelope: its loop
\* ends with the queue, with its budget, or at the current thread.
Reapable(n) ==
    /\ n <= ReapBudget
    /\ \A i \in 1 .. n : zombies[mode][i] # current
    /\ n < Len(zombies[mode]) /\ n < ReapBudget => zombies[mode][n + 1] = current

\* The current thread, if the loop came to it, is put at the end again.
scheduler_reap ==
    \E n \in 0 .. Len(zombies[mode]) :
    LET q == zombies[mode]
        dead == {q[i] : i \in 1 .. n}
        gone == {p \in Procs : /\ \E t \in dead : Owner[t] = p
                               /\ \A t \in Threads \ dead :
                                     Owner[t] = p => st[t] = "NONE"}
    IN  /\ Reapable(n)
        /\ zombies' = [zombies EXCEPT ![mode] =
              IF n < Len(q) /\ n < ReapBudget
              THEN Append(SubSeq(q, n + 2, Len(q)), current)
              ELSE SubSeq(q, n + 1, Len(q))]
        /\ st' = [t \in Souls |-> IF t \in dead THEN "NONE" ELSE st[t]]
        /\ revoked' = revoked \ dead
        /\ root' = [p \in Procs |-> IF p \in gone THEN 0 ELSE root[p]]
        /\ held' = [p \in Procs |-> IF p \in gone THEN {} ELSE held[p]]
        /\ pbudget' = [p \in Procs |-> IF p \in gone THEN 0 ELSE pbudget[p]]
        /\ rootValid' = [p \in Procs |-> p \notin gone /\ rootValid[p]]
        /\ banned' = banned \ gone

-----------------------------------------------------------------------------
(* schedule().                                                             *)

\* Fault: with nothing else to run, a thread that has blocked goes on.
KeepRunning_Blocked ==
    /\ pc \in {"filter", "check"}
    /\ ready[mode] = <<>>
    /\ st[current] \in {"RUNNING", "BLOCKED"}
    /\ st' = [st EXCEPT ![current] = "RUNNING"]
    /\ pc' = "run"
    /\ UNCHANGED <<victim, modeVars, current, queueVars, tokens, ticks,
                   budgetVars, authVars, flagVars, lease, resched, depth>>

\* The active queue is empty: the current thread goes on if it still can ...
KeepRunning ==
    /\ pc \in {"filter", "check"}
    /\ ready[mode] = <<>>
    /\ st[current] = "RUNNING"
    /\ pc' = "run"
    /\ UNCHANGED <<victim, modeVars, current, st, queueVars, tokens, ticks,
                   budgetVars, authVars, flagVars, lease, resched, depth>>

\* ... or the processor is halted, on the stack of the current thread.
GoIdle ==
    /\ pc \in {"filter", "check"}
    /\ ready[mode] = <<>>
    /\ st[current] # "RUNNING"
    /\ scheduler_reap
    /\ pc' = "idle"
    /\ UNCHANGED <<victim, modeVars, current, ready, waiting, tokens, ticks,
                   budget, auth, authValid, leaseSeen, leaseOk, lease, resched,
                   depth>>

\* scheduler_pick_next_weighted_locked: the tokens of the thread it picks.
Picked(t, stalled) ==
    LET n == tokens[t] + IF stalled THEN StallTokens ELSE 0
    IN  (IF n = 0 THEN Weight ELSE n) - 1

\* The head of the queue is refused because of the mode of the old thread.
PickForeign ==
    /\ pc = "filter"
    /\ ready[mode] # <<>>
    /\ LET t == Head(ready[mode])
       IN  /\ ~scheduler_mode_allowed(t, current)
           /\ \E stalled \in {s \in BOOLEAN :
                                s => tokens[t] + StallTokens <= MaxTokens} :
                 tokens' = [tokens EXCEPT ![t] = Picked(t, stalled)]
           /\ st' = [st EXCEPT ![t] = "BLOCKED"]
    /\ ready' = [ready EXCEPT ![mode] = Tail(@)]
    /\ UNCHANGED <<pc, victim, modeVars, current, zombies, waiting, ticks,
                   budgetVars, authVars, flagVars, lease, resched, depth>>

\* Faults: a thread that does not run any more goes back too; every thread
\* goes back to the front.
Preempted_Always(queues) ==
    IF tokens[current] > 0 THEN Pushed(queues, current)
    ELSE Enqueued(queues, current)
Preempted_Front(queues) ==
    IF st[current] # "RUNNING" THEN queues ELSE Pushed(queues, current)

\* The old thread, if it still runs, goes back to its queue: to the front
\* while it has tokens.
Preempted(queues) ==
    IF st[current] # "RUNNING" THEN queues
    ELSE IF tokens[current] > 0 THEN Pushed(queues, current)
    ELSE Enqueued(queues, current)

Dispatch(t, pb, b) ==
    LET grant == Least(Least(Least(Quantum, MaxSlice), b), pb)
    IN  /\ st' = [st EXCEPT ![current] = IF @ = "RUNNING" THEN "READY" ELSE @,
                            ![t] = "RUNNING"]
        /\ ready' = Preempted([ready EXCEPT ![mode] = Tail(@)])
        /\ pbudget' = [pbudget EXCEPT ![Owner[t]] = pb - grant]
        /\ budget' = [budget EXCEPT ![t] = b - grant]
        /\ ticks' = [ticks EXCEPT ![t] = grant]
        /\ current' = t
        /\ pc' = "run"

Refuse(t, pb, b) ==
    /\ st' = [st EXCEPT ![t] =
                 IF /\ scheduler_auth_allowed(t) /\ scheduler_lease_valid(t)
                    /\ ModeOf(t) # mode
                 THEN "SUSPENDED_MODE" ELSE "BLOCKED_AUTH"]
    /\ ready' = [ready EXCEPT ![mode] = Tail(@)]
    /\ pbudget' = [pbudget EXCEPT ![Owner[t]] = pb]
    /\ budget' = [budget EXCEPT ![t] = b]
    /\ pc' = "check"
    /\ UNCHANGED <<ticks, current>>


Eligible(t, pb, b) ==
    /\ scheduler_auth_allowed(t)
    /\ scheduler_lease_valid(t)
    /\ ModeOf(t) = mode
    /\ b # 0
    /\ pb # 0

\* The head of the queue is examined, and dispatched or refused.
Pick ==
    /\ pc \in {"filter", "check"}
    /\ ready[mode] # <<>>
    /\ LET t == Head(ready[mode])
       IN  /\ pc = "check" \/ scheduler_mode_allowed(t, current)
           /\ \E stalled \in {s \in BOOLEAN :
                                s => tokens[t] + StallTokens <= MaxTokens} :
                 tokens' = [tokens EXCEPT ![t] = Picked(t, stalled)]
           /\ Examined(t)
           /\ \E r \in scheduler_refill_budget(t) :
                 IF Eligible(t, r[1], r[2])
                 THEN Dispatch(t, r[1], r[2])
                 ELSE Refuse(t, r[1], r[2])
    /\ UNCHANGED <<victim, modeVars, zombies, waiting, authVars, lease, resched,
                   depth>>

-----------------------------------------------------------------------------
\* timer_handler.  A tick that finds the processor halted and the quantum
\* used up calls schedule() on top of the idle loop it interrupted.
timer_handler ==
    /\ pc \in {"run", "idle"}
    /\ LET cut == /\ current # Boot
                  /\ \/ ~authValid[current]
                     \/ ~rootValid[Owner[current]]
                     \/ pbudget[Owner[current]] = 0
           left == IF cut \/ ticks[current] = 0 THEN 0 ELSE ticks[current] - 1
           again == left = 0 \/ resched \/ cut
       IN  /\ ticks' = [ticks EXCEPT ![current] = left]
           /\ pc' = IF again \/ pc = "idle" THEN "filter" ELSE "run"
           /\ depth' = IF pc = "idle" /\ again THEN Least(depth + 1, MaxDepth)
                       ELSE depth
    /\ resched' = FALSE
    /\ \/ scheduler_reap    \* every hundredth schedule
       \/ UNCHANGED <<zombies, st, revoked, root, held, pbudget, rootValid,
                      banned>>
    /\ UNCHANGED <<victim, modeVars, current, ready, waiting, tokens, budget,
                   auth, authValid, leaseSeen, leaseOk, lease>>

Next ==
    \/ \E t \in Threads :
          \/ thread_create(t)
          \/ scheduler_derive_thread_auth(t)
          \/ DeleteAuth(t)
          \/ scheduler_add(t)
          \/ genesis_spawn(t)
          \/ scheduler_wake(t)
          \/ scheduler_revoke_thread_immediate(t)
    \/ \E p \in Procs :
          \/ scheduler_mint_root_auth(p)
          \/ DeleteRoot(p)
          \/ scheduler_revoke_process_immediate(p)
    \/ \E m \in UserModes : scheduler_on_mode_transition(m)
    \/ scheduler_block
    \/ thread_yield
    \/ thread_exit
    \/ RevokeQueued
    \/ RevokeCurrent
    \/ KeepRunning
    \/ GoIdle
    \/ PickForeign
    \/ Pick
    \/ timer_handler

Spec == Init /\ [][Next]_vars

(* The timer interrupt stays pending while interrupts are off, so it is    *)
(* taken again and again as long as they are on again and again; the steps *)
(* of schedule() and of a revocation run to their end.                     *)
Fairness ==
    /\ SF_vars(timer_handler)
    /\ WF_vars(RevokeQueued \/ RevokeCurrent)
    /\ WF_vars(KeepRunning \/ GoIdle \/ PickForeign \/ Pick)

FairSpec == Spec /\ Fairness

-----------------------------------------------------------------------------
Queued(t) == \E i \in 1 .. Len(ready[ModeOf(t)]) : ready[ModeOf(t)][i] = t

(* Queues and states agree: an envelope holds only READY threads of its    *)
(* mode, none of them twice; every READY thread is in its envelope; only   *)
(* the current thread is RUNNING; and a thread on a wait queue is BLOCKED, *)
(* so that no thread is ever linked into two lists by its next pointer.    *)
QueuesMatchStates ==
    /\ \A m \in Envelopes : \A i \in 1 .. Len(ready[m]) :
          /\ st[ready[m][i]] = "READY"
          /\ ModeOf(ready[m][i]) = m
          /\ \A j \in 1 .. Len(ready[m]) : ready[m][i] = ready[m][j] => i = j
    /\ \A t \in Souls : st[t] = "READY" => Queued(t)
    /\ \A t \in Souls : st[t] = "RUNNING" => t = current
    /\ \A t \in waiting : st[t] = "BLOCKED"

(* The zombie queues hold exactly the ZOMBIE threads, once each, and the   *)
(* thread on whose stack the kernel runs is never destroyed.               *)
ZombiesAreReapedOnce ==
    /\ \A m \in Envelopes : \A i \in 1 .. Len(zombies[m]) :
          /\ st[zombies[m][i]] = "ZOMBIE"
          /\ ModeOf(zombies[m][i]) = m
          /\ \A j \in 1 .. Len(zombies[m]) : zombies[m][i] = zombies[m][j] => i = j
    /\ \A t \in Souls : st[t] = "ZOMBIE" =>
          \E i \in 1 .. Len(zombies[ModeOf(t)]) : zombies[ModeOf(t)][i] = t
    /\ st[current] # "NONE"


(* The cached verdict of a lease is the verdict a fresh look at the lease  *)
(* would give: caching by epoch alone is enough.                           *)
LeaseCacheIsExact ==
    \A t \in Threads :
        st[t] # "NONE" /\ leaseSeen[t] = epoch =>
            leaseOk[t] = (lease[t] >= epoch /\ ModeOf(t) = mode)


\* scheduler_transition_valid, on which scheduler_set_state panics
scheduler_transition_valid(from, to) ==
    \/ from = to
    \/ from \in {"NEW", "READY"} /\ to \in Live \ {"NEW"}
    \/ from = "RUNNING" /\ to \in Live \ {"NEW"}
    \/ from \in {"BLOCKED", "BLOCKED_AUTH", "SUSPENDED_MODE"}
       /\ to \in Live \ {"NEW", "RUNNING"}

(* No step makes a state transition that scheduler_set_state panics on; a  *)
(* thread_t appears as NEW (genesis_spawn then goes on to schedule it) and  *)
(* disappears as a ZOMBIE.                                                 *)
NoIllegalTransition ==
    [][\A t \in Souls :
          \/ scheduler_transition_valid(st[t], st'[t])
          \/ st[t] = "NONE" /\ scheduler_transition_valid("NEW", st'[t])
          \/ st[t] = "ZOMBIE" /\ st'[t] = "NONE"]_vars

(* No ready thread of the active envelope is starved: it leaves the queue, *)
(* dispatched or refused, or its envelope is frozen by a mode transition.  *)
NoStarvation ==
    \A t \in Threads :
        (st[t] = "READY" /\ ModeOf(t) = mode) ~>
            ~(st[t] = "READY" /\ ModeOf(t) = mode)

-----------------------------------------------------------------------------
(* What the documents promise and the code does not keep.                  *)

(* esak_logging_and_validation.md: a mode switch freezes the inactive      *)
(* envelopes, so a thread of another mode stops running.                   *)
InactiveModeStops ==
    (current # Boot /\ ModeOf(current) # mode) ~>
        (st[current] # "RUNNING" \/ ModeOf(current) \in {mode, "KERNEL"})


(* scheduler.c asserts that no kernel stack overflows; a stack holds only  *)
(* so many nested idle loops.                                              *)
IdleStackIsBounded == depth < MaxDepth

=============================================================================

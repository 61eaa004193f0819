# The MzScheme run time: threads, semaphores, channels, custodians and ports

This directory holds TLA+ models of the concurrency core of MzScheme, the Scheme
implementation in `src/src/mzscheme` (C). The rest of the repository (MrEd, DrScheme and
the collections) runs on top of it. File names below are relative to
`src/src/mzscheme/src` unless they say otherwise: `sema.c`, `thread.c`, `port.c` and
`portfun.c` are the files that the models come from, with `async-channel.ss` of
`src/collects/mzlib`.

- [1. The system](#1-the-system)
- [2. The plan](#2-the-plan)
- [3. The modules](#3-the-modules)
- [4. The runs](#4-the-runs)
- [5. What is proved](#5-what-is-proved)
- [6. Where the code and what is said of it differ](#6-where-the-code-and-what-is-said-of-it-differ)
- [7. What is left out](#7-what-is-left-out)

## 1. The system

MzScheme threads are green threads: one C stack runs at a time, and C code is
interrupted nowhere but where it calls `scheme_thread_block`, `select_thread` or
`scheme_swap_thread`. So there are no data races; what is hard is what other threads
have done between the moment a thread gave up the processor and the moment it got it
back. A thread can, between any two such points, be woken, broken (`break-thread`),
suspended, resumed, killed, or moved to another custodian, and the state it left behind
(in a semaphore's line, in the scheduler's lists, in a custodian's table) is changed
under it.

| Component | State it keeps | Operations | Talks to |
|---|---|---|---|
| Thread flags (`schpriv.h` 271-277, `thread.c`) | `running`: a word of flag bits per thread | weak suspend and resume, user suspend and resume, kill, remove | everything below |
| Semaphores (`sema.c`) | the count, a doubly linked line of waiters (`first`, `last`), the `picked` flag and the `Syncing` of every waiter | post, post for good, poll, wait with and without enabled breaks | wakes threads by `scheme_weak_resume_thread`; reads their flags and breaks in `pending_break` |
| Scheduler (`thread.c`) | the list of all threads from `scheme_first_thread`, the tree of thread sets (`first`, `current`, `search_start`), `num_running_threads` | link, unlink, swap, the search in `scheme_thread_block`, `select_thread` | called by whoever blocks, wakes or ends a thread |
| Custodians (`thread.c`) | a tree of weak links, one global list, a table of managed objects per custodian; per thread a main reference, extra ones and the threads yoked to it | make, add and remove a managed object, shut down, collect, promote | kills and suspends threads; the collector calls `adjust_custodian_family` |
| Channels and `sync` (`sema.c` 435-1000, `thread.c` 4586-5325) | lines of getters and putters, a `Syncing` shared by all the lines that a thread stands in | put, get, sync on several events, nacks, wrapped events | semaphores, custodians (kill cleanup) |
| Thread life (`thread.c` 2237-2735, 4480-4586) | the `running_box`, `suspended_box`, `resumed_box` and `dead_box` | create, end, `thread-wait`, dead, suspend and resume events | posts semaphores for good |
| Nested threads, atomic mode (`thread.c` 2739-2976, 3700-3850) | `nester`, `nestee`, `do_atomic`, missed context switches | `call-in-nested-thread`, start and end of atomic mode | scheduler, kill, break |
| Thread cells, parameterizations (`thread.c` 5327-6000) | tables from cell to value, shared until written | make, set, inherit | thread creation |
| Wills (`thread.c` 6223-6366, `salloc.c`) | a queue of ready wills per executor | register, make ready, execute, try | collector, semaphores |
| Pipes (`portfun.c` 1742-2160) | a circular buffer, its limit and what peeks added to it, two lists of semaphores | write, read, peek, close | semaphores |
| Peeked commits (`port.c` 1698-2017) | the lock on a port, the leader's semaphores, the list of requests, the progress event | `port-commit-peeked`, read | semaphores, `sync`, thread suspend events, breaks and kills |
| Other ports (`port.c`, `portfun.c`) | buffers, positions, file descriptors, user procedures | read, peek, write, close | `block_until`, custodians |
| Asynchronous channels (`async-channel.ss`) | a manager thread and its queue | get, put, polls of both | `sync` on channels, `thread-resume`, custodians |
| `cml`, `thread.ss` (`collects/mzlib`) | | coroutines, server loops | `sync` |
| Network, subprocesses (`network.c`, `port.c`) | file descriptors | block until ready | scheduler (`block_until`), custodians |
| Collectors (`gc`, `gc2`) | the heap | collect | calls finalizers: custodians, wills |
| Reader, expander, compiler, evaluator, numbers, strings, hash tables | their own data | pure computation | break points in `scheme_thread_block` |
| MrEd, DrScheme, collections | event spaces, windows, libraries | | everything above |

What is hard, and what has to hold:

- *Semaphores.* A post that finds a waiter without a `Syncing` only wakes it and leaves
  the count raised: another thread may take the post first (`sema.c` 251). A waiter that
  has something else to do (a break, a suspension, a kill) is dropped from the line
  (239) and has to come back on its own. No waiter may be left asleep where no post
  finds it; no post may be left in the count with nobody to take it; a dead thread
  passes on what it was picked for.
- *Scheduler.* The same thread is linked in a list and in a tree, and both are changed
  by each primitive. `next == NULL` is how the main thread is recognised. The current
  item of a set may be unlinked, a set may become empty while it is the current one of
  its parent, and marks that a search leaves behind are seen by the next one. A search
  must end and must try all.
- *Custodians.* The order of the children and the order of the global list are kept by
  different code and a shutdown relies on their agreement; the collector takes
  custodians out of the middle of the tree. A thread dies with the last of its
  custodians, not the first, and a `thread/suspend-to-kill` thread must not run without
  one.
- *Channels and `sync`.* One thread stands in the lines of all its events, and others
  choose for it while it sleeps, take it out of the one line and post its nacks; it
  takes itself out of the others when it wakes. A choice changes two threads at once.
  Timeouts, breaks and kills end the same wait from other ends, and everything must end
  once: one result, one partner, every nack either posted or kept. Two threads that
  could meet must not both sleep.
- *Thread events.* A box is shared by all who asked for it until the thread changes
  sides, then thrown away, by a suspension, a resumption or a kill that comes from a
  program, from a thread that it is yoked to, or from a custodian.
- *Pipes.* Room is computed from four indices, the limit and what peeks added, in three
  places. Writers and peekers sleep on lists that only the other side's actions empty.
- *Peeked commits.* Committers elect a leader among themselves through three fields of
  the port. The leader locks it against readers, waits for everybody's target, and has
  to let go when a reader or another committer asks, when it is suspended, broken or
  killed, and start again. A byte must go to one thread that has peeked at it, and
  nobody may wait for a leader that is gone.
- *Asynchronous channels.* The manager can be stopped between any two of its steps by
  the shutdown of a custodian, and has to run for whoever waits for it.
- *Everything else* is listed with its hazards in `PROJECT.json`.

## 2. The plan

Order: what everything rests on first, and each module before those that use it.

1. `ThreadFlags`, `Semaphore`, `AbstractSemaphore`, `MCSemaphore`, `SemaphoreProofs`:
   done.
2. `Scheduler`, `MCScheduler`, `SchedulerProofs`: done, without nested threads.
3. `Custodian`, `MCCustodian`: done, for threads as what is managed. `ThreadEvents`,
   `MCThreadEvents`, on top of it, and `CustodianProofs` for both: done, for the events;
   what a thread's start copies and `thread-wait` (a wait on the semaphore of `dead_box`)
   are not there.
4. `Sync`, `AbstractSwap`, `MCSync`, `SyncLineProofs`, `SyncProofs`: done, for channels,
   semaphores and peeks of semaphores. Still to come: waits on several semaphores without a `Syncing`
   (`scheme_wait_semas_chs` with n > 1), in `Semaphore`.
5. `Pipe`, `AbstractPipe`, `MCPipe`, `PipeProofs`; `PortCommit`, `MCPortCommit`,
   `PortCommitProofs`: done, for the pipe of `make-pipe` and for commits on a primitive
   port.
6. `AsyncChannel`, `AbstractQueue`, `MCAsyncChannel`, `AsyncChannelProofs`: done, on top
   of what `Sync` shows of a meeting.
7. `NestedThread`: `call-in-nested-thread`, kill and break through the chain, and
   `do_atomic`, as an extension of `Scheduler`. `Will`: executors and the order of ready
   wills; `ThreadCell`: inheritance. Not begun.

The invariants, action properties and refinements that the runs check have a theorem
(section 5), but for those parts of `commit_safety` that are true only under an
assumption which the code does not justify; the parts that are to come should be written
so that theirs can follow.

The number of runs is kept to one for each question, or two where safety and progress
need different bounds.

## 3. The modules

### ThreadFlags

The word `running` of a thread, as the set of its bits. `WeakSuspend`, `WeakResume`,
`UserSuspend`, `UserResume` and `Kill` are what `scheme_weak_suspend_thread`,
`scheme_weak_resume_thread`, `suspend_thread`, `thread_resume` and `do_kill_thread` do
to it; `Queued` says when a thread is linked in the scheduler's lists. `Semaphore` and
`Scheduler` both use them, so they agree on what a signal does. `NEED_SUSPEND_CLEANUP`,
which only `port.c` sets, is left out.

### Semaphore

| Model | Code |
|---|---|
| `value[s]`, `line[s]` | `Scheme_Sema.value`; the doubly linked line from `first` to `last`, as the sequence of the threads of its `Scheme_Channel_Syncer`s |
| `running[t]`, `external_break[t]` | the fields of `Scheme_Thread` |
| `main_was_once_suspended` | `scheme_main_was_once_suspended` |
| `pc[t]` | where in its wait the thread gave up the processor: not at all, at `scheme_weak_suspend_thread`/`scheme_block_until` (`sema.c` 629-641), or in the `scheme_thread_block` of 687 |
| `picked[t]`, `fair[t]` | `picked` of the syncer; whether `syncing` has been allocated, and so whether a post hands itself over (`sema.c` 247-258) |
| `enabled[t]` | the break parameterization that `semaphore-wait/enable-break` pushes |
| `SemaphorePost`, `PostSemaAll` | `scheme_post_sema`, `scheme_post_sema_all` |
| `TakeNow`, `Wait` | the part of `scheme_wait_semas_chs` before the first swap: the polls that succeed, and the one that gets in line |
| `ReturnWithPost`, `PostStolen`, `DieAfterPick`, `LeaveLine` | what it does when it gets the processor back: one action for each branch of 646-787 |
| `BreakAfterBlock`, `PollAfterBlock`, `WaitAgain` | after the `scheme_thread_block` that a signal makes necessary |
| `BreakThread`, `ThreadSuspend`, `ThreadResume`, `KillThread`, `ReapKilled` | the signals, and the scheduler's removal of a killed thread |

An action is all that one thread does between two swaps. The scheduler is left open: any
thread that is linked may be next, so what is shown holds for every order that
`Scheduler` or MrEd's event spaces may bring about. The wait is that for one semaphore
without a `Syncing` supplied; a break always escapes from the wait (exception handlers
that return into it are not modelled); killing the main thread ends the process and is
not an action. The count is a C `long` whose overflow raises an exception; `MaxCount`
takes its place.

`AbstractSemaphore` is what a client may rely on: a counter with requests, each of which
is served at once, by a later post, not at all (break), or is gone (kill).
`ImplementsAbstract` maps `count` to `value`, a client that asks to a thread in its
wait, and one that has been granted a post to a thread that was picked in fair mode. A
thread that was picked in unfair mode still asks: that is how a stolen post looks from
outside.

### Scheduler

| Model | Code |
|---|---|
| `queue`, `num_running_threads` | the list from `scheme_first_thread`, its length |
| `next`, `prev`, `first`, `current`, `search_start` | `set_next`, `set_prev` of threads and sets; the fields of `Scheme_Thread_Set` |
| `current_thread`, `pc`, `at` | `scheme_current_thread`; whether it runs its program, searches in `scheme_thread_block` (or climbs out of a set there) or is in `select_thread`; `next_in_set` or `t_set` of that search |
| `ready[p]` | `p->blocker` is null or `block_check` holds |
| `Link`, `Unlink`, `SetFlags` | `schedule_in_set`, `unschedule_in_set` with the list operations in `weak_suspend`, `weak_resume`, `make_thread`, `remove_thread` |
| `SearchInGroup`, `SearchFindsItself`, `SearchFindsThread`, `SearchRemovesZombie`, `SearchGoesOn`, `SearchClimbs` | the loop at `thread.c` 3433-3568, one action for each way through its body |
| `SelectInGroup`, `SelectThread`, `Deadlock` | `select_thread` |
| `Create`, `Resume`, `Suspend`, `UnSuspend`, `FreezeMain`, `ThawMain`, `KillOther`, `WaitInLine`, `SuspendSelf`, `LeaveLine`, `End`, `Block`, `Yield` | what primitives do to the lists. `Freeze`/`Thaw` are suspension and resumption of the main thread, which stays linked |

A primitive that calls `schedule_in_set` for a set after a set is one action
(`LinkedWith`, `UnlinkedWith` are the chain of sets). The search is one action a step,
as it moves the current items on its way; no other thread acts meanwhile. `at` is
irrelevant while a thread runs and is set to `Top`. Block checks have no side effects
here. `Op` names the primitives that the programs of a run use.

### Custodian

| Model | Code |
|---|---|
| `links` | `parent`, `children`, `sibling`, `global_next`, `global_prev` of `Scheme_Custodian`, and `last_custodian` |
| `held` | whether the program has a custodian, has lost it, or the collector has taken it |
| `shut_down` | its field |
| `managers[t]` | the custodian of `mref`, then those of `extra_mrefs`; `Null` for a reference that has been cleared |
| `yoked[t]` | `transitive_resumes` |
| `MakeCustodian`, `Collect`, `Shutdown` | `scheme_make_custodian`, `adjust_custodian_family` as a finalizer, `scheme_do_close_managed` (with all of its `adjust_custodian_family` calls) |
| `MakeThread`, `KillThread`, `End`, `ThreadSuspend` | the primitives on threads that the custodian of the caller is checked for |
| `ThreadResume`, `ResumeUnder`, `ResumeWith` | `thread-resume` with one argument, with a custodian and with a thread |
| `Promoted`, `PromotedAll`, `Resumed` | `promote_thread` for one thread; with `transitive_promote`; the last part of `thread_resume` with `transitive_resume` |

A thread stands for its `Scheme_Thread_Custodian_Hop`; two references to the same thread
are told apart by their custodian. The main thread and the shutdown of the main
custodian, which ends the process, are left out. (`ThreadEvents` adds the events.)
`Usable` lets programs use a custodian that was detached by the shutdown of one above it
only if `Op` contains `"reuse"`, which no run does (see section 6).

### Sync

| Model | Code |
|---|---|
| `program[t]` | the calls of `sync`, `sync/timeout` and `.../enable-break` that the thread makes, in order, and the signals that others send to it |
| `<<t, k>>`, `<<t, k, i>>` | the `Syncing` of the thread's k-th sync; its `Scheme_Channel_Syncer` for the i-th event. Each call has its own, so a pointer that was left behind is seen as such |
| `links` | `get_first`, `get_last`, `put_first`, `put_last` of channels, `first`, `last` of semaphores; `prev`, `next`, `in_line` of syncers |
| `value`, `running`, `external_break`, `suspend_break` | the fields of the same name |
| `pc[t]` | in its program; asleep in its lines (`sema.c` 641); polled by the scheduler (`thread.c` 3496-3502); in the `scheme_thread_block` of `sema.c` 689 |
| `start[t]` | `start_pos` |
| `result`, `got` | `result` of the `Syncing`; for a get, the put whose value it received |
| `nack` | the semaphore of a `nack-guard-evt`: not made, made, posted, or kept (it will never be posted) |
| `outcome` | how the call of `do_sync` ended; no part of the code's state |
| `LineOf`, `Posted`, `Served` | a `semaphore-peek-evt` stands in the line of its semaphore, is ready when that has a post, and, chosen by a post, leaves the post for the next in line (`sema.c` 67-71, 245-258; a repost) |
| `Deferred` | the first poll of a sync whose guards run (`thread.c` 4893-4898) |
| `Received`, `Woken` | what a choice gives the other side: the value of the put, and a place in the scheduler's lists |
| `Try`, `Poll`, `Choose`, `NacksPosted` | `try_channel` and the loop of `scheme_post_sema`; one round of `syncing_ready` or `scheme_wait_semas_chs`; the setting of `result`, `disable_break` and nacks that goes with a choice; `scheme_post_syncing_nacks` |
| `SyncAtOnce`, `SyncTimesOut`, `SyncPolls`, `SyncSleeps` | `do_sync` up to its return or its first swap |
| `ReturnChosen`, `DieChosen`, `LeaveLines`, `BreakAfterBlock`, `MeetAfterBlock`, `TakeAfterBlock`, `SleepAgain` | `scheme_wait_semas_chs` with a `Syncing`, after the thread was woken |
| `PollBreak`, `PollReturns`, `PollTakes`, `PollTimesOut`, `PollSleeps` | `syncing_ready` as the block check of the scheduler, with what `do_sync` does right after |
| `Post`, `BreakThread`, `ThreadSuspend`, `ThreadResume`, `KillThread`, `RaiseBreak`, `ReapKilled` | the primitives and the scheduler, as in `Semaphore` |

`get_outof_line` does what the code does with the `prev` and `next` it finds, also when
the syncer is not in a line any more: this is how removals by partners, by nacks and by
the thread itself can undo each other. A sync of semaphores alone starts without a
`Syncing` and is the matter of `Semaphore`; every sync here has a channel, and the
threads are not the main one. Left out: who waits for a nack, wrap procedures, never and
alarm events, and events with ready procedures of their own. Guards that are evaluated
make the first round leave the thread to the scheduler (`SyncPolls`), which then puts it
to sleep (`PollSleeps`) when nothing but channels and semaphores is left.

`AbstractSwap` is what programs may rely on: requests that offer several events, of
which a put and a get happen together, in one step, for good, or not at all; posts that
are counted and taken once; requests that end by a timeout, a break or a kill and are
never chosen for afterwards. `ImplementsAbstract` maps a request to a call of `do_sync`,
`status` to `outcome` and `result`, `choice` to the event that `result` points at, and
`from` to `got`. That `sync/enable-break` raises a break or chooses is the guard of
`Lose`; that a request may fail with a post gone (`Fail`) is what the code does (section
6).

### ThreadEvents

Extends `Custodian` with one watched thread and one kind of event at a time.

| Model | Code |
|---|---|
| `watch` | the thread, and which of its boxes |
| `box` | `suspended_box`, `resumed_box`, `dead_box`: not made, or whether its semaphore is posted for good |
| `evt` | what a program that called `thread-suspend-evt` and the like has in hand: the thread's box, or one that the thread has thrown away since |
| `MakeEvt`, `DropEvt` | `scheme_get_thread_suspend`, `..._resume`, `..._dead` (`thread.c` 4493-4577) |
| `BoxesFollow`, `Posted`, `Replaced` | what `suspend_thread`, `thread_resume` and `thread_is_dead` do to the boxes, in the step of `Custodian` that changes the thread's life, whoever takes it |

`EventsTell` says when an event is ready by what the thread has been through (the life
that `Custodian` has), never by the boxes.

### Pipe

| Model | Code |
|---|---|
| `buf`, `buflen`, `bufmax`, `bufmaxextra`, `bufstart`, `bufend`, `eof` | the fields of `Scheme_Pipe` |
| `wakeup_on_read`, `wakeup_on_write` | the lists of semaphores, as the threads that wait on one of them |
| `writing`, `peeking` | the locals of a write or peek that sleeps: what is left to do, and the mode |
| `closed`, `out` | which of the two ports is closed; what the last step returned to a reader (no part of the code's state) |
| `Write`, `Retry`, `StopWriter` | `pipe_write_bytes` up to its next wait; its `try_again`; a break or kill in the wait |
| `Writable`, `Usable`, `Excess`, `Grow`, `Fill`, `Rest` | the computation of room, the longer buffer, the copy in two parts, what is left of the string after it |
| `Get`, `Peek`, `PeekOn`, `Look`, `Copy`, `StopPeeker` | `pipe_get_or_peek_bytes`, with the loop of its caller |
| `Close` | `pipe_in_close`, `pipe_out_close` |

The bytes are there, as what is to be shown is that they come out as they went in.
`AbstractPipe` is a queue of bytes with a limit on those that nobody has peeked at. A
write there is of one string of a program: `Write` adds the first part of it, as much as
there is room for (`Fits`), `pending` holds the rest, and `WriteOn` adds from that, so
that a call that is broken has written the first part of its string and no other bytes.
`ImplementsAbstract` maps the content to the cells from `bufstart` to `bufend`, the
number of bytes seen to `bufmaxextra`, and `pending` to `writing`. A reader of an empty
pipe waits in `scheme_block_until`, so that `Get` and `PeekOn` have that condition as a
guard. Ungotten bytes, positions and the ports' own locks are left out, as is `sync` on
the ports.

### PortCommit

| Model | Code |
|---|---|
| `leader` | who made `ip->input_lock` and `ip->input_giveup`; `Null` when they are `NULL` |
| `extras`, `abandoned`, `woken`, `won` | the list `ip->input_extras`: requests of threads that wait, and of threads that have left; `input_extras_ready` posted; the request marked as selected |
| `pc`, `choice`, `helps`, `again` | where in `scheme_peeked_read_via_get` a thread is, what its `sync` has chosen, whose targets are in that sync, `current_leader` |
| `told` | `input_giveup` is posted |
| `crashed` | `scheme_post_sema_all` was called on `NULL`, after which nothing happens |
| `suspended`, `frozen` | `MZTHREAD_USER_SUSPENDED`; of these, the ones off the run queue |
| `target`, `pos`, `watching`, `posted` | the targets that are ready; the bytes taken; whose progress event is the port's, whose is posted |
| `lock` | where a reader is: it waits for the lock of a given leader, or for one that is gone (`Orphan`) |
| `Peek`, `Commit`, `Enter` (`Refuse`, `Join`, `Lead`) | the call, up to its first wait |
| `GetInLine`, `Post`, `LeadReturn` (`CommitOwn`, `CommitOther`, `GiveUp`), `Reenter`, `ExtraReturn` | the leader's sync and what follows it; the return of one that waits |
| `Read`, `post_giveup`, `release_input_lock`, `elect_new_main`, `remove_extra`, `complete_peeked_read` | the functions of these names, `complete_peeked_read_via_get` for the last |
| `Break`, `Kill`, `Suspend`, `Resume`, `Leave` | signals to a thread that waits, and what `BEGIN_ESCAPEABLE` has registered for them |
| `Crash` | the two posts that are made without a test: of `input_giveup` by a thread that leaves the list (1789), of `input_lock` by one that leads when another has released it (1740) |

Only threads that wait, or are between two rounds, get signals, since the others have
nothing of the port's. A leader's sync returns the target that was chosen, and it looks
for that in the list as it finds it then: `CommitOther` is for a request in the list
(`ForAnother`), be its thread waiting or broken in the meantime, since such requests
stay (`abandoned`, `port.c` 1778).

A setting (`may`, of `Setting`) names the signals there are (`signal`) and what may
happen, apart from reads, while a leader is between two rounds (`window`), in
`scheme_thread_block(0.0)` (2009). The code allows commits and signals there. That it is
empty (`Undisturbed`) is therefore not a bound but an assumption. The three safety
properties have two parts each: one for all settings (`LockIsHeld`, `ListedOrTold` and
`OwnCommitsRight`, the last for the thread that holds the lock), which section 5 has the
proof of, and one with `Undisturbed` as its hypothesis (in `LeaderHasLock` that there is
`OneLeader`, in `NobodyForgotten` that there is a leader for those in the list and no
reader waits for a lock that was replaced, in `CommitsWhatWasPeeked` that a commit is
right also when another thread makes it). Section 6 says how each of the second parts
fails without. A thread peeks at one byte at a time; a target is a semaphore.

### AsyncChannel

| Model | Code |
|---|---|
| `queue`, `limit` | `queue-first` and its length, `limit` |
| `met` | the event that the manager's `sync` has chosen, until its handler runs |
| `call`, `answer` | what a user waits for, and what its sync has chosen |
| `managers`, `suspended`, `yoked`, `shut_down` | the part of `Custodian` that a `thread/suspend-to-kill` manager needs, with custodians side by side |
| `MayEnqueue`, `MayDequeue`, `TellsEmpty`, `TellsFull` | the events of the loop (`async-channel.ss` 70-81) |
| `MeetPut`, `MeetGet`, `MeetPoll` | the manager's sync and a user's choose each other, as one step: this is what `Sync` shows |
| `Loop` | the handlers, and round the loop |
| `Call`, `Return`, `Break` | `async-channel-get`, `-try-get`, `-put`, a poll of the put event; the return; a break or timeout |
| `Adopt`, `Shutdown` | `thread-resume` with a custodian; `custodian-shutdown-all` |

`AbstractQueue` is a bounded queue whose operations take effect at one moment between
call and end. `ImplementsQueue` maps its content to the queue with what the manager has
yet to do to it (`Handled`), so that the moment is the meeting.

The modules `MC...` give the constants values for TLC: symmetry over the threads that no
constant tells apart, the shapes of the tree of sets and of the tree of custodians, the
programs of threads that meet, the texts to write.

## 4. The runs

Eleven runs in which everything holds, one that shows a disagreement (section 6).

| Run | Constants | Shows |
|---|---|---|
| `sema_safety` | main, one thread with breaks enabled, one without; one semaphore, `MaxCount` 2; breaks, suspensions, kills | `LineInv`: line and threads agree. `SleeperInLine`: nobody sleeps outside the line. `EveryPostHasTaker`: while somebody stands in line, each post in the count has a waiter that was picked for it. The refinement of `AbstractSemaphore` |
| `sema_events` | three threads, one semaphore and one that is posted for good; kills; no fairness | the refinement for both. `NoStarvation`: a thread whose post was stolen is in fair mode from then on and is served if posts keep coming and it gets turns |
| `sched_lists` | main and three threads in two sibling sets; create, break, suspend, kill | `TreeInv`, `QueueInv`: the two structures, the flags and the count agree after any sequence of primitives |
| `sched_search` | main and three threads in nested sets; create, wait, break, suspension of main; `FairSpec` | `SearchEnds`, `SearchIsComplete` |
| `cust_shutdown` | main custodian, two below it, one below one of these, made in any order; an ordinary thread and one of `thread/suspend-to-kill`; promotion, yokes, kills, suspensions; an event of either | `FamilyTogether`, `ShutdownReaches`, `RunsManaged`, `HandedOn`; `EventsTell`: events are ready when they should be |
| `cust_collect` | four custodians, three deep, that programs lose; the same two threads, and an event of the end of the first | `AllVisited`: the collector's walk meets all that is managed. `ManagersKept`: no custodian of a thread goes without one above it taking its place |
| `sync_meet` | three threads, two channels, one semaphore with `MaxCount` 1, two events a sync, up to two syncs a thread, in eight programs (`Meetings`); breaks, suspensions, kills; `FairSpec` | `LineInv`: lines are lists of those who wait. `NacksRight`: nacks are posted or kept as the outcome says. `NobodyMissed`: a getter and a putter do not both sleep, nor anybody beside a post. The refinement of `AbstractSwap`. `ChosenGoesOn`: whoever was chosen for returns |
| `pipe_queue` | two writers, two readers, no limit or one of 2, a buffer of 2 cells at first | `RoomInv`: room is never negative. `SleepersInv`: nobody who sleeps is forgotten by the other side. The refinement of `AbstractPipe`: bytes come out in the order they went in, and what goes in is the string written, part after part |
| `commit_safety` | three committers, one reader, two bytes; kills, with commits and kills between two rounds of a leader, or breaks, suspensions and kills, with only reads there | `LeaderHasLock`: the lock that is there is that of a thread that will release it, and its byte is kept for it; in the second setting nobody else leads. `NobodyForgotten`: no request is lost; in the second setting nobody waits for a leader that is gone. `CommitsWhatWasPeeked`: the holder of the lock commits the byte it peeked at; in the second setting also for others |
| `commit_progress` | the same with kills, only reads between two rounds, and fairness | `ReaderGetsThrough`, `WaiterIsHelped`, unless the program crashes |
| `async_queue` | two users in custodians of their own, two values, limits 0, 1, 2; breaks, shutdowns, promotions; `FairSpec` | `ManagerRunsForUsers`; the refinement of `AbstractQueue`; `WaitersServed` |
| `commit_leaders` | three committers, one byte; no signals, commits between two rounds | `OneLeader` does not hold |

*Bounds.* Three threads are a poster, a waiter and the one that interferes: a stolen
post, a kill with somebody behind in line, and a signal to a picked waiter all need
three and no more, as they involve one line position and its successor. `MaxCount` 2
lets a post meet a raised count and meet the maximum. Four threads in three sets give a
set with two members beside a set that becomes empty, and a set within a set, with the
main thread at the top; a search treats every level the same. Four custodians below the
main one are the fewest in which the middle of a chain can go with a sibling on either
side. Two threads are enough for yokes, as promotion goes edge by edge. A meeting is of
two, and a third one either competes for it or stands behind in the same line; two
events are what makes a choice leave another line to be left and another nack to be
posted, and two channels make a cycle of gets and puts possible. `sync_meet` gives each
thread its program, because every thread doing everything gives millions of states that
differ in what nobody looks at. Its programs send signals to a thread that is polled
only where nobody else stands in its lines, and none has both a timeout and enabled
breaks: section 6 says what happens otherwise. A buffer of two cells that begins with a
limit of 2 has to grow once for what peeks added, to wrap around, and to be shorter and
longer than what the limit allows; strings of one and of three bytes make writes that
fit, that fill, and that come back for the rest; reads and peeks of up to two bytes from
position 0 or 1 stop before, in and after the wrap. `MaxContent` bounds what programs
put into a pipe without a limit, the code does not. Of three committers one leads, one
has its request in the list, and one comes while the leader leaves, or is the second
leader; with two bytes the second can be committed by those who lost the first. In the
setting with commits kills stand for breaks too: they leave a wait in the same way. Two
users are a getter and a putter, or two that compete; two values tell an order;
`MaxQueue` bounds a channel without a limit, and a limit of 1 or 2 makes one that is
full with and without a value behind the first. The collector is left out of
`cust_shutdown`, since after a collection `ShutdownReaches` does not hold (section 6),
and promotion out of `cust_collect` for the like reason. `CHECK_DEADLOCK FALSE` is given
in every run: in each model all threads may be dead, suspended or asleep, and the
program is then over.

*Fairness.* That a thread which can run gets a turn is not something that the scheduler
guarantees: `select_thread` can pass the same thread over again and again (`thread.c`
2186; section 6 has the sequence). `sema_events` assumes no fairness. `NoStarvation` has
the turns of the thread it is about as its hypothesis (`GetsTurns`), and says that the
semaphore does not starve whoever the scheduler does not. The specifications of `Sync`,
`PortCommit` and `AsyncChannel` below assume a scheduler that goes round: their liveness
is about who wakes whom, and excludes that sequence by assumption. `Scheduler!FairSpec`
has weak fairness for a search that is on (it is a loop in C) and for `Yield` (the
timer: `scheme_fuel_counter` runs out). `Sync!FairSpec` has weak fairness for the return
of a thread that was chosen for and can run. `PortCommit!FairSpec` has weak fairness for
each committer's steps and for the end of a suspension, and strong fairness for a read
at a moment when there is no leader: while a leader lets others run (2009) a scheduler
that goes round comes to all threads, so a reader that is woken has its turn then.
`AsyncChannel!FairSpec` has weak fairness for the manager's loop and a user's return,
and strong fairness for a meeting: lines are first in, first out (`sema.c` 450), and a
sync starts at a random one of its events (`thread.c` 4698), so nobody who could meet
the manager again and again is passed over for ever. Nothing is assumed of programs, of
posts or of input.

## 5. What is proved

`SemaphoreProofs` proves, for any finite set of threads, any semaphores, any maximum
count and any set of signals:

- `TypeCorrect`: `Spec => []TypeOK`;
- `LinesInOrder`: `Spec => []LineInv`;
- `NoSleeperLost`: `Spec => []SleeperInLine`;
- `PostsHaveTakers`: `Spec => []EveryPostHasTaker`.

From the constants only `ConstantsAssumption` of `Semaphore` is used. The inductive
invariant is `TypeOK /\ FlagInv /\ MainInv /\ LineInv /\ SleeperInLine`. `LineInv` alone
is not inductive: that whoever is in line is not gone rests on the kill action waking,
and not removing, a thread with `NEED_KILL_CLEANUP`, so it needs to know that a waiting
thread has that bit: `FlagInv` ties the bits to `pc`. `SleeperInLine` needs, for the
main thread, that it never has the bits that only others get, and that
`main_was_once_suspended` is up when it has been resumed after a suspension: `MainInv`.
The step of `SleeperInLine` goes by what an action does to the lines: they shrink from
the front (a post), lose one thread (a signal), or grow by one; a thread that a post
drops without picking it has a break due, is suspended, or is killed, so it is not what
the invariant speaks of, and the resumption of a suspended one wakes it.

`PostsHaveTakers` is about numbers: with somebody in line, the count of a semaphore is
at most the number of its takers, who were picked for a post that they do not own yet
(`BackedAt`, for which there have to be finitely many). A post that raises the count
while there is a line picks a new taker; one that hands itself over, or finds nobody to
pick, leaves the line empty or the count as it was; a taker goes away with the post it
takes, or because the count is 0. A thread gets in line only after its polls found no
post, so that nobody starts a line in front of a raised count, and `FlagInv` keeps a
taker from being removed before it has run. It is not part of the invariant but follows
it: each step needs `IInv` before it and nothing of `EveryPostHasTaker` for other
semaphores.

The last part of `SemaphoreProofs` proves, from the same assumption and for the same
instances:

- `AbstractRefined`: `Spec => ImplementsAbstract`.

Its invariant is `TypeOK /\ FlagInv /\ LineInv /\ BlockInv`. A waiter is handed a post
when it is picked and fair, and `BlockInv` says that a thread that has left its line for
a signal was not picked, so that a break cannot end a wait that has been served. That a
flag word is not empty unless the thread is gone (`Shaped`) keeps wake-ups and
suspensions out of what clients see (`FlagsUnseen`). A post is `Post`, or `PostTo` when
it picks a fair waiter (`PostIs`); a waiter that dies after it was picked takes its post
along and may hand the next one to a fair waiter (`DieIs`), which `LineInv` says is
somebody else.

`PortCommitProofs` proves, for any sets of committers and readers, any number of bytes,
any signals, and whatever happens between two rounds of a leader (any `Setting`):

- `TypeCorrect`: `Spec => []TypeOK`;
- `LockHeld`: `Spec => []LockIsHeld`;
- `RequestsKept`: `Spec => []ListedOrTold`;
- `OwnCommitRight`: `Spec => OwnCommitsRight`.

From the constants `CommitAssumption` and `ChoiceAssumption` of `PortCommit` are used,
which say nothing about what programs do. The inductive invariant is `TypeOK /\ LeadInv
/\ LockIsHeld /\ ListedOrTold /\ ProgressInv`. It has to do without there being one
leader: threads with `current_leader` set are somewhere in their rounds (`LeadInv`), and
each of them can make a lock over that of another. What stays true is that the lock was
made by a thread which was not refused at that moment, so that its progress event was
not posted, and that nobody takes a byte while there is a lock without releasing it in
the same step: a leader's return releases the lock, its own or another's, and a read
waits. `ProgressInv` adds that a thread whose event is the port's current one peeked at
the byte that is next, hence that the byte of the lock's holder is still there when it
commits. `ListedOrTold` is inductive by itself, as dropping the list tells all who are
in it (`elect_new_main`) and a thread leaves the list only with its wait. The other
parts of `LeaderHasLock`, `NobodyForgotten` and `CommitsWhatWasPeeked` are not proved:
without their hypothesis that nothing but reads happens at `port.c` 2009 they are false.

`PipeProofs` proves, for any threads, bytes, limits, first length of the buffer and
bounds on what is asked for:

- `RoomNeverNegative`: `Spec => []RoomInv`;
- `SleepersNotForgotten`: `Spec => []SleepersInv`.

From the constants `PipeAssumption` of `Pipe` is used. The proof is about the indices
only: a copy (`CopyLengths`) and a write (`GrowLengths`, `FillLengths`) are reduced to
by how much they move `bufstart` and `bufend` apart. The inductive invariant is
`IndexInv /\ CallInv /\ RoomInv /\ SleepersInv`. `IndexInv` keeps the indices in the
buffer. `CallInv` is needed for a woken writer that finds no room again: the code looks
at the room in the buffer as it is (`portfun.c` 2006) and does not see that the buffer
may grow, so it could go to sleep at a pipe that is not full; it does not, because the
buffer was once as long as the limit when the writer went to sleep first, and never gets
shorter.

Its last part adds the bytes, from the same assumption and for the same instances:

- `TypeCorrect`: `Spec => []TypeOK`;
- `QueueOfBytes`: `Spec => ImplementsAbstract`.

The invariant is the one above with `BytesInv`, that the cells from `bufstart` to
`bufend` hold bytes, and `ShapeInv`, the bounds on limits and calls. The remainders of
the indices are done once: `Cell` is the cell of the i-th byte, and `ContentOf` the
content as a function of the buffer, its length and the two indices, so that what a copy
does is said of any four such values. A write fills the cells behind the content,
before and after the wrap (`FillsTo`), after the buffer was made longer (`Grown`), which
lays the content out from cell 0; a read takes a first part away (`EmptiesTo`). The
content is then the old one with what was written behind it (`Joined`), or the old one
without its first bytes, which is what the queue of `AbstractPipe` does. The room that
`Writable` computes is what the limit leaves, with what peeks have seen (`FitsIs`); so
the bytes written are that many of the string, from its first one, and what the call has
left to write is the string without them (`TryBytes`, `CutOff`), from which a writer
that is woken goes on (`TryIs`).

`AsyncChannelProofs` proves, for any users, values, custodians, limits and operations:

- `TypeCorrect`: `Spec => []TypeOK`;
- `ManagerRuns`: `Spec => []ManagerRunsForUsers`, assuming `Early = FALSE` as in
  `async_queue` (otherwise it does not hold: section 6);
- `QueueRefined`: `Spec => ImplementsQueue`.

From the constants `AsyncAssumption` of `AsyncChannel` is used. The inductive invariant
is `ChannelInv /\ UserInv /\ CustodyInv`, and `YokeInv` with it for the second theorem.
`ChannelInv` has what a step of the manager's loop rests on: a meeting to dequeue is
only handled when there is a value, and one to enqueue when there is room. `YokeInv` is
the reason why the manager runs: it has all the custodians of the users that it is yoked
to, so it is without one only when they are all killed; and a user that it is not yoked
to has one custodian, which is the one that `thread-resume` hands on. The lists of
custodians are treated as sets (`PromotedList`, `LeftList`), for which they must not
have one twice (`IsList`). For the refinement each step is mapped: a meeting is the
moment at which a put, a get or the failure of a poll happens (`MeetPutIsPut`,
`MeetGetIsGet`, `MeetPollIsFail`), the manager's loop is a stutter (`LoopStutters`), and
returns, breaks and shutdowns are ends of calls (`EndIsEnd`).

`SchedulerProofs` proves, for any threads, tree of groups and operations of the program:

- `TypeCorrect`: `Spec => []TypeOK`;
- `QueueAgrees`: `Spec => []QueueInv`;
- `TreeAgrees`: `Spec => []TreeInv`;
- `SearchesAreComplete`: `Spec => SearchIsComplete`, assuming that not all three of
  `"kill"`, `"suspend"` and `"break"` are in `Op` (otherwise it does not hold: section 6).

From the constants `SchedulerAssumption` of `Scheduler` is used; that groups form a tree
is there as what the code gives, that a group is made in one that exists: of any set of
threads and groups one has its parent outside. For `QueueAgrees` the inductive invariant
`IInv` says that the list of all threads holds each thread that can be swapped in once
(`Lists`; `QueueInv` says so only by comparing numbers, which a step cannot be proved
from), and which words the main thread can have (`MainWords`): it is never out of the
list, because a suspension by the user only sets a flag there, and whoever is linked is
linked in front of it, so it stays the last. `ListWithFirst` and `ListWithout` are what
linking and unlinking do to such a list; every primitive is reduced to them by
`SetFlagsKeeps`, since a thread's word and its place in the list change together.

For `TypeCorrect` and `TreeAgrees` it is `IInv /\ TreeIs /\ SearchInv`. `TreeIs` says
that what is under each group and has to run (`Under`) is listed: there is a sequence of
all of it, each once, that the links follow both ways (`Chain`, `Listed`), and the
current item is one of it. `Linked` is what the links of such a list say one by one,
from which the steps are proved. A primitive links or unlinks a stretch of the way up
from a thread (`Part`): the groups that had nothing to run, or will have nothing. That
no group is on a way twice and that the ways do not fork (`NotAboveItself`,
`WayOrdered`, `WayChild`) makes this one item in each list that changes. `SearchInv`
keeps the search on what is listed or on the top: a search moves current items and
unlinks zombies while it goes round a group (`Around`). At last, `InOrder`, which
`TreeInv` is stated with, is a walk along the links (`Steps`), of which induction shows
that it goes through the list (`WalkIs`). What is missing as a rule, induction over the
numbers, is had from their being well-founded: a set of numbers has a least one
(`Least`).

`SearchesAreComplete` adds `TameInv`, `RunInv` and `PassInv`. A search starts at the
current items, so it ends at the right place only if these lead to the current thread
while that runs (`RunInv`); linking and unlinking others does not change this, as two
ways up part at a group that holds more than the one of them (`Fork`, `UnlinkLeads`).
The removal of a zombie in the middle of a search would: it lets the current thread go
on with the current items where the search has come to. `TameInv` says which words there
can be, so that no zombie is linked. `PassInv` is about the search: the current items
lead to where it is, and in each group that it is in there is a set of items (`Trail`),
from the mark `search_start` up to the current one, in which there is nothing to be
found (`Spent`). No order is needed: a set of a group's items that is closed under the
next one, going round, is the whole group (`RoundIs`). So a group is spent when its mark
comes up again (`TrailGrows`), and when the search comes to the current thread, all that
is beside the way up from there has been seen (`AtHome`), the mark being right behind
the way in each group. Marks that a search leaves behind do no harm, as only groups that
it is in are looked at and it sets theirs when it enters them. That the search runs out
at the top (`thread.c` 3543-3549) does not happen then.

`CustodianProofs` proves of `Custodian`, for any finite set of custodians and of threads
and any shape of the tree:

- `FamilyInvariant`, `TypeCorrect`, `FamiliesTogether`, `RunsAreManaged`, `AllAreVisited`:
  `Spec =>` each of `[]FamInv`, `[]TypeOK`, `[]FamilyTogether`, `[]RunsManaged` and
  `[]AllVisited`, and `ShutdownsReach`: `Spec => ShutdownReaches`, assuming that `Op` has
  neither `"collect"` nor `"reuse"`, as in `cust_shutdown`;
- `CustodiansAreHandedOn`: `Spec => HandedOn`, whatever `Op`;
- `CustodiansAreKept`: `Spec => ManagersKept`, assuming that `Op` has neither `"promote"`
  nor `"yoke"`, as in `cust_collect`;

and of `ThreadEvents`, whatever `Op`:

- `EventsAreTold`: `EvtSpec => EventsTell`;
- `EventsOnTop`: `EvtSpec => Spec`, by which the others hold for threads with events too.

From the constants `CustodianAssumption` of `Custodian` is used. The conditions on `Op`
are needed for `FamInv`: either name lets programs bring about trees in which it does
not hold (section 6). `AllVisited` is so proved without, and checked with, a collector.
The inductive invariant `FamInv` has a witness that is no variable of the model: an
order of the custodians in the tree (`pos`), which the code has only as the order of its
links. `Tree` says that `parent` leads down in this order and that the parent of a
custodian is above the one just before it, which is what keeps a family together;
`Lists`, that `global_next` and `global_prev`, `children` and `sibling` each lead to the
nearest one in it. A new custodian is put behind the family of its parent, for which the
others are moved up (`InsertKeeps`); a shutdown takes the family out from its last one
to its first, each without children by then (`RemoveKeeps`, `ShutKeeps`). With it, every
walk along links (`Supers`, `Below`, `LastDescendant`, `Family`) is known: links fall in
rank, so walks do not meet an item twice and end within the number of custodians
(`PathIs`, `FallsPath`). `Managed` says what a shutdown relies on for each thread: its
custodians are in the tree and not shut down, or it has none and does not run.
`HandedOn` needs no tree: the threads that a promotion reaches are closed under yokes
(`ReachedIs`), and each gets the custodian, or has one above it. `BoxInv` is for the
events: the box of a thread that has not been killed while suspended is posted just when
what it stands for holds, and one that the thread has thrown away without a post waits
for what cannot happen any more.

`SyncProofs` proves, for any finite number of threads, any channels and semaphores, any
maximum count and any set of programs that fulfil a condition:

- `TypesHold`: `Spec => []TypeOK`, `LinesHold`: `Spec => []LineInv` and `NacksHold`:
  `Spec => []NacksRight`, if each program is `Apart`;
- `NobodyIsMissed`: `Spec => []NobodyMissed`, if each is also `Attentive`;
- `SwapRefined`: `Spec => ImplementsAbstract`, if each is `Apart` and `Balanced`.

From the constants `ConstantsAssumption` of `Sync` is used. The conditions, defined in
`Sync`, are about the syncs that the scheduler polls (those with a timeout or with
guards), and the properties do not hold without them (section 6):

- `Apart`: such a sync does not have a channel event twice, and if its thread gets
  signals then no other thread stands on the same side of its channels. Otherwise
  `scheme_post_syncing_nacks` may remove a syncer twice, with neighbours from which it
  has been cut off.
- `Attentive`: a thread with such a sync is not suspended; it would be dropped from a
  line and not look at the channel again.
- `Balanced`: of the syncs of a thread that enable breaks only the last may come to
  nothing, by a timeout or by a post that is taken after a signal; it reverses a
  suspension of breaks that did not happen.

That the programs of `sync_meet` fulfil all three is `MeetingsAssumption` of `MCSync`,
which TLC evaluates. A sync that is not polled is under none of the conditions (but for
the semaphore of the third), nor is a thread that gets no signals under the second half
of the first.

The inductive invariant `IInv` is made up of

- `Good(links)`, about the pointers alone, in `SyncLineProofs`. Its witness is an order
  that the code does not have: a position for every syncer (`pos`) by which each line is
  sorted (`Sorted`), a new one behind all others. Then `prev` and `next` of who is in
  line lead to the nearest ones in it, and a walk from `first` meets each once
  (`WalkSorted`); getting in and out of line keep this (`IntoSorted`, `OutSorted`). A
  second removal does nothing while the old neighbours agree that the syncer is not
  between them (`Gone`, `GoneOut`). Within one choice they do, as the syncers removed
  are of different lines (`OutByNacksGood`); across steps it is enough that there never
  were any neighbours (`Alone`), which is what `Apart` is for. `LineInv` follows.
- `ThreadInv`, about a thread's words: `WordInv` ties the bits to `pc` and to the signals
  that the program allows, `StageInv` says where in its current sync a thread is, and
  `BreakInv` bounds `suspend_break`, which only a choice raises above 0.
- `CallInv`: which outcome goes with which result and which call; a call that is going
  is the current one of its thread.
- `SyncerInv`: `NackInv`, from which `NacksRight` follows; `PlaceInv`, who may be in
  line: only a syncer of a sync that is going, so that no choice is made for a call that
  is over; `KeptInv`, who has to be: all syncers of a thread that sleeps and could be
  chosen for, and those on channels of one that is polled.
- `Met`: nobody is in the line of a semaphore that has a post (`Drained`), and no two
  syncs stand in the two lines of a channel (`Facing`, for programs that are `Attentive`).
  With `KeptInv` this is `NobodyMissed`. It is about who is in line, not about who
  sleeps, because a thread that was dropped for a break or a suspension is woken to
  leave its lines, and then tries all its channels before it gets back in.

A step changes what is known of one thread, or of two if they meet. So all of the
invariant that is about one thread is put together as `Fine`, and there are lemmas for
what keeps the others' (`SamePlaces`). A poll goes round the events and may drop from
lines, on its way, syncers that cannot be chosen for: it is the only walk with an effect
on others, and the lemmas about it say which ones are dropped and what the one chosen is
like.

For the refinement `BalanceInv` is added: with an event chosen breaks are suspended, and
`suspend_break` is never too low when a sync that enables breaks is there or to come, so
that such a sync does not both choose and raise a break (`SuspendInv`); a thread leaves
its lines without a choice only for signals (`BlockInv`). Each step is then mapped: two
that meet are one `Meet` (`MeetMaps`), a semaphore event chosen is `Take` (`TakeMaps`),
a post goes to the count or to who is first and can take it (`PostMaps`), a post that is
taken without a result is `Fail` (`FailMaps`), returns, breaks, timeouts and kills are
the ends of requests (`ReturnMaps`, `LoseMaps`), a sync begins with `Ask` (`AskMaps`) or
with one that is answered at once, and all else is a stutter (`GoesMaps`, `SignalMaps`).

Model-checked without a proof are liveness (`NoStarvation`, `SearchEnds`,
`ChosenGoesOn`, `ReaderGetsThrough`, `WaiterIsHelped`, `WaitersServed`), which needs
`ENABLED`, and the prover does not treat that; and the parts of `LeaderHasLock`,
`NobodyForgotten` and `CommitsWhatWasPeeked` that are about leaders which are
undisturbed. Where a theorem has a condition it says nothing beyond it: the Sync,
Scheduler, Custodian and AsyncChannel findings of section 6 are about programs that the
conditions exclude.

## 6. Where the code and what is said of it differ

One is a run that TLC finds violated, with the lines quoted in `PROJECT.json`:

- `commit_leaders`: a leader that was asked to give up releases the lock, which makes
  `input_giveup` `NULL`, and lets others run (`port.c` 2000-2009). A thread that calls
  `port-commit-peeked` then finds no leader and makes itself one; the first comes back
  with `current_leader` set and makes a second lock. Whoever waits for the lock that was
  replaced waits for good.

The next ones are properties in the modules that no run checks because they do not hold.
With the constants given TLC shows each in seconds:

- `Semaphore!NoBreakSleptThrough` (`EvtSema` empty, `InitCount` {0}, `BreakEnabled` {a},
  `Signal` {"break"}): a waiter that was picked, lost the post and got a break before it
  ran goes back to sleep with the break pending; `sema.c` 682 blocks once "to handle
  breaks/kills" only in the branch for waiters that were not picked.
- `Custodian!ShutdownReaches` (`Under` from `UnderDeep`, `Op` {"collect"}): when a
  custodian in the middle is collected its children change place among the children of
  the one above, not in the global list, and a shutdown stops short of them. `FamilyTogether`
  and `RunsManaged` fail in such trees too, the second when one that the shutdown stopped
  short of is collected and leaves its thread to the one that is shut down. With six
  custodians (`c1:>root, c2:>c1, c3:>c2, c4:>c2, c5:>c3`) a shutdown also leaves a
  `children` link behind in one that it detaches; if that one, which programs still hold,
  is shut down itself, the walk back (1240-1360) may start at one that is still in the
  list and go on to the main custodian, where `global_prev` is `NULL`.
- `Sync!NeverFalse` (`Programs` from `Signalled`): a sync on a semaphore and a channel
  that was woken by a signal takes a post in its re-poll without setting `result`
  (`sema.c` 749); `thread.c` 4970 ignores what it returns. The post is gone, all nacks
  are posted, and `sync` without a timeout returns `#f`.
- `Sync!NobodyMissed` (`Programs` from `Broken`): `scheme_post_syncing_nacks`
  (`thread.c` 5089) removes the syncers of a polled thread whether they are in line or
  not. After a choice and a break it does so a second time, with the `prev` and `next`
  of the first, and empties the line of those who came in between: a getter and a putter
  both sleep. `Apart` excludes this. It also excludes a polled sync that has a channel
  event twice: there the syncers are neighbours of each other, the second removal of one
  brings back the other, and `LineInv` fails too.
- `ThreadEvents!DeadIsTold` (as `cust_shutdown`): `kill-thread` on a suspended thread
  marks it as killed, but `remove_thread` is called for linked threads only (`thread.c`
  4001-4004), so `thread_is_dead` never runs, and a `thread-dead-evt` that was made
  before is never ready. `include/scheme.h` 819 says of `dead_box` that it "contains
  non-zero when the thread is dead".
- `Pipe!PeekMakesRoom` (`Limits` {1}): "Peeking from a limited pipe effectively
  increases its capacity, temporarily" (`notes/mzscheme/HISTORY` 101), but a peek wakes
  no writer that sleeps for room already, and when the peeker then waits for more than
  there is, both sleep.
- `PortCommit!AbandonedTakesNothing` (as `commit_safety`): `remove_extra` (`port.c`
  1778) compares a cell of the list with the event, never finds it, and leaves the
  request of a thread that was broken where it is: a leader that has chosen its target,
  or chooses it later, still finds the request (1977-1990), and takes the bytes for
  nobody.
- `PortCommit!NothingPostedToNull` (as `commit_safety`): a thread waits for a leader,
  and the leader is broken: the lock is released, `input_giveup` becomes `NULL`, and the
  thread is told to come back. If it is broken or killed itself before it runs,
  `remove_extra` posts `input_giveup` to "Tell the main commit thread to reset"
  (`port.c` 1788-1789), without the test that is made in 1895, and
  `scheme_post_sema_all` (`sema.c` 280) reads through `NULL`. Nothing needs to happen
  between two rounds of a leader for this. When a thread waits for a leader between two
  rounds the same comes of one break, and with two leaders of none: the second one to
  return releases a lock that is gone (1740).
- The second part of `PortCommit!NobodyForgotten` without `Undisturbed` (as
  `commit_safety`): a leader that is killed or broken between two rounds has no cleanup
  registered, and the requests in the list wait until somebody else commits. With
  commits there it fails too, for a reader: the lock that it waits for is replaced by
  that of a second leader.
- The second part of `PortCommit!CommitsWhatWasPeeked` without `Undisturbed` (as
  `commit_leaders`, but with `MaxPos` 2): a thread leads and gives up, and the one that
  waits for it has its target posted. In the window somebody reads, so that both have
  lost, and a third thread peeks and commits: it becomes a leader although the first
  will come back, and syncs on the target of the one that waits, whose progress event
  nobody looks at again. That is chosen, and the thread is told that it has committed a
  byte that it has not peeked at.
- `AsyncChannel!ManagerRunsForUsers` (`Early` TRUE, three custodians, two of them not
  the creator's): a user that got a second custodian before it first used the channel
  hands on its main one only. When that and the creator's are shut down, the user lives
  on and waits for a manager that is suspended, though "from the user's perspective,
  [it] is not bound by any custodian at all" (`async-channel.ss` 64-68).

Met while modelling, without a run:

- `suspend_thread` (4134) wakes a waiter to leave its lines only if its `SUSPENDED` bit
  is still set. One that a post has just picked is suspended on the spot and sits on the
  post, which stays in the count while others sleep in line.
- `select_thread` takes the thread after the current item, but unlinking has already
  moved the current item on: two threads, one that waits and one that posts and yields,
  again and again, keep a third one out for ever.
- In `promote_thread`, `c` has been overwritten by the loop over the extra custodians
  when the main one is compared with the new one (4334): a thread can so lose its main
  custodian to an unrelated one.
- `sync/timeout/enable-break` that times out reverses a break suspension that did not
  happen (`thread.c` 5212): `suspend_break` is -1 from then on, and `scheme_can_break`
  wants 0. The next such sync that chooses brings it to 0, so that a break can come after
  a choice. `Balanced` excludes this.
- A thread that is polled and was dropped from a line while it was suspended, or had a
  break coming that it then did not get, is not put back, and its channels are not tried
  again (`sema.c` 580, "Probably no need to poll"): it waits for a partner that cannot
  see it until it times out. A `sync` with a `nack-guard-evt`, which has no timeout,
  gets back in line when it is put to sleep, but does not look at the other side first.
  `Attentive` excludes the suspension.
- The re-poll (`sema.c` 752) has no branch for never events, though the comment at 521
  says that they can be there.
- A waiter that an unfair post picked and that is then killed takes a post before it
  notices (`sema.c` 664) and asks for a second one to pass on (710).
- `break-thread` on a thread that was killed while suspended links it again (`thread.c`
  3344-3374); the search that removes it ends at once (3482-3492) with the current items
  of the sets moved on, and the next search starts from there: `SearchIsComplete` does
  not hold when kills, suspensions and breaks come together.
- `select_thread`'s comment (2203-2204) knows only the main thread as one that is linked
  though suspended; a thread that is to leave a line is one too.
- A shutdown detaches the custodians below but leaves their `shut_down` unset (1355):
  programs can go on to use them, out of reach of any shutdown above.
  `notes/mzscheme/HISTORY` 229 says "A shut-down custodian is no longer allowed to
  manage new objects". With `"reuse"` in `Op`, `RunsManaged` and `AllVisited` fail.
- A leader whose sync has chosen another's target and that is killed or broken before it
  runs has used the target up, and nothing is committed.
- A leader that is suspended before it stands in line (while its suspend event is not
  yet a semaphore) or after it was chosen is taken off the queue with the port locked:
  readers and committers wait until it is resumed.
- `pipe_out_ready` (`portfun.c` 2118) looks at the cells alone, not at the limit with
  what peeks added: a pipe can be ready for which a write blocks, and the reverse. The
  test of a writer that was woken has the first half of this: it does not see that the
  buffer could grow.
- A poll on an asynchronous channel (`async-channel.ss` 131) takes the value in an inner
  sync; a break or a kill before the outer one returns loses it, also with
  `sync/enable-break`.
- `thread-resume` with a thread hands on its main custodian only: the loop at 4435 goes
  over the extra ones of the thread that gets them. The comment at 4305 ("Every
  transitive target for p always has at least the custodians of p") does not hold then.
- With the above, lines 4343-4375 (extras to be replaced) are never reached in a way
  that changes anything: `c` is the last extra one there and has just been found not to
  be below.
- After two custodians of a thread are collected into the same one, that one holds two
  references to it, and `remove_managed` (977) takes whichever it finds first.

## 7. What is left out

Not begun: nested threads and atomic mode (a thread that waits for the one nested in it
is linked, suspended and killed through it; this changes `Scheduler` and `Custodian`
both), wills and thread cells (sequential tables; what is hard in wills is the order in
which the collector finds things, which is external), waits on several semaphores
without a `Syncing`, and what a new thread copies. They are to come. Not planned: the
collectors (sequential, dominated by memory layout; the two things they do to the
models, losing custodians and running finalizers, are external actions), the reader,
expander, compiler and evaluator and the data types (sequential; unit tests in
`collects/tests/mzscheme` reach them), network and subprocesses (operating system calls
around `scheme_block_until`), MrEd and the Scheme collections other than those named in
the plan. In the modelled components: memory limits and scheduled kills of custodians,
managed ports and closers, `NEED_SUSPEND_CLEANUP`, sleeping on file descriptors
(`check_sleep`), and the C stack copies of thread swaps.

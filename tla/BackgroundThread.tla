-------------------------- MODULE BackgroundThread --------------------------
(***************************************************************************)
(* LibThreading's background thread: one thread per process runs the work  *)
(* that BackgroundAction objects enqueue                                   *)
(* (src/Libraries/LibThreading/BackgroundAction.cpp).  The queue is        *)
(* guarded by s_mutex and announced with s_condition; the flag that stops  *)
(* the thread is an atomic of its own, stored without the mutex.           *)
(*                                                                         *)
(* The thread is a program counter:                                        *)
(*   none     not started, or joined                                       *)
(*   lock     about to lock s_mutex                                        *)
(*   test     holds s_mutex, about to evaluate the inner loop's condition  *)
(*   sleep    holds s_mutex, about to call pthread_cond_wait               *)
(*   waiting  inside pthread_cond_wait, s_mutex released                   *)
(*   run      about to look at the next action it took, and after the last *)
(*            (or when it has just started) at the flag of the outer loop  *)
(*   action   inside an action (the module that EXTENDS this one says what *)
(*            an action does, and when the thread is back in "run")        *)
(*   on_error inside an action, in its error callback                      *)
(*   done     has returned                                                 *)
(* The critical sections of the other threads contain no wait, so each is  *)
(* one step, possible when the background thread does not hold s_mutex.    *)
(* A spurious return of pthread_cond_wait is left out: it repeats the test.*)
(***************************************************************************)
EXTENDS Naturals, Sequences

VARIABLES
    s_background_thread,    \* the thread's program counter
    should_run,             \* s_background_thread_should_run
    s_all_actions,          \* the queue of enqueued work
    actions,                \* what the thread took from it and has not finished
    woken,                  \* s_condition was broadcast since the thread waits
    quitting                \* where quit_background_thread() is: "no", "stored"
                            \* (the flag is false) or "broadcast" (joining)

backgroundVars ==
    <<s_background_thread, should_run, s_all_actions, actions, woken, quitting>>

ThreadStates == {"none", "lock", "test", "sleep", "waiting", "run",
                 "action", "on_error", "done"}

BackgroundInit ==
    /\ s_background_thread = "none"
    /\ should_run = TRUE
    /\ s_all_actions = <<>>
    /\ actions = <<>>
    /\ woken = FALSE
    /\ quitting = "no"

\* mutant: the caller's section does not exclude the thread's.
s_mutex_is_free_Never == TRUE

\* Locking s_mutex does not block.
s_mutex_is_free == s_background_thread \notin {"test", "sleep"}

\* pthread_cond_broadcast(&s_condition)
broadcast == woken' = (s_background_thread = "waiting" \/ woken)

-----------------------------------------------------------------------------
(* What other threads do. *)

\* enqueue_work(): the first call starts the thread.
enqueue_work(a) ==
    /\ s_mutex_is_free
    /\ s_background_thread' =
         IF s_background_thread = "none" THEN "run" ELSE s_background_thread
    /\ s_all_actions' = Append(s_all_actions, a)
    /\ broadcast
    /\ UNCHANGED <<should_run, actions, quitting>>

\* quit_background_thread(), up to the store of the flag.
StoreShouldRun ==
    /\ should_run' = FALSE
    /\ quitting' = "stored"
    /\ UNCHANGED <<s_background_thread, s_all_actions, actions, woken>>

\* quit_background_thread(), the broadcast under the mutex.
BroadcastQuit ==
    /\ quitting = "stored"
    /\ s_mutex_is_free
    /\ broadcast
    /\ quitting' = "broadcast"
    /\ UNCHANGED <<s_background_thread, should_run, s_all_actions, actions>>

\* quit_background_thread(), the return of join().  What is still in the
\* queue is deleted with it.
joined == quitting = "broadcast" /\ s_background_thread = "done"

-----------------------------------------------------------------------------
(* background_thread_func(). *)

ThreadLock ==
    /\ s_background_thread = "lock"
    /\ s_background_thread' = "test"
    /\ UNCHANGED <<should_run, s_all_actions, actions, woken, quitting>>

\* The inner loop's condition holds: the thread is about to wait.
ThreadIdle ==
    /\ s_background_thread = "test"
    /\ s_all_actions = <<>> /\ should_run
    /\ s_background_thread' = "sleep"
    /\ UNCHANGED <<should_run, s_all_actions, actions, woken, quitting>>

\* It does not: the thread takes everything there is and unlocks.
ThreadTakes ==
    /\ s_background_thread = "test"
    /\ ~ (s_all_actions = <<>> /\ should_run)
    /\ actions' = actions \o s_all_actions
    /\ s_all_actions' = <<>>
    /\ s_background_thread' = "run"
    /\ UNCHANGED <<should_run, woken, quitting>>

ThreadWaits ==
    /\ s_background_thread = "sleep"
    /\ s_background_thread' = "waiting"
    /\ woken' = FALSE
    /\ UNCHANGED <<should_run, s_all_actions, actions, quitting>>

\* pthread_cond_wait returns with the mutex locked again.
ThreadWakes ==
    /\ s_background_thread = "waiting"
    /\ woken
    /\ s_background_thread' = "test"
    /\ UNCHANGED <<should_run, s_all_actions, actions, woken, quitting>>

\* The loop over the taken actions: the next one starts, or is passed over
\* because the flag has become false.
ThreadStartsAction ==
    /\ s_background_thread = "run"
    /\ actions # <<>>
    /\ IF should_run
         THEN s_background_thread' = "action" /\ UNCHANGED actions
         ELSE actions' = Tail(actions) /\ UNCHANGED s_background_thread
    /\ UNCHANGED <<should_run, s_all_actions, woken, quitting>>

\* mutant: the outer loop does not look at the flag.
ThreadLoops_Forever ==
    /\ s_background_thread = "run"
    /\ actions = <<>>
    /\ s_background_thread' = "lock"
    /\ UNCHANGED <<should_run, s_all_actions, actions, woken, quitting>>

\* The outer loop: everything it took has run.
ThreadLoops ==
    /\ s_background_thread = "run"
    /\ actions = <<>>
    /\ s_background_thread' = IF should_run THEN "lock" ELSE "done"
    /\ UNCHANGED <<should_run, s_all_actions, actions, woken, quitting>>

\* The running action returns.
ActionReturns ==
    /\ s_background_thread' = "run"
    /\ actions' = Tail(actions)
    /\ UNCHANGED <<should_run, s_all_actions, woken, quitting>>

ThreadNext ==
    \/ ThreadLock
    \/ ThreadIdle
    \/ ThreadTakes
    \/ ThreadWaits
    \/ ThreadWakes
    \/ ThreadStartsAction
    \/ ThreadLoops
=============================================================================

-------------------------------- MODULE Server -------------------------------
(***************************************************************************)
(* The life of the server process: main opens the sockets, makes one       *)
(* EventLoop per worker, starts the threads, runs worker 0 itself, joins   *)
(* the others and closes the log.  A signal handler, which interrupts one  *)
(* of the threads, stops the loops one after the other; clients connect,   *)
(* send requests and hang up; the timer of worker 0 runs out; callbacks    *)
(* throw and system calls fail.                                            *)
(*                                                                         *)
(* The callback of a connection reads until there is nothing left to read, *)
(* and a client that keeps sending keeps the worker in that loop.          *)
(*                                                                         *)
(* EventLoop::running_ is a plain bool that Stop writes from another       *)
(* thread.  epoll_wait is opaque to the compiler and Stop's next step is a *)
(* system call, so the loop reads the flag anew on every turn and the      *)
(* writes are seen in order; the model takes reads and writes of the flag  *)
(* as single steps.                                                        *)
(***************************************************************************)
EXTENDS Integers, FiniteSets

CONSTANTS
    NumWorkers,   \* threads that run an event loop, the main thread included
    Clients,      \* clients, each with one connection at a time
    MaxSignals,   \* bound on SIGINT and SIGTERM
    MaxFaults,    \* bound on the exceptions and the failing system calls
    NoHandler,    \* no signal handler is running
    NoClient      \* no connection is being read

ASSUME ServerAssumption ==
    /\ NumWorkers \in Nat \ {0}
    /\ {MaxSignals, MaxFaults} \subseteq Nat
    /\ Clients \cap {NoClient, "wakeup", "listen"} = {}
    /\ NoHandler \notin [on : Nat, next : Nat, half : BOOLEAN]

Workers == 0 .. NumWorkers - 1

VARIABLES
    main,      \* where Server::Run and main are
    made,      \* loops_[0 .. made - 1] are there
    silent,    \* loops without an eventfd, which Wakeup cannot wake
    pc,        \* where the thread of each worker is
    running,   \* EventLoop::running_
    wake,      \* the eventfd of the loop is readable
    todo,      \* the events epoll_wait returned that are not handled yet
    reading,   \* the connection whose HandleRead is running, by worker
    sock,      \* the listening sockets of each worker
    queued,    \* connections that wait for accept, by worker
    open,      \* connections with a channel, by worker
    deaf,      \* of these, the ones that are not in the epoll set
    ready,     \* clients whose request waits on an open connection
    due,       \* the interval of the timer has elapsed
    handler,   \* the signal handler: the thread it runs on, the loop it is at
    signals,   \* signals so far
    faults,    \* exceptions and failures so far
    heard,     \* history: loops that Stop found running
    broken     \* history: workers whose thread ended with an exception

vars == <<main, made, silent, pc, running, wake, todo, reading, sock, queued, open,
          deaf, ready, due, handler, signals, faults, heard, broken>>

loopVars == <<pc, running, wake, todo, reading, due>>
netVars == <<sock, queued, open, deaf, ready>>
envVars == <<handler, signals, faults, heard, broken>>

InRun(w) == pc[w] \in {"check", "wait", "handle", "timer"}

(* The signal handler runs on this thread. *)
Interrupted(w) == handler # NoHandler /\ handler.on = w

Alive == main # "failed"

Init ==
    /\ main = "bind"
    /\ made = 0
    /\ silent = {}
    /\ pc = [w \in Workers |-> "none"]
    /\ running = [w \in Workers |-> FALSE]
    /\ wake = [w \in Workers |-> FALSE]
    /\ todo = [w \in Workers |-> {}]
    /\ reading = [w \in Workers |-> NoClient]
    /\ sock = [w \in Workers |-> "none"]
    /\ queued = [w \in Workers |-> {}]
    /\ open = [w \in Workers |-> {}]
    /\ deaf = {}
    /\ ready = {}
    /\ due = FALSE
    /\ handler = NoHandler
    /\ signals = 0
    /\ faults = 0
    /\ heard = {}
    /\ broken = {}

-----------------------------------------------------------------------------
(* Server::Run and the end of main *)

MainStep(from, to) ==
    /\ main = from
    /\ ~Interrupted(0)
    /\ main' = to

Unspawned == {w \in Workers \ {0} : pc[w] = "none"}

Fault ==
    /\ faults < MaxFaults
    /\ faults' = faults + 1

Bind ==
    /\ MainStep("bind", "make")
    /\ sock' = [sock EXCEPT ![0] = "listening"]
    /\ UNCHANGED <<made, silent, loopVars, queued, open, deaf, ready, envVars>>

(***************************************************************************)
(* The port is taken, a loop has no epoll or a thread cannot be started:   *)
(* Run throws, and main ends.  Threads that have been started end with it. *)
(***************************************************************************)
StartFails ==
    /\ \E from \in {"bind", "make", "spawn"} : MainStep(from, "failed")
    /\ main = "spawn" => Unspawned # {}
    /\ Fault
    /\ UNCHANGED <<made, silent, loopVars, netVars, handler, signals, heard, broken>>

(* The constructor carries on without an eventfd. *)
MakeLoop ==
    /\ MainStep("make", IF made + 1 = NumWorkers THEN "spawn" ELSE "make")
    /\ made' = made + 1
    /\ \/ UNCHANGED <<silent, faults>>
       \/ Fault /\ silent' = silent \cup {made}
    /\ UNCHANGED <<loopVars, netVars, handler, signals, heard, broken>>

(* The threads are started in order; then main becomes worker 0. *)
Spawn ==
    \E w \in Unspawned :
        /\ MainStep("spawn", "spawn")
        /\ \A v \in Unspawned : w <= v
        /\ pc' = [pc EXCEPT ![w] = "setup"]
        /\ UNCHANGED <<made, silent, running, wake, todo, reading, due, netVars, envVars>>

ServeSelf ==
    /\ Unspawned = {}
    /\ MainStep("spawn", "serve")
    /\ pc' = [pc EXCEPT ![0] = "enter"]
    /\ UNCHANGED <<made, silent, running, wake, todo, reading, due, netVars, envVars>>

(* Mutant: the threads are not joined. *)
Join_Skipped ==
    /\ MainStep("serve", "close")
    /\ pc[0] = "ended"
    /\ UNCHANGED <<made, silent, loopVars, netVars, envVars>>

Join ==
    /\ MainStep("serve", "close")
    /\ \A w \in Workers : pc[w] = "ended"
    /\ UNCHANGED <<made, silent, loopVars, netVars, envVars>>

(* g_server = nullptr: signals no longer reach the server. *)
ForgetServer ==
    /\ MainStep("close", "closing")
    /\ UNCHANGED <<made, silent, loopVars, netVars, envVars>>

(* AofWriter::Close *)
CloseLog ==
    /\ MainStep("closing", "closed")
    /\ UNCHANGED <<made, silent, loopVars, netVars, envVars>>

(* ~Server stops the loops once more, and they are destroyed. *)
Destroy ==
    /\ MainStep("closed", "done")
    /\ running' = [w \in Workers |-> FALSE]
    /\ wake' = [w \in Workers |-> w \notin silent]
    /\ UNCHANGED <<made, silent, pc, todo, reading, due, netVars, envVars>>

Main ==
    \/ Bind \/ MakeLoop \/ Spawn \/ ServeSelf
    \/ Join \/ ForgetServer \/ CloseLog \/ Destroy

-----------------------------------------------------------------------------
(* RunWorkerLoop and EventLoop::Run *)

WorkerStep(w, from, to) ==
    /\ Alive
    /\ ~Interrupted(w)
    /\ pc[w] = from
    /\ pc' = [pc EXCEPT ![w] = to]
    /\ UNCHANGED <<main, made, silent>>

(* A thread other than main opens its own listening sockets. *)
Setup(w) ==
    /\ WorkerStep(w, "setup", "enter")
    /\ sock' = [sock EXCEPT ![w] = "listening"]
    /\ UNCHANGED <<running, wake, todo, reading, due, queued, open, deaf, ready, envVars>>

(***************************************************************************)
(* The first or the second socket cannot be opened.  The thread logs the   *)
(* error and ends; if it was the second, the first stays open.             *)
(***************************************************************************)
SetupFails(w) ==
    /\ WorkerStep(w, "setup", "ended")
    /\ Fault
    /\ broken' = broken \cup {w}
    /\ \/ sock' = [sock EXCEPT ![w] = "listening"]
       \/ UNCHANGED sock
    /\ UNCHANGED <<running, wake, todo, reading, due, queued, open, deaf, ready,
                   handler, signals, heard>>

(* Run sets running_, whatever Stop has done to it before. *)
Enter(w) ==
    /\ WorkerStep(w, "enter", "check")
    /\ running' = [running EXCEPT ![w] = TRUE]
    /\ UNCHANGED <<wake, todo, reading, due, netVars, envVars>>

Check(w) ==
    /\ running[w]
    /\ WorkerStep(w, "check", "wait")
    /\ UNCHANGED <<running, wake, todo, reading, due, netVars, envVars>>

(* The loop ends; the sockets are closed and the channels destroyed. *)
Leave(w) ==
    /\ ~running[w]
    /\ WorkerStep(w, "check", "ended")
    /\ sock' = [sock EXCEPT ![w] = "closed"]
    /\ queued' = [queued EXCEPT ![w] = {}]
    /\ open' = [open EXCEPT ![w] = {}]
    /\ deaf' = deaf \ open[w]
    /\ ready' = ready \ open[w]
    /\ UNCHANGED <<running, wake, todo, reading, due, envVars>>

(* The descriptors of the loop that are readable. *)
Readable(w) ==
    (IF wake[w] THEN {"wakeup"} ELSE {}) \cup
    (IF queued[w] # {} THEN {"listen"} ELSE {}) \cup ((open[w] \cap ready) \ deaf)

TimerDue(w) == w = 0 /\ due

(* epoll_wait returns with events, or because the timer of worker 0 is due. *)
Wait(w) ==
    /\ Readable(w) # {} \/ TimerDue(w)
    /\ WorkerStep(w, "wait", "handle")
    /\ todo' = [todo EXCEPT ![w] = Readable(w)]
    /\ UNCHANGED <<running, wake, reading, due, netVars, envVars>>

(* The loop calls the callback of the next event. *)
HandleEvent(w, e) ==
    /\ e \in todo[w]
    /\ reading[w] = NoClient
    /\ WorkerStep(w, "handle", "handle")
    /\ todo' = [todo EXCEPT ![w] = @ \ {e}]
    /\ UNCHANGED <<running, due, sock, handler, signals, heard, broken>>

(* The eventfd is read. *)
HandleWakeup(w) ==
    /\ HandleEvent(w, "wakeup")
    /\ wake' = [wake EXCEPT ![w] = FALSE]
    /\ UNCHANGED <<reading, queued, open, deaf, ready, faults>>

(* Those of the queue that are accepted get a channel. *)
Accept(w, taken) ==
    /\ HandleEvent(w, "listen")
    /\ open' = [open EXCEPT ![w] = @ \cup taken]
    /\ queued' = [queued EXCEPT ![w] = @ \ taken]
    /\ UNCHANGED <<reading, wake, ready>>

(* accept until there is nobody left. *)
HandleListen(w) ==
    /\ Accept(w, queued[w])
    /\ UNCHANGED <<deaf, faults>>

(* accept fails, for want of descriptors for one: the others stay queued. *)
AcceptFails(w) ==
    /\ \E taken \in SUBSET queued[w] : taken # queued[w] /\ Accept(w, taken)
    /\ Fault
    /\ UNCHANGED deaf

(* epoll_ctl fails, and nobody looks: the connection is never heard. *)
AddFails(w) ==
    /\ Accept(w, queued[w])
    /\ \E c \in queued[w] : deaf' = deaf \cup {c}
    /\ Fault

(* Channel::HandleEvents *)
HandleClient(w, c) ==
    /\ HandleEvent(w, c)
    /\ reading' = [reading EXCEPT ![w] = c]
    /\ UNCHANGED <<wake, queued, open, deaf, ready, faults>>

(* HandleRead goes round once more. *)
ReadStep(w) ==
    /\ reading[w] # NoClient
    /\ WorkerStep(w, "handle", "handle")
    /\ UNCHANGED <<running, wake, todo, due, sock, queued, deaf, envVars>>

(* A request came in: it is performed and answered. *)
Serve(w) ==
    /\ ReadStep(w)
    /\ reading[w] \in ready
    /\ ready' = ready \ {reading[w]}
    /\ UNCHANGED <<reading, open>>

(* EAGAIN *)
Drained(w) ==
    /\ ReadStep(w)
    /\ reading[w] \notin ready
    /\ reading' = [reading EXCEPT ![w] = NoClient]
    /\ UNCHANGED <<open, ready>>

(* The client has hung up, or sent what is no request; the channel goes. *)
CloseChannel(w) ==
    /\ ReadStep(w)
    /\ open' = [open EXCEPT ![w] = @ \ {reading[w]}]
    /\ ready' = ready \ {reading[w]}
    /\ reading' = [reading EXCEPT ![w] = NoClient]

(* Mutant: the loop over the events ends early. *)
Handled_Early(w) ==
    /\ reading[w] = NoClient
    /\ WorkerStep(w, "handle", "timer")
    /\ UNCHANGED <<running, wake, todo, reading, due, netVars, envVars>>

Handled(w) ==
    /\ todo[w] = {}
    /\ reading[w] = NoClient
    /\ WorkerStep(w, "handle", "timer")
    /\ UNCHANGED <<running, wake, todo, reading, due, netVars, envVars>>

(* Mutant: the timer is looked at only when there was nothing to do. *)
Timer_WhenQuiet(w) ==
    /\ WorkerStep(w, "timer", "check")
    /\ due' = (due /\ ~(w = 0 /\ Readable(w) = {}))
    /\ UNCHANGED <<running, wake, todo, reading, netVars, envVars>>

(* Fsync and PurgeExpired, if it is time. *)
Timer(w) ==
    /\ WorkerStep(w, "timer", "check")
    /\ due' = (due /\ ~TimerDue(w))
    /\ UNCHANGED <<running, wake, todo, reading, netVars, envVars>>

(***************************************************************************)
(* A callback, or a failed epoll_wait, throws.  Worker 0 leaves Run with   *)
(* threads that are joinable: the process is terminated.  Another worker   *)
(* logs the error and ends; its channels are destroyed, its listening      *)
(* sockets stay open.                                                      *)
(***************************************************************************)
Throws(w) ==
    /\ Alive
    /\ ~Interrupted(w)
    /\ pc[w] \in {"wait", "handle", "timer"}
    /\ Fault
    /\ pc' = [pc EXCEPT ![w] = "ended"]
    /\ broken' = broken \cup {w}
    /\ main' = IF w = 0 THEN "failed" ELSE main
    /\ open' = [open EXCEPT ![w] = {}]
    /\ deaf' = deaf \ open[w]
    /\ ready' = ready \ open[w]
    /\ todo' = [todo EXCEPT ![w] = {}]
    /\ reading' = [reading EXCEPT ![w] = NoClient]
    /\ UNCHANGED <<made, silent, running, wake, due, sock, queued, handler, signals, heard>>

Worker(w) ==
    \/ Setup(w) \/ Enter(w) \/ Check(w) \/ Leave(w) \/ Wait(w)
    \/ HandleWakeup(w) \/ HandleListen(w) \/ (\E c \in Clients : HandleClient(w, c))
    \/ Serve(w) \/ Drained(w) \/ CloseChannel(w)
    \/ Handled(w) \/ Timer(w)

Failure(w) == SetupFails(w) \/ AcceptFails(w) \/ AddFails(w) \/ Throws(w)

-----------------------------------------------------------------------------
(* HandleSignal, Server::Stop and EventLoop::Stop *)

(* The threads a signal can interrupt. *)
Threads == {0} \cup {w \in Workers : pc[w] \notin {"none", "ended"}}

(***************************************************************************)
(* A signal that comes while g_server is set, after Run has returned too.  *)
(* An interrupted epoll_wait fails with EINTR, and RunOnce returns.        *)
(***************************************************************************)
Signal(w) ==
    /\ w \in Threads
    /\ main \in {"bind", "make", "spawn", "serve", "close"}
    /\ handler = NoHandler
    /\ signals < MaxSignals
    /\ signals' = signals + 1
    /\ handler' = [on |-> w, next |-> 0, half |-> FALSE]
    /\ pc' = [pc EXCEPT ![w] = IF @ = "wait" THEN "check" ELSE @]
    /\ UNCHANGED <<main, made, silent, running, wake, todo, reading, due, netVars,
                   faults, heard, broken>>

(* running_ = false *)
StopLoop ==
    /\ Alive
    /\ handler # NoHandler
    /\ handler.next < made /\ ~handler.half
    /\ running' = [running EXCEPT ![handler.next] = FALSE]
    /\ handler' = [handler EXCEPT !.half = TRUE]
    /\ heard' = IF InRun(handler.next) THEN heard \cup {handler.next} ELSE heard
    /\ UNCHANGED <<main, made, silent, pc, wake, todo, reading, due, netVars,
                   signals, faults, broken>>

(* Mutant: the eventfd is written for the first loop only. *)
Wakeup_First ==
    /\ Alive
    /\ handler # NoHandler
    /\ handler.half
    /\ wake' = [wake EXCEPT ![handler.next] = @ \/ handler.next = 0]
    /\ handler' = [handler EXCEPT !.next = @ + 1, !.half = FALSE]
    /\ UNCHANGED <<main, made, silent, pc, running, todo, reading, due, netVars,
                   signals, faults, heard, broken>>

(* Wakeup(), which does nothing without an eventfd. *)
Wakeup ==
    /\ Alive
    /\ handler # NoHandler
    /\ handler.half
    /\ wake' = [wake EXCEPT ![handler.next] = handler.next \notin silent]
    /\ handler' = [handler EXCEPT !.next = @ + 1, !.half = FALSE]
    /\ UNCHANGED <<main, made, silent, pc, running, todo, reading, due, netVars,
                   signals, faults, heard, broken>>

(* The handler returns, and the thread it interrupted goes on. *)
HandlerReturns ==
    /\ Alive
    /\ handler # NoHandler
    /\ handler.next = made
    /\ handler' = NoHandler
    /\ UNCHANGED <<main, made, silent, loopVars, netVars, signals, faults, heard, broken>>

Handler == StopLoop \/ Wakeup \/ HandlerReturns

-----------------------------------------------------------------------------
(* Clients and the clock *)

Connected == UNION {queued[w] \cup open[w] : w \in Workers}

(* SO_REUSEPORT: the kernel picks one of the listening sockets. *)
Connect(c, w) ==
    /\ Alive
    /\ c \notin Connected
    /\ sock[w] = "listening"
    /\ queued' = [queued EXCEPT ![w] = @ \cup {c}]
    /\ UNCHANGED <<main, made, silent, loopVars, sock, open, deaf, ready, envVars>>

Request(c) ==
    /\ Alive
    /\ \E w \in Workers : c \in open[w]
    /\ c \notin ready
    /\ ready' = ready \cup {c}
    /\ UNCHANGED <<main, made, silent, loopVars, sock, queued, open, deaf, envVars>>

Elapse ==
    /\ Alive
    /\ InRun(0)
    /\ ~due
    /\ due' = TRUE
    /\ UNCHANGED <<main, made, silent, pc, running, wake, todo, reading, netVars, envVars>>

(* The process is gone, or nothing is left to do. *)
Terminated ==
    /\ main \in {"done", "failed"}
    /\ UNCHANGED vars

Next ==
    \/ Main \/ StartFails \/ Handler \/ Elapse \/ Terminated
    \/ \E w \in Workers : Worker(w) \/ Failure(w) \/ Signal(w)
    \/ \E c \in Clients : Request(c) \/ \E w \in Workers : Connect(c, w)

(* The scheduler runs every thread that can run. *)
Fairness ==
    /\ WF_vars(Main)
    /\ WF_vars(Handler)
    /\ \A w \in Workers : WF_vars(Worker(w))

Spec == Init /\ [][Next]_vars /\ Fairness

-----------------------------------------------------------------------------
(***************************************************************************)
(* A connection belongs to one worker, requests wait on open connections,  *)
(* only a thread that handles events has any, and the connection it reads  *)
(* is open and its event is taken.                                         *)
(***************************************************************************)
TypeOK ==
    /\ main \in {"bind", "make", "spawn", "serve", "close", "closing", "closed", "done", "failed"}
    /\ made \in 0 .. NumWorkers
    /\ silent \subseteq Workers
    /\ \A w \in Workers :
          /\ pc[w] \in {"none", "setup", "enter", "check", "wait", "handle", "timer", "ended"}
          /\ todo[w] \subseteq {"wakeup", "listen"} \cup open[w]
          /\ todo[w] # {} => pc[w] = "handle"
          /\ reading[w] # NoClient => pc[w] = "handle" /\ reading[w] \in open[w] \ todo[w]
          /\ \A v \in Workers \ {w} : (queued[w] \cup open[w]) \cap (queued[v] \cup open[v]) = {}
    /\ deaf \cup ready \subseteq UNION {open[w] : w \in Workers}

(***************************************************************************)
(* From the moment main forgets the server, every worker has ended, no     *)
(* request waits and no signal handler is at the loops, although a signal  *)
(* may have come after Run returned: no request is performed that the log  *)
(* could not take, and no handler walks loops that main destroys.          *)
(***************************************************************************)
NobodyAfterClose ==
    main \in {"closing", "closed", "done"} =>
        /\ \A w \in Workers : pc[w] = "ended"
        /\ handler = NoHandler
        /\ ready = {}

(* Again and again the worker is not in the read loop of a connection. *)
ReadsEnd(w) == []<>(reading[w] = NoClient)

(***************************************************************************)
(* A loop that Stop found running ends, even if it was asleep in           *)
(* epoll_wait, about to sleep, or in the middle of its events; and once    *)
(* every loop has ended or been stopped, main joins them and closes the    *)
(* log.  A Stop that comes before Run has set running_ is forgotten, a     *)
(* loop without an eventfd may sleep on, and a client that never stops     *)
(* sending keeps its worker from looking at the flag.                      *)
(***************************************************************************)
StopEndsLoops ==
    /\ \A w \in Workers : ReadsEnd(w) =>
          (w \in heard \ silent ~> (pc[w] = "ended" \/ ~Alive))
    /\ (\A w \in Workers : ReadsEnd(w)) =>
          ((\A w \in Workers : w \in (heard \ silent) \cup broken) ~> main \in {"done", "failed"})

(***************************************************************************)
(* Nothing starves as long as every read loop ends.  A connection that     *)
(* waits for accept and a request on an open connection are taken up, or   *)
(* the worker ends and its socket with it; and the timer fires, so that    *)
(* the log is synced and expired keys are swept.  One client that sends    *)
(* faster than it is served starves the others of its worker, and on       *)
(* worker 0 the timer: the read loop has no bound.  The other exceptions   *)
(* are a connection epoll_ctl did not take and a worker that ended with an *)
(* exception: its listening socket stays open, and nobody accepts what the *)
(* kernel puts there.  A failing accept is tried again.  A worker that has *)
(* not entered Run yet counts as one that will.                            *)
(***************************************************************************)
NothingStarves ==
    /\ \A w \in Workers : ReadsEnd(w) =>
          \A c \in Clients :
              (c \in queued[w] \/ c \in open[w] \cap ready)
                  ~> (c \notin queued[w] \cup (open[w] \cap ready) \/ c \in deaf
                         \/ w \in broken \/ ~Alive)
    /\ ReadsEnd(0) => (due ~> (~due \/ pc[0] = "ended"))
=============================================================================

---------------------------- MODULE ServerProofs -----------------------------
(***************************************************************************)
(* For any number of workers, clients, signals and exceptions: connections *)
(* belong to one worker, the log is closed last, and the wakeup of a loop  *)
(* that is being stopped is never lost.  For any number of threads that    *)
(* call a parking lot, every registration in it has exactly one fate.      *)
(***************************************************************************)
EXTENDS Server, ParkingLot, TLAPS

Pc == {"none", "setup", "enter", "check", "wait", "handle", "timer", "ended"}

(* The variables hold functions over the workers. *)
Shape ==
    /\ pc \in [Workers -> Pc]
    /\ running \in [Workers -> BOOLEAN]
    /\ wake \in [Workers -> BOOLEAN]
    /\ todo \in [Workers -> SUBSET ({"wakeup", "listen"} \cup Clients)]
    /\ reading \in [Workers -> Clients \cup {NoClient}]
    /\ queued \in [Workers -> SUBSET Clients]
    /\ open \in [Workers -> SUBSET Clients]
    /\ deaf \subseteq Clients
    /\ heard \subseteq Workers

(* A thread outside its loop has neither channels nor events. *)
OnlyInRun == \A w \in Workers : ~InRun(w) => open[w] = {} /\ todo[w] = {}

(* A connection is accepted once; one that epoll did not take has no events. *)
AcceptedOnce ==
    \A w \in Workers :
        /\ queued[w] \cap open[w] = {}
        /\ todo[w] \cap deaf = {}
        /\ reading[w] \notin deaf

(***************************************************************************)
(* The signal handler runs on the main thread or on one that is alive and  *)
(* stays where it is until the handler returns; between the two halves of  *)
(* EventLoop::Stop the loop it stops is there.                             *)
(***************************************************************************)
HandlerOK ==
    handler # NoHandler =>
        /\ handler \in [on : Workers, next : Nat, half : BOOLEAN]
        /\ handler.on = 0 \/ pc[handler.on] \notin {"none", "ended"}
        /\ handler.next <= made
        /\ handler.half => handler.next < made

(***************************************************************************)
(* While main makes loops, one is missing; it serves after all threads     *)
(* started, and Run returns after all have ended.  So a handler that is at *)
(* work then runs on the main thread, which waits for it before it goes on *)
(* to forget the server.                                                   *)
(***************************************************************************)
MainOK ==
    /\ main \in {"bind", "make"} => made < NumWorkers
    /\ main \in {"bind", "make", "spawn"} => pc[0] = "none"
    /\ main \in {"close", "closing", "closed", "done"} => \A w \in Workers : pc[w] = "ended"

(***************************************************************************)
(* A loop that Stop found running is never told to run again, and if it is *)
(* asleep in epoll_wait, its eventfd is readable or is about to be         *)
(* written: the wakeup is not lost, whether Stop comes before the flag is  *)
(* read, between the reading and epoll_wait, or during epoll_wait.  Only a *)
(* loop without an eventfd may sleep on.                                   *)
(***************************************************************************)
WakeupNotLost ==
    \A w \in heard :
        /\ pc[w] \notin {"none", "setup", "enter"}
        /\ ~running[w]
        /\ pc[w] = "wait" /\ w \notin silent =>
              wake[w] \/ (handler # NoHandler /\ handler.half /\ handler.next = w)

IInv ==
    /\ TypeOK /\ Shape /\ OnlyInRun /\ AcceptedOnce /\ HandlerOK /\ MainOK
    /\ NobodyAfterClose /\ WakeupNotLost

(* No thread, loop or handler is there yet. *)
LEMMA InitEstablishes == Init => IInv
<1> SUFFICES ASSUME Init PROVE IInv
  OBVIOUS
<1>1. 0 \in 0 .. NumWorkers /\ 0 < NumWorkers /\ 0 \in Workers
  BY ServerAssumption DEF Workers
<1>2. TypeOK
  BY <1>1 DEF Init, TypeOK
<1>3. Shape /\ OnlyInRun /\ AcceptedOnce
  BY <1>1 DEF Init, Shape, OnlyInRun, AcceptedOnce, Pc
<1>4. HandlerOK /\ MainOK /\ NobodyAfterClose /\ WakeupNotLost
  BY <1>1 DEF Init, HandlerOK, MainOK, NobodyAfterClose, WakeupNotLost
<1>5. QED
  BY <1>2, <1>3, <1>4 DEF IInv

(* No step of any thread, client or signal handler breaks the invariant. *)
LEMMA Inductive == IInv /\ [Next]_vars => IInv'
<1> SUFFICES ASSUME IInv, [Next]_vars PROVE IInv'
  OBVIOUS
<1> USE DEF IInv
<1>w. 0 \in Workers
  BY ServerAssumption DEF Workers
<1>s. ASSUME handler # NoHandler
      PROVE  /\ handler \in [on : Workers, next : Nat, half : BOOLEAN]
             /\ made \in Nat
             /\ handler.next < made => handler.next \in Workers
  BY <1>s, ServerAssumption DEF HandlerOK, TypeOK, Workers
<1>1. CASE Bind
  <2>1. TypeOK'
    BY <1>1 DEF Bind, MainStep, loopVars, envVars, TypeOK, Shape
  <2>2. MainOK'
    BY <1>1 DEF Bind, MainStep, loopVars, envVars, MainOK, Shape
  <2>3. NobodyAfterClose'
    BY <1>1 DEF Bind, MainStep, loopVars, envVars, NobodyAfterClose, Shape
  <2>4. Shape' /\ OnlyInRun' /\ AcceptedOnce' /\ HandlerOK' /\ WakeupNotLost'
    BY <1>1 DEF Bind, MainStep, loopVars, envVars, Shape, OnlyInRun, AcceptedOnce, HandlerOK,
       WakeupNotLost, InRun
  <2>5. QED
    BY <2>1, <2>2, <2>3, <2>4 DEF IInv
<1>2. CASE StartFails
  <2>1. TypeOK'
    BY <1>2 DEF StartFails, MainStep, loopVars, netVars, TypeOK, Shape
  <2>2. MainOK'
    BY <1>2 DEF StartFails, MainStep, loopVars, netVars, MainOK, Shape
  <2>3. NobodyAfterClose'
    BY <1>2 DEF StartFails, MainStep, loopVars, netVars, NobodyAfterClose, Shape
  <2>4. Shape' /\ OnlyInRun' /\ AcceptedOnce' /\ HandlerOK' /\ WakeupNotLost'
    BY <1>2 DEF StartFails, MainStep, loopVars, netVars, Shape, OnlyInRun, AcceptedOnce,
       HandlerOK, WakeupNotLost, InRun
  <2>5. QED
    BY <2>1, <2>2, <2>3, <2>4 DEF IInv
<1>3. CASE MakeLoop
  <2>1. TypeOK'
    <3>1. main \in {"bind", "make"} /\ made \in 0 .. NumWorkers
      BY <1>3 DEF MakeLoop, MainStep, TypeOK
    <3>2. made + 1 \in 0 .. NumWorkers /\ made \in Workers
      BY <3>1, ServerAssumption DEF MainOK, Workers
    <3>3. silent' \subseteq Workers
      BY <1>3, <3>2 DEF MakeLoop, Fault, TypeOK
    <3>4. QED
      BY <1>3, <3>2, <3>3 DEF MakeLoop, MainStep, loopVars, netVars, TypeOK
  <2>2. HandlerOK'
    BY <1>3 DEF MakeLoop, MainStep, Fault, loopVars, netVars, HandlerOK, TypeOK
  <2>3. MainOK'
    BY <1>3, ServerAssumption DEF MakeLoop, MainStep, Fault, loopVars, netVars, MainOK, TypeOK
  <2>4. NobodyAfterClose'
    BY <1>3 DEF MakeLoop, MainStep, Fault, loopVars, netVars, NobodyAfterClose
  <2>5. Shape' /\ OnlyInRun' /\ AcceptedOnce' /\ WakeupNotLost'
    BY <1>3 DEF MakeLoop, MainStep, Fault, loopVars, netVars, Shape, OnlyInRun, AcceptedOnce,
       WakeupNotLost, InRun
  <2>6. QED
    BY <2>1, <2>2, <2>3, <2>4, <2>5 DEF IInv
<1>4. CASE Spawn
  <2>1. Shape'
    BY <1>4 DEF Spawn, MainStep, Unspawned, netVars, envVars, Shape, Pc
  <2>2. TypeOK'
    BY <1>4 DEF Spawn, MainStep, Unspawned, netVars, envVars, TypeOK, Shape
  <2>3. OnlyInRun'
    BY <1>4 DEF Spawn, MainStep, Unspawned, netVars, envVars, OnlyInRun, InRun, Shape
  <2>4. AcceptedOnce'
    BY <1>4, ServerAssumption DEF Spawn, MainStep, Unspawned, netVars, envVars, AcceptedOnce,
       Shape
  <2>5. HandlerOK'
    BY <1>4 DEF Spawn, MainStep, Unspawned, netVars, envVars, HandlerOK, Shape
  <2>6. MainOK'
    BY <1>4 DEF Spawn, MainStep, Unspawned, netVars, envVars, MainOK, Shape
  <2>7. NobodyAfterClose'
    BY <1>4 DEF Spawn, MainStep, Unspawned, netVars, envVars, NobodyAfterClose, Shape
  <2>8. WakeupNotLost'
    BY <1>4 DEF Spawn, MainStep, Unspawned, netVars, envVars, WakeupNotLost, Shape
  <2>9. QED
    BY <2>1, <2>2, <2>3, <2>4, <2>5, <2>6, <2>7, <2>8 DEF IInv
<1>5. CASE ServeSelf
  <2>1. Shape'
    BY <1>5, <1>w DEF ServeSelf, MainStep, netVars, envVars, Shape, Pc
  <2>2. TypeOK'
    BY <1>5, <1>w DEF ServeSelf, MainStep, netVars, envVars, TypeOK, Shape, MainOK, OnlyInRun,
       InRun
  <2>3. OnlyInRun'
    BY <1>5, <1>w DEF ServeSelf, MainStep, netVars, envVars, OnlyInRun, InRun, Shape, MainOK
  <2>4. AcceptedOnce'
    BY <1>5, <1>w, ServerAssumption DEF ServeSelf, MainStep, netVars, envVars, AcceptedOnce,
       Shape
  <2>5. HandlerOK'
    BY <1>5, <1>w DEF ServeSelf, MainStep, netVars, envVars, HandlerOK, Shape
  <2>6. MainOK'
    BY <1>5, <1>w DEF ServeSelf, MainStep, netVars, envVars, MainOK, Shape
  <2>7. NobodyAfterClose'
    BY <1>5, <1>w DEF ServeSelf, MainStep, netVars, envVars, NobodyAfterClose, Shape
  <2>8. WakeupNotLost'
    BY <1>5, <1>w DEF ServeSelf, MainStep, netVars, envVars, WakeupNotLost, Shape, MainOK
  <2>9. QED
    BY <2>1, <2>2, <2>3, <2>4, <2>5, <2>6, <2>7, <2>8 DEF IInv
<1>6. CASE Join
  <2>1. TypeOK'
    BY <1>6 DEF Join, MainStep, loopVars, netVars, envVars, TypeOK, Shape
  <2>2. MainOK'
    BY <1>6 DEF Join, MainStep, loopVars, netVars, envVars, MainOK, Shape
  <2>3. NobodyAfterClose'
    BY <1>6 DEF Join, MainStep, loopVars, netVars, envVars, NobodyAfterClose, Shape
  <2>4. Shape' /\ OnlyInRun' /\ AcceptedOnce' /\ HandlerOK' /\ WakeupNotLost'
    BY <1>6 DEF Join, MainStep, loopVars, netVars, envVars, Shape, OnlyInRun, AcceptedOnce,
       HandlerOK, WakeupNotLost, InRun
  <2>5. QED
    BY <2>1, <2>2, <2>3, <2>4 DEF IInv
<1>7. CASE ForgetServer
  <2>1. TypeOK'
    BY <1>7 DEF ForgetServer, MainStep, loopVars, netVars, envVars, TypeOK, Shape
  <2>2. MainOK'
    BY <1>7 DEF ForgetServer, MainStep, loopVars, netVars, envVars, MainOK, Shape
  <2>3. NobodyAfterClose'
    BY <1>7, <1>w DEF ForgetServer, MainStep, loopVars, netVars, envVars, NobodyAfterClose,
       MainOK, HandlerOK, OnlyInRun, InRun, TypeOK, Interrupted
  <2>4. Shape' /\ OnlyInRun' /\ AcceptedOnce' /\ HandlerOK' /\ WakeupNotLost'
    BY <1>7 DEF ForgetServer, MainStep, loopVars, netVars, envVars, Shape, OnlyInRun,
       AcceptedOnce, HandlerOK, WakeupNotLost, InRun
  <2>5. QED
    BY <2>1, <2>2, <2>3, <2>4 DEF IInv
<1>8. CASE CloseLog
  <2>1. TypeOK'
    BY <1>8 DEF CloseLog, MainStep, loopVars, netVars, envVars, TypeOK, Shape
  <2>2. MainOK'
    BY <1>8 DEF CloseLog, MainStep, loopVars, netVars, envVars, MainOK, Shape
  <2>3. NobodyAfterClose'
    BY <1>8 DEF CloseLog, MainStep, loopVars, netVars, envVars, NobodyAfterClose, Shape
  <2>4. Shape' /\ OnlyInRun' /\ AcceptedOnce' /\ HandlerOK' /\ WakeupNotLost'
    BY <1>8 DEF CloseLog, MainStep, loopVars, netVars, envVars, Shape, OnlyInRun, AcceptedOnce,
       HandlerOK, WakeupNotLost, InRun
  <2>5. QED
    BY <2>1, <2>2, <2>3, <2>4 DEF IInv
<1>9. CASE Destroy
  <2>1. TypeOK'
    BY <1>9 DEF Destroy, MainStep, netVars, envVars, TypeOK, Shape
  <2>2. MainOK'
    BY <1>9 DEF Destroy, MainStep, netVars, envVars, MainOK, Shape
  <2>3. NobodyAfterClose'
    BY <1>9 DEF Destroy, MainStep, netVars, envVars, NobodyAfterClose, Shape
  <2>4. Shape' /\ OnlyInRun' /\ AcceptedOnce' /\ HandlerOK'
    BY <1>9 DEF Destroy, MainStep, netVars, envVars, Shape, OnlyInRun, AcceptedOnce, HandlerOK,
       InRun
  <2>5. WakeupNotLost'
    BY <1>9 DEF Destroy, MainStep, netVars, envVars, WakeupNotLost, MainOK, Shape
  <2>6. QED
    BY <2>1, <2>2, <2>3, <2>4, <2>5 DEF IInv
<1>10. ASSUME NEW w \in Workers, Setup(w)
      PROVE  IInv'
  <2>1. Shape'
    BY <1>10 DEF Setup, WorkerStep, envVars, Shape, Pc
  <2>2. TypeOK'
    BY <1>10 DEF Setup, WorkerStep, envVars, TypeOK, Shape
  <2>3. OnlyInRun'
    BY <1>10 DEF Setup, WorkerStep, envVars, OnlyInRun, InRun, Shape
  <2>4. AcceptedOnce'
    BY <1>10, ServerAssumption DEF Setup, WorkerStep, envVars, AcceptedOnce, Shape
  <2>5. HandlerOK'
    BY <1>10 DEF Setup, WorkerStep, envVars, HandlerOK, Shape
  <2>6. MainOK'
    BY <1>10 DEF Setup, WorkerStep, envVars, MainOK, Shape
  <2>7. NobodyAfterClose'
    BY <1>10 DEF Setup, WorkerStep, envVars, NobodyAfterClose, Shape
  <2>8. WakeupNotLost'
    BY <1>10 DEF Setup, WorkerStep, envVars, WakeupNotLost, Shape
  <2>9. QED
    BY <2>1, <2>2, <2>3, <2>4, <2>5, <2>6, <2>7, <2>8 DEF IInv
<1>11. ASSUME NEW w \in Workers, SetupFails(w)
      PROVE  IInv'
  <2>1. Shape'
    BY <1>11 DEF SetupFails, WorkerStep, Shape, Pc
  <2>2. TypeOK'
    BY <1>11 DEF SetupFails, WorkerStep, TypeOK, Shape
  <2>3. OnlyInRun'
    BY <1>11 DEF SetupFails, WorkerStep, OnlyInRun, InRun, Shape
  <2>4. AcceptedOnce'
    BY <1>11, ServerAssumption DEF SetupFails, WorkerStep, AcceptedOnce, Shape
  <2>5. HandlerOK'
    BY <1>11 DEF SetupFails, WorkerStep, HandlerOK, Shape, Interrupted
  <2>6. MainOK'
    BY <1>11 DEF SetupFails, WorkerStep, MainOK, Shape
  <2>7. NobodyAfterClose'
    BY <1>11 DEF SetupFails, WorkerStep, NobodyAfterClose, Shape
  <2>8. WakeupNotLost'
    BY <1>11 DEF SetupFails, WorkerStep, WakeupNotLost, Shape
  <2>9. QED
    BY <2>1, <2>2, <2>3, <2>4, <2>5, <2>6, <2>7, <2>8 DEF IInv
<1>12. ASSUME NEW w \in Workers, Enter(w)
      PROVE  IInv'
  <2>1. Shape'
    BY <1>12 DEF Enter, WorkerStep, netVars, envVars, Shape, Pc
  <2>2. TypeOK'
    BY <1>12 DEF Enter, WorkerStep, netVars, envVars, TypeOK, Shape
  <2>3. OnlyInRun'
    BY <1>12 DEF Enter, WorkerStep, netVars, envVars, OnlyInRun, InRun, Shape
  <2>4. AcceptedOnce'
    BY <1>12, ServerAssumption DEF Enter, WorkerStep, netVars, envVars, AcceptedOnce, Shape
  <2>5. HandlerOK'
    BY <1>12 DEF Enter, WorkerStep, netVars, envVars, HandlerOK, Shape
  <2>6. MainOK'
    BY <1>12 DEF Enter, WorkerStep, netVars, envVars, MainOK, Shape
  <2>7. NobodyAfterClose'
    BY <1>12 DEF Enter, WorkerStep, netVars, envVars, NobodyAfterClose, Shape
  <2>8. WakeupNotLost'
    BY <1>12 DEF Enter, WorkerStep, netVars, envVars, WakeupNotLost, Shape
  <2>9. QED
    BY <2>1, <2>2, <2>3, <2>4, <2>5, <2>6, <2>7, <2>8 DEF IInv
<1>13. ASSUME NEW w \in Workers, Check(w)
      PROVE  IInv'
  <2>1. Shape'
    BY <1>13 DEF Check, WorkerStep, netVars, envVars, Shape, Pc
  <2>2. TypeOK'
    BY <1>13 DEF Check, WorkerStep, netVars, envVars, TypeOK, Shape
  <2>3. OnlyInRun'
    BY <1>13 DEF Check, WorkerStep, netVars, envVars, OnlyInRun, InRun, Shape
  <2>4. AcceptedOnce'
    BY <1>13, ServerAssumption DEF Check, WorkerStep, netVars, envVars, AcceptedOnce, Shape
  <2>5. HandlerOK'
    BY <1>13 DEF Check, WorkerStep, netVars, envVars, HandlerOK, Shape
  <2>6. MainOK'
    BY <1>13 DEF Check, WorkerStep, netVars, envVars, MainOK, Shape
  <2>7. NobodyAfterClose'
    BY <1>13 DEF Check, WorkerStep, netVars, envVars, NobodyAfterClose, Shape
  <2>8. WakeupNotLost'
    BY <1>13 DEF Check, WorkerStep, netVars, envVars, WakeupNotLost, Shape
  <2>9. QED
    BY <2>1, <2>2, <2>3, <2>4, <2>5, <2>6, <2>7, <2>8 DEF IInv
<1>14. ASSUME NEW w \in Workers, Leave(w)
      PROVE  IInv'
  <2>1. Shape'
    BY <1>14 DEF Leave, WorkerStep, envVars, Shape, Pc
  <2>2. TypeOK'
    BY <1>14 DEF Leave, WorkerStep, envVars, TypeOK, Shape
  <2>3. OnlyInRun'
    BY <1>14 DEF Leave, WorkerStep, envVars, OnlyInRun, InRun, Shape, TypeOK
  <2>4. AcceptedOnce'
    BY <1>14, ServerAssumption DEF Leave, WorkerStep, envVars, AcceptedOnce, Shape
  <2>5. HandlerOK'
    BY <1>14 DEF Leave, WorkerStep, envVars, HandlerOK, Shape, Interrupted
  <2>6. MainOK'
    BY <1>14 DEF Leave, WorkerStep, envVars, MainOK, Shape
  <2>7. NobodyAfterClose'
    BY <1>14 DEF Leave, WorkerStep, envVars, NobodyAfterClose, Shape
  <2>8. WakeupNotLost'
    BY <1>14 DEF Leave, WorkerStep, envVars, WakeupNotLost, Shape
  <2>9. QED
    BY <2>1, <2>2, <2>3, <2>4, <2>5, <2>6, <2>7, <2>8 DEF IInv
<1>15. ASSUME NEW w \in Workers, Wait(w)
      PROVE  IInv'
  <2>1. Shape'
    BY <1>15 DEF Wait, WorkerStep, Readable, netVars, envVars, Shape, Pc
  <2>2. TypeOK'
    BY <1>15 DEF Wait, WorkerStep, Readable, netVars, envVars, TypeOK, Shape
  <2>3. OnlyInRun'
    BY <1>15 DEF Wait, WorkerStep, Readable, netVars, envVars, OnlyInRun, InRun, Shape
  <2>4. AcceptedOnce'
    BY <1>15, ServerAssumption DEF Wait, WorkerStep, Readable, netVars, envVars, AcceptedOnce,
       Shape, TypeOK
  <2>5. HandlerOK'
    BY <1>15 DEF Wait, WorkerStep, Readable, netVars, envVars, HandlerOK, Shape
  <2>6. MainOK'
    BY <1>15 DEF Wait, WorkerStep, Readable, netVars, envVars, MainOK, Shape
  <2>7. NobodyAfterClose'
    BY <1>15 DEF Wait, WorkerStep, Readable, netVars, envVars, NobodyAfterClose, Shape
  <2>8. WakeupNotLost'
    BY <1>15 DEF Wait, WorkerStep, Readable, netVars, envVars, WakeupNotLost, Shape
  <2>9. QED
    BY <2>1, <2>2, <2>3, <2>4, <2>5, <2>6, <2>7, <2>8 DEF IInv
<1>16. ASSUME NEW w \in Workers, HandleWakeup(w)
      PROVE  IInv'
  <2>1. Shape'
    BY <1>16 DEF HandleWakeup, HandleEvent, WorkerStep, Shape, Pc
  <2>2. TypeOK'
    BY <1>16 DEF HandleWakeup, HandleEvent, WorkerStep, TypeOK, Shape
  <2>3. OnlyInRun'
    BY <1>16 DEF HandleWakeup, HandleEvent, WorkerStep, OnlyInRun, InRun, Shape
  <2>4. AcceptedOnce'
    BY <1>16, ServerAssumption DEF HandleWakeup, HandleEvent, WorkerStep, AcceptedOnce, Shape
  <2>5. HandlerOK'
    BY <1>16 DEF HandleWakeup, HandleEvent, WorkerStep, HandlerOK, Shape
  <2>6. MainOK'
    BY <1>16 DEF HandleWakeup, HandleEvent, WorkerStep, MainOK, Shape
  <2>7. NobodyAfterClose'
    BY <1>16 DEF HandleWakeup, HandleEvent, WorkerStep, NobodyAfterClose, Shape
  <2>8. WakeupNotLost'
    BY <1>16 DEF HandleWakeup, HandleEvent, WorkerStep, WakeupNotLost, Shape
  <2>9. QED
    BY <2>1, <2>2, <2>3, <2>4, <2>5, <2>6, <2>7, <2>8 DEF IInv
<1>17. ASSUME NEW w \in Workers, HandleListen(w)
      PROVE  IInv'
  <2>1. Shape'
    BY <1>17 DEF HandleListen, Accept, HandleEvent, WorkerStep, Shape, Pc
  <2>2. TypeOK'
    BY <1>17 DEF HandleListen, Accept, HandleEvent, WorkerStep, TypeOK, Shape
  <2>3. OnlyInRun'
    BY <1>17 DEF HandleListen, Accept, HandleEvent, WorkerStep, OnlyInRun, InRun, Shape
  <2>4. AcceptedOnce'
    BY <1>17, ServerAssumption DEF HandleListen, Accept, HandleEvent, WorkerStep, AcceptedOnce,
       Shape, TypeOK
  <2>5. HandlerOK'
    BY <1>17 DEF HandleListen, Accept, HandleEvent, WorkerStep, HandlerOK, Shape
  <2>6. MainOK'
    BY <1>17 DEF HandleListen, Accept, HandleEvent, WorkerStep, MainOK, Shape
  <2>7. NobodyAfterClose'
    BY <1>17 DEF HandleListen, Accept, HandleEvent, WorkerStep, NobodyAfterClose, Shape
  <2>8. WakeupNotLost'
    BY <1>17 DEF HandleListen, Accept, HandleEvent, WorkerStep, WakeupNotLost, Shape
  <2>9. QED
    BY <2>1, <2>2, <2>3, <2>4, <2>5, <2>6, <2>7, <2>8 DEF IInv
<1>18. ASSUME NEW w \in Workers, AcceptFails(w)
      PROVE  IInv'
  <2>1. Shape'
    BY <1>18 DEF AcceptFails, Accept, HandleEvent, WorkerStep, Shape, Pc
  <2>2. TypeOK'
    BY <1>18 DEF AcceptFails, Accept, HandleEvent, WorkerStep, TypeOK, Shape
  <2>3. OnlyInRun'
    BY <1>18 DEF AcceptFails, Accept, HandleEvent, WorkerStep, OnlyInRun, InRun, Shape
  <2>4. AcceptedOnce'
    BY <1>18, ServerAssumption DEF AcceptFails, Accept, HandleEvent, WorkerStep, AcceptedOnce,
       Shape, TypeOK
  <2>5. HandlerOK'
    BY <1>18 DEF AcceptFails, Accept, HandleEvent, WorkerStep, HandlerOK, Shape
  <2>6. MainOK'
    BY <1>18 DEF AcceptFails, Accept, HandleEvent, WorkerStep, MainOK, Shape
  <2>7. NobodyAfterClose'
    BY <1>18 DEF AcceptFails, Accept, HandleEvent, WorkerStep, NobodyAfterClose, Shape
  <2>8. WakeupNotLost'
    BY <1>18 DEF AcceptFails, Accept, HandleEvent, WorkerStep, WakeupNotLost, Shape
  <2>9. QED
    BY <2>1, <2>2, <2>3, <2>4, <2>5, <2>6, <2>7, <2>8 DEF IInv
<1>19. ASSUME NEW w \in Workers, AddFails(w)
      PROVE  IInv'
  <2>1. Shape'
    BY <1>19 DEF AddFails, Accept, HandleEvent, WorkerStep, Shape, Pc
  <2>2. TypeOK'
    BY <1>19 DEF AddFails, Accept, HandleEvent, WorkerStep, TypeOK, Shape
  <2>3. OnlyInRun'
    BY <1>19 DEF AddFails, Accept, HandleEvent, WorkerStep, OnlyInRun, InRun, Shape
  <2>4. AcceptedOnce'
    BY <1>19, ServerAssumption DEF AddFails, Accept, HandleEvent, WorkerStep, AcceptedOnce,
       Shape, TypeOK
  <2>5. HandlerOK'
    BY <1>19 DEF AddFails, Accept, HandleEvent, WorkerStep, HandlerOK, Shape
  <2>6. MainOK'
    BY <1>19 DEF AddFails, Accept, HandleEvent, WorkerStep, MainOK, Shape
  <2>7. NobodyAfterClose'
    BY <1>19 DEF AddFails, Accept, HandleEvent, WorkerStep, NobodyAfterClose, Shape
  <2>8. WakeupNotLost'
    BY <1>19 DEF AddFails, Accept, HandleEvent, WorkerStep, WakeupNotLost, Shape
  <2>9. QED
    BY <2>1, <2>2, <2>3, <2>4, <2>5, <2>6, <2>7, <2>8 DEF IInv
<1>20. ASSUME NEW w \in Workers, NEW c \in Clients, HandleClient(w, c)
      PROVE  IInv'
  <2>1. Shape'
    BY <1>20 DEF HandleClient, HandleEvent, WorkerStep, Shape, Pc
  <2>2. TypeOK'
    BY <1>20, ServerAssumption DEF HandleClient, HandleEvent, WorkerStep, TypeOK, Shape
  <2>3. OnlyInRun'
    BY <1>20 DEF HandleClient, HandleEvent, WorkerStep, OnlyInRun, InRun, Shape
  <2>4. AcceptedOnce'
    BY <1>20, ServerAssumption DEF HandleClient, HandleEvent, WorkerStep, AcceptedOnce, Shape
  <2>5. HandlerOK'
    BY <1>20 DEF HandleClient, HandleEvent, WorkerStep, HandlerOK, Shape
  <2>6. MainOK'
    BY <1>20 DEF HandleClient, HandleEvent, WorkerStep, MainOK, Shape
  <2>7. NobodyAfterClose'
    BY <1>20 DEF HandleClient, HandleEvent, WorkerStep, NobodyAfterClose, Shape
  <2>8. WakeupNotLost'
    BY <1>20 DEF HandleClient, HandleEvent, WorkerStep, WakeupNotLost, Shape
  <2>9. QED
    BY <2>1, <2>2, <2>3, <2>4, <2>5, <2>6, <2>7, <2>8 DEF IInv
<1>21. ASSUME NEW w \in Workers, Serve(w)
      PROVE  IInv'
  <2>1. Shape'
    BY <1>21 DEF Serve, ReadStep, WorkerStep, envVars, Shape, Pc
  <2>2. TypeOK'
    BY <1>21 DEF Serve, ReadStep, WorkerStep, envVars, TypeOK, Shape
  <2>3. OnlyInRun'
    BY <1>21 DEF Serve, ReadStep, WorkerStep, envVars, OnlyInRun, InRun, Shape
  <2>4. AcceptedOnce'
    BY <1>21, ServerAssumption DEF Serve, ReadStep, WorkerStep, envVars, AcceptedOnce, Shape
  <2>5. HandlerOK'
    BY <1>21 DEF Serve, ReadStep, WorkerStep, envVars, HandlerOK, Shape
  <2>6. MainOK'
    BY <1>21 DEF Serve, ReadStep, WorkerStep, envVars, MainOK, Shape
  <2>7. NobodyAfterClose'
    BY <1>21 DEF Serve, ReadStep, WorkerStep, envVars, NobodyAfterClose, Shape
  <2>8. WakeupNotLost'
    BY <1>21 DEF Serve, ReadStep, WorkerStep, envVars, WakeupNotLost, Shape
  <2>9. QED
    BY <2>1, <2>2, <2>3, <2>4, <2>5, <2>6, <2>7, <2>8 DEF IInv
<1>22. ASSUME NEW w \in Workers, Drained(w)
      PROVE  IInv'
  <2>1. Shape'
    BY <1>22 DEF Drained, ReadStep, WorkerStep, envVars, Shape, Pc
  <2>2. TypeOK'
    BY <1>22 DEF Drained, ReadStep, WorkerStep, envVars, TypeOK, Shape
  <2>3. OnlyInRun'
    BY <1>22 DEF Drained, ReadStep, WorkerStep, envVars, OnlyInRun, InRun, Shape
  <2>4. AcceptedOnce'
    BY <1>22, ServerAssumption DEF Drained, ReadStep, WorkerStep, envVars, AcceptedOnce, Shape
  <2>5. HandlerOK'
    BY <1>22 DEF Drained, ReadStep, WorkerStep, envVars, HandlerOK, Shape
  <2>6. MainOK'
    BY <1>22 DEF Drained, ReadStep, WorkerStep, envVars, MainOK, Shape
  <2>7. NobodyAfterClose'
    BY <1>22 DEF Drained, ReadStep, WorkerStep, envVars, NobodyAfterClose, Shape
  <2>8. WakeupNotLost'
    BY <1>22 DEF Drained, ReadStep, WorkerStep, envVars, WakeupNotLost, Shape
  <2>9. QED
    BY <2>1, <2>2, <2>3, <2>4, <2>5, <2>6, <2>7, <2>8 DEF IInv
<1>23. ASSUME NEW w \in Workers, CloseChannel(w)
      PROVE  IInv'
  <2>1. Shape'
    BY <1>23 DEF CloseChannel, ReadStep, WorkerStep, envVars, Shape, Pc
  <2>2. TypeOK'
    BY <1>23 DEF CloseChannel, ReadStep, WorkerStep, envVars, TypeOK, Shape, AcceptedOnce
  <2>3. OnlyInRun'
    BY <1>23 DEF CloseChannel, ReadStep, WorkerStep, envVars, OnlyInRun, InRun, Shape
  <2>4. AcceptedOnce'
    BY <1>23, ServerAssumption DEF CloseChannel, ReadStep, WorkerStep, envVars, AcceptedOnce,
       Shape
  <2>5. HandlerOK'
    BY <1>23 DEF CloseChannel, ReadStep, WorkerStep, envVars, HandlerOK, Shape
  <2>6. MainOK'
    BY <1>23 DEF CloseChannel, ReadStep, WorkerStep, envVars, MainOK, Shape
  <2>7. NobodyAfterClose'
    BY <1>23 DEF CloseChannel, ReadStep, WorkerStep, envVars, NobodyAfterClose, Shape
  <2>8. WakeupNotLost'
    BY <1>23 DEF CloseChannel, ReadStep, WorkerStep, envVars, WakeupNotLost, Shape
  <2>9. QED
    BY <2>1, <2>2, <2>3, <2>4, <2>5, <2>6, <2>7, <2>8 DEF IInv
<1>24. ASSUME NEW w \in Workers, Handled(w)
      PROVE  IInv'
  <2>1. Shape'
    BY <1>24 DEF Handled, WorkerStep, netVars, envVars, Shape, Pc
  <2>2. TypeOK'
    BY <1>24 DEF Handled, WorkerStep, netVars, envVars, TypeOK, Shape
  <2>3. OnlyInRun'
    BY <1>24 DEF Handled, WorkerStep, netVars, envVars, OnlyInRun, InRun, Shape
  <2>4. AcceptedOnce'
    BY <1>24, ServerAssumption DEF Handled, WorkerStep, netVars, envVars, AcceptedOnce, Shape
  <2>5. HandlerOK'
    BY <1>24 DEF Handled, WorkerStep, netVars, envVars, HandlerOK, Shape
  <2>6. MainOK'
    BY <1>24 DEF Handled, WorkerStep, netVars, envVars, MainOK, Shape
  <2>7. NobodyAfterClose'
    BY <1>24 DEF Handled, WorkerStep, netVars, envVars, NobodyAfterClose, Shape
  <2>8. WakeupNotLost'
    BY <1>24 DEF Handled, WorkerStep, netVars, envVars, WakeupNotLost, Shape
  <2>9. QED
    BY <2>1, <2>2, <2>3, <2>4, <2>5, <2>6, <2>7, <2>8 DEF IInv
<1>25. ASSUME NEW w \in Workers, Timer(w)
      PROVE  IInv'
  <2>1. Shape'
    BY <1>25 DEF Timer, WorkerStep, netVars, envVars, Shape, Pc
  <2>2. TypeOK'
    BY <1>25 DEF Timer, WorkerStep, netVars, envVars, TypeOK, Shape
  <2>3. OnlyInRun'
    BY <1>25 DEF Timer, WorkerStep, netVars, envVars, OnlyInRun, InRun, Shape
  <2>4. AcceptedOnce'
    BY <1>25, ServerAssumption DEF Timer, WorkerStep, netVars, envVars, AcceptedOnce, Shape
  <2>5. HandlerOK'
    BY <1>25 DEF Timer, WorkerStep, netVars, envVars, HandlerOK, Shape
  <2>6. MainOK'
    BY <1>25 DEF Timer, WorkerStep, netVars, envVars, MainOK, Shape
  <2>7. NobodyAfterClose'
    BY <1>25 DEF Timer, WorkerStep, netVars, envVars, NobodyAfterClose, Shape
  <2>8. WakeupNotLost'
    BY <1>25 DEF Timer, WorkerStep, netVars, envVars, WakeupNotLost, Shape
  <2>9. QED
    BY <2>1, <2>2, <2>3, <2>4, <2>5, <2>6, <2>7, <2>8 DEF IInv
<1>26. ASSUME NEW w \in Workers, Throws(w)
      PROVE  IInv'
  <2>1. Shape'
    BY <1>26 DEF Throws, Shape, Pc
  <2>2. TypeOK'
    BY <1>26 DEF Throws, TypeOK, Shape
  <2>3. OnlyInRun'
    BY <1>26 DEF Throws, OnlyInRun, InRun, Shape
  <2>4. AcceptedOnce'
    BY <1>26, ServerAssumption DEF Throws, AcceptedOnce, Shape
  <2>5. HandlerOK'
    BY <1>26 DEF Throws, HandlerOK, Shape, Interrupted
  <2>6. MainOK'
    BY <1>26 DEF Throws, MainOK, Shape
  <2>7. NobodyAfterClose'
    BY <1>26 DEF Throws, NobodyAfterClose, Shape, Alive
  <2>8. WakeupNotLost'
    BY <1>26 DEF Throws, WakeupNotLost, Shape
  <2>9. QED
    BY <2>1, <2>2, <2>3, <2>4, <2>5, <2>6, <2>7, <2>8 DEF IInv
<1>27. ASSUME NEW w \in Workers, Signal(w)
      PROVE  IInv'
  <2>1. Shape'
    BY <1>27 DEF Signal, Threads, netVars, Shape, Pc
  <2>2. TypeOK'
    BY <1>27 DEF Signal, Threads, netVars, TypeOK, Shape
  <2>3. OnlyInRun'
    BY <1>27 DEF Signal, Threads, netVars, OnlyInRun, InRun, Shape
  <2>4. AcceptedOnce'
    BY <1>27, ServerAssumption DEF Signal, Threads, netVars, AcceptedOnce, Shape
  <2>5. HandlerOK'
    BY <1>27, ServerAssumption DEF Signal, Threads, netVars, HandlerOK, Shape, TypeOK, Workers
  <2>6. MainOK'
    BY <1>27 DEF Signal, Threads, netVars, MainOK, Shape
  <2>7. NobodyAfterClose'
    BY <1>27 DEF Signal, Threads, netVars, NobodyAfterClose, Shape
  <2>8. WakeupNotLost'
    BY <1>27 DEF Signal, Threads, netVars, WakeupNotLost, Shape
  <2>9. QED
    BY <2>1, <2>2, <2>3, <2>4, <2>5, <2>6, <2>7, <2>8 DEF IInv
<1>28. CASE StopLoop
  <2>1. Shape'
    BY <1>28, <1>s DEF StopLoop, netVars, Shape, Pc
  <2>2. HandlerOK'
    BY <1>28, <1>s DEF StopLoop, netVars, HandlerOK, Shape
  <2>3. NobodyAfterClose'
    BY <1>28 DEF StopLoop, netVars, NobodyAfterClose, Shape
  <2>4. WakeupNotLost'
    <3> DEFINE n == handler.next
    <3>1. n \in Workers /\ running' = [running EXCEPT ![n] = FALSE]
      BY <1>28, <1>s DEF StopLoop
    <3>2. handler' = [on |-> handler.on, next |-> n, half |-> TRUE]
      BY <1>28, <1>s DEF StopLoop
    <3>3. handler' # NoHandler /\ handler'.half /\ handler'.next = n
      <4>1. handler.on \in Nat /\ n \in Nat
        BY <1>28, <1>s, ServerAssumption DEF StopLoop, Workers
      <4>2. handler' \in [on : Nat, next : Nat, half : BOOLEAN]
        BY <3>2, <4>1
      <4>3. QED
        BY <3>2, <4>2, ServerAssumption
    <3>4. ASSUME NEW w \in heard', w # n
          PROVE  w \in heard /\ running'[w] = running[w] /\ ~(handler.half /\ handler.next = w)
      BY <1>28, <3>1, <3>4 DEF StopLoop, Shape
    <3>5. n \in heard' => pc[n] \notin {"none", "setup", "enter"}
      BY <1>28 DEF StopLoop, InRun, WakeupNotLost
    <3>6. UNCHANGED <<pc, wake, silent>>
      BY <1>28 DEF StopLoop
    <3>7. QED
      BY <3>1, <3>3, <3>4, <3>5, <3>6 DEF WakeupNotLost, Shape
  <2>5. TypeOK' /\ OnlyInRun' /\ AcceptedOnce' /\ MainOK'
    BY <1>28 DEF StopLoop, netVars, TypeOK, OnlyInRun, AcceptedOnce, MainOK, InRun
  <2>6. QED
    BY <2>1, <2>2, <2>3, <2>4, <2>5 DEF IInv
<1>29. CASE Wakeup
  <2>1. Shape'
    BY <1>29 DEF Wakeup, netVars, Shape, Pc
  <2>2. HandlerOK'
    <3>1. handler' = [on |-> handler.on, next |-> handler.next + 1, half |-> FALSE]
      BY <1>29, <1>s DEF Wakeup
    <3>2. handler.next < made /\ handler.next + 1 <= made
      BY <1>29, <1>s DEF Wakeup, HandlerOK
    <3>3. handler.on \in Workers /\ handler.next + 1 \in Nat /\ UNCHANGED <<pc, made>>
      BY <1>29, <1>s DEF Wakeup
    <3>4. handler.on = 0 \/ pc[handler.on] \notin {"none", "ended"}
      BY <1>29 DEF Wakeup, HandlerOK
    <3>5. QED
      BY <3>1, <3>2, <3>3, <3>4 DEF HandlerOK
  <2>3. NobodyAfterClose'
    BY <1>29 DEF Wakeup, netVars, NobodyAfterClose, Shape
  <2>4. WakeupNotLost'
    BY <1>29, <1>s DEF Wakeup, netVars, WakeupNotLost, Shape, HandlerOK
  <2>5. TypeOK' /\ OnlyInRun' /\ AcceptedOnce' /\ MainOK'
    BY <1>29 DEF Wakeup, netVars, TypeOK, OnlyInRun, AcceptedOnce, MainOK, InRun
  <2>6. QED
    BY <2>1, <2>2, <2>3, <2>4, <2>5 DEF IInv
<1>30. CASE HandlerReturns
  <2>1. HandlerOK'
    BY <1>30 DEF HandlerReturns, loopVars, netVars, HandlerOK, Shape
  <2>2. NobodyAfterClose'
    BY <1>30 DEF HandlerReturns, loopVars, netVars, NobodyAfterClose, Shape
  <2>3. WakeupNotLost'
    BY <1>30, <1>s DEF HandlerReturns, loopVars, netVars, WakeupNotLost, Shape, HandlerOK
  <2>4. Shape' /\ TypeOK' /\ OnlyInRun' /\ AcceptedOnce' /\ MainOK'
    BY <1>30 DEF HandlerReturns, loopVars, netVars, Shape, TypeOK, OnlyInRun, AcceptedOnce,
       MainOK, InRun
  <2>5. QED
    BY <2>1, <2>2, <2>3, <2>4 DEF IInv
<1>31. ASSUME NEW w \in Workers, NEW c \in Clients, Connect(c, w)
      PROVE  IInv'
  <2>1. Shape'
    BY <1>31 DEF Connect, Connected, loopVars, envVars, Shape, Pc
  <2>2. TypeOK'
    BY <1>31 DEF Connect, Connected, loopVars, envVars, TypeOK, Shape
  <2>3. AcceptedOnce'
    BY <1>31 DEF Connect, Connected, loopVars, envVars, AcceptedOnce, Shape
  <2>4. OnlyInRun' /\ HandlerOK' /\ MainOK' /\ NobodyAfterClose' /\ WakeupNotLost'
    BY <1>31 DEF Connect, Connected, loopVars, envVars, OnlyInRun, HandlerOK, MainOK,
       NobodyAfterClose, WakeupNotLost, InRun
  <2>5. QED
    BY <2>1, <2>2, <2>3, <2>4 DEF IInv
<1>32. ASSUME NEW c \in Clients, Request(c)
      PROVE  IInv'
  <2>1. TypeOK'
    BY <1>32 DEF Request, loopVars, envVars, TypeOK, Shape
  <2>2. NobodyAfterClose'
    BY <1>32 DEF Request, loopVars, envVars, NobodyAfterClose, Shape, OnlyInRun, InRun
  <2>3. Shape' /\ OnlyInRun' /\ AcceptedOnce' /\ HandlerOK' /\ MainOK' /\ WakeupNotLost'
    BY <1>32 DEF Request, loopVars, envVars, Shape, OnlyInRun, AcceptedOnce, HandlerOK, MainOK,
       WakeupNotLost, InRun
  <2>4. QED
    BY <2>1, <2>2, <2>3 DEF IInv
<1>33. CASE Elapse
  BY <1>33 DEF Elapse, netVars, envVars, Shape, TypeOK, OnlyInRun, AcceptedOnce, HandlerOK,
     MainOK, NobodyAfterClose, WakeupNotLost, InRun
<1>34. CASE Terminated
  BY <1>34 DEF Terminated, vars, Shape, TypeOK, OnlyInRun, AcceptedOnce, HandlerOK, MainOK,
     NobodyAfterClose, WakeupNotLost, InRun
<1>35. CASE UNCHANGED vars
  BY <1>35 DEF vars, Shape, TypeOK, OnlyInRun, AcceptedOnce, HandlerOK, MainOK,
     NobodyAfterClose, WakeupNotLost, InRun
<1>36. QED
  BY <1>1, <1>2, <1>3, <1>4, <1>5, <1>6, <1>7, <1>8, <1>9, <1>10, <1>11, <1>12, <1>13, <1>14,
     <1>15, <1>16, <1>17, <1>18, <1>19, <1>20, <1>21, <1>22, <1>23, <1>24, <1>25, <1>26,
     <1>27, <1>28, <1>29, <1>30, <1>31, <1>32, <1>33, <1>34, <1>35 DEF Next, Main, Worker,
     Failure, Handler

(* The invariant holds in every state of every run of the server. *)
THEOREM Invariance == Spec => []IInv
BY InitEstablishes, Inductive, PTL DEF Spec

(***************************************************************************)
(* Every connection belongs to one worker, requests wait on connections    *)
(* that are open, and only a thread that handles events has any.           *)
(***************************************************************************)
THEOREM TypeCorrect == Spec => []TypeOK
<1>1. IInv => TypeOK
  BY DEF IInv
<1>2. QED
  BY Invariance, <1>1, PTL

(***************************************************************************)
(* From the moment main forgets the server, no worker runs, no signal      *)
(* handler is in the middle of the loops and no request waits, whatever    *)
(* failed or was thrown, whoever was interrupted, if the last signal came  *)
(* after Run had returned, and however many workers there are.             *)
(***************************************************************************)
THEOREM LogClosesLast == Spec => []NobodyAfterClose
<1>1. IInv => NobodyAfterClose
  BY DEF IInv
<1>2. QED
  BY Invariance, <1>1, PTL

(***************************************************************************)
(* The safety half of stopping a loop: one that heard Stop never runs      *)
(* again, and does not sleep without a wakeup on the way if it has an      *)
(* eventfd.                                                                *)
(***************************************************************************)
THEOREM StopIsHeard == Spec => []WakeupNotLost
<1>1. IInv => WakeupNotLost
  BY DEF IInv
<1>2. QED
  BY Invariance, <1>1, PTL

-----------------------------------------------------------------------------
(* The parking lot, which any threads may call. *)

(* The bounds, and the numbers of registrations. *)
CountsOK ==
    /\ now \in Nat
    /\ parked \in 0 .. MaxParks
    /\ called \in [1 .. MaxParks -> 0 .. 1]

(* A registration is on one list or in one batch, once. *)
Apart ==
    /\ \A j, k \in DOMAIN waiters : \A v \in waiters[j], w \in waiters[k] :
          v.n = w.n => j = k /\ v = w
    /\ \A t, u \in Callers : \A v \in batch[t], w \in batch[u] :
          v.n = w.n => t = u /\ v = w

(* The five fates part the registrations. *)
Parted ==
    /\ Waiting \cup Taken \cup Called \cup cancelled \cup dropped = 1 .. parked
    /\ Waiting \cap (Taken \cup Called \cup cancelled \cup dropped) = {}
    /\ Taken \cap (Called \cup cancelled \cup dropped) = {}
    /\ Called \cap (cancelled \cup dropped) = {}
    /\ cancelled \cap dropped = {}

(***************************************************************************)
(* The inductive invariant.  Apart is what makes the fates move as wholes: *)
(* were one registration on two lists, taking one of them would leave it   *)
(* both waiting and taken.                                                 *)
(***************************************************************************)
LotInv == CountsOK /\ ListsOK /\ Apart /\ Parted

-----------------------------------------------------------------------------
(* Membership in what waits. *)
LEMMA WaitingIs ==
    \A n : n \in Waiting <=> \E k \in DOMAIN waiters : \E w \in waiters[k] : w.n = n
BY DEF Waiting, Numbers

(* Membership in what the threads have taken. *)
LEMMA TakenIs ==
    \A n : n \in Taken <=> \E t \in Callers : \E w \in batch[t] : w.n = n
BY DEF Taken, Numbers

(* In the beginning nobody has registered. *)
LEMMA LotInitially == LotInit => LotInv
<1> SUFFICES ASSUME LotInit PROVE LotInv
  OBVIOUS
<1>1. DOMAIN waiters = {}
  BY DEF LotInit, NoWaiters
<1>2. CountsOK /\ ListsOK /\ Apart
  BY <1>1, ParkingLotAssumption DEF LotInit, CountsOK, ListsOK, Apart
<1>3. Waiting = {} /\ Taken = {} /\ Called = {} /\ 1 .. parked = {}
  BY <1>1, WaitingIs, TakenIs, ParkingLotAssumption DEF LotInit, Called
<1> QED
  BY <1>2, <1>3 DEF LotInv, Parted, LotInit

(* A new registration joins the list of its key. *)
LEMMA ParkPreserves ==
    ASSUME LotInv, NEW k \in Keys, NEW id \in Ids, NEW timeout \in Timeouts,
           Park(k, id, timeout)
    PROVE  LotInv'
<1> DEFINE new == [n |-> parked + 1, waiter_id |-> id, timeout_at_ms |-> timeout]
<1>1. parked \in Nat /\ parked + 1 \in 1 .. MaxParks /\ MaxParks \in Nat
  BY ParkingLotAssumption DEF Park, LotInv, CountsOK
<1>2. new \in Waiter /\ new.n = parked + 1 /\ new.waiter_id = id
  BY <1>1 DEF Waiter
<1>3. /\ DOMAIN waiters' = DOMAIN waiters \cup {k}
      /\ \A j \in DOMAIN waiters \ {k} : waiters'[j] = waiters[j]
      /\ waiters'[k] = ListOf(k) \cup {new}
      /\ UNCHANGED <<batch, now, called, cancelled, dropped>> /\ parked' = parked + 1
  BY DEF Park, With
<1> HIDE DEF new
<1>4. CountsOK'
  BY <1>1, <1>3 DEF LotInv, CountsOK
<1>5. /\ ListOf(k) \subseteq Waiter
      /\ \A v, w \in ListOf(k) : v.waiter_id = w.waiter_id => v = w
      /\ \A w \in ListOf(k) : k \in DOMAIN waiters /\ w \in waiters[k]
  BY DEF ListOf, LotInv, ListsOK
<1>6. \A w \in ListOf(k) : w.waiter_id # id
  BY DEF Park, IsParked
<1>7. ListsOK'
  BY <1>2, <1>3, <1>5, <1>6 DEF LotInv, ListsOK
<1>8. \A j \in DOMAIN waiters : \A w \in waiters[j] : w.n # parked + 1
  BY <1>1, WaitingIs DEF LotInv, Parted
<1>9. \A j \in DOMAIN waiters' : \A w \in waiters'[j] :
         \/ j \in DOMAIN waiters /\ w \in waiters[j]
         \/ j = k /\ w = new
  BY <1>3, <1>5
<1>10. Apart'
  BY <1>2, <1>3, <1>8, <1>9 DEF LotInv, Apart
<1>11. \A n : n \in Waiting' <=> n \in Waiting \/ n = parked + 1
  <2>1. \A n : n \in Waiting' <=> \E j \in DOMAIN waiters' : \E w \in waiters'[j] : w.n = n
    BY DEF Waiting, Numbers
  <2>2. \A j \in DOMAIN waiters : \A w \in waiters[j] : j \in DOMAIN waiters' /\ w \in waiters'[j]
    BY <1>3 DEF ListOf
  <2>3. k \in DOMAIN waiters' /\ new \in waiters'[k]
    BY <1>3
  <2> QED
    BY <1>2, <1>9, <2>1, <2>2, <2>3, WaitingIs
<1>12. Taken' = Taken /\ Called' = Called
  BY <1>3 DEF Taken, Called
<1>13. \A n : n \in 1 .. parked' <=> n \in 1 .. parked \/ n = parked + 1
  BY <1>1, <1>3
<1>14. parked + 1 \notin 1 .. parked
  BY <1>1
<1>15. Parted'
  BY <1>3, <1>11, <1>12, <1>13, <1>14 DEF LotInv, Parted
<1> QED
  BY <1>4, <1>7, <1>10, <1>15 DEF LotInv

(***************************************************************************)
(* A thread without a batch takes waiters off the lists.  This is what a   *)
(* broadcast and a purge have in common.                                   *)
(***************************************************************************)
LEMMA TakePreserves ==
    ASSUME LotInv, NEW t \in Callers, batch[t] = {}, NEW S,
           \A w \in S : \E k \in DOMAIN waiters : w \in waiters[k],
           batch' = [batch EXCEPT ![t] = S],
           DOMAIN waiters' \subseteq DOMAIN waiters,
           \A k \in DOMAIN waiters : \A w \in waiters[k] :
              w \notin S => k \in DOMAIN waiters' /\ w \in waiters'[k],
           \A k \in DOMAIN waiters' : /\ waiters'[k] # {}
                                      /\ \A w \in waiters'[k] : w \in waiters[k] /\ w \notin S,
           UNCHANGED <<now, parked, called, cancelled, dropped>>
    PROVE  LotInv'
<1>1. CountsOK'
  BY DEF LotInv, CountsOK
<1>2. S \subseteq Waiter
  BY DEF LotInv, ListsOK
<1>3. ListsOK'
  <2>1. batch' \in [Callers -> SUBSET Waiter]
    BY <1>2 DEF LotInv, ListsOK
  <2>2. \A k \in DOMAIN waiters' : waiters'[k] \subseteq waiters[k]
    OBVIOUS
  <2>3. \A k \in DOMAIN waiters' : waiters'[k] \in (SUBSET Waiter) \ {{}}
    BY <2>2 DEF LotInv, ListsOK
  <2> QED
    BY <2>1, <2>2, <2>3 DEF LotInv, ListsOK
<1>4. batch'[t] = S /\ \A u \in Callers \ {t} : batch'[u] = batch[u]
  BY DEF LotInv, ListsOK
<1>5. \A w \in S : w.n \in Waiting
  BY WaitingIs
<1>6. \A u \in Callers : \A w \in batch[u] : w.n \in Taken
  BY TakenIs
<1>7. \A n \in Waiting : n \notin Taken
  BY DEF LotInv, Parted
<1>8. Apart'
  <2>1. \A j, k \in DOMAIN waiters' : \A v \in waiters'[j], w \in waiters'[k] :
           v.n = w.n => j = k /\ v = w
    BY DEF LotInv, Apart
  <2>2. \A v, w \in S : v.n = w.n => v = w
    BY DEF LotInv, Apart
  <2>3. ASSUME NEW u \in Callers, NEW x \in Callers, NEW v \in batch'[u], NEW w \in batch'[x],
               v.n = w.n
        PROVE  u = x /\ v = w
    <3>1. CASE u = t /\ x = t
      BY <1>4, <2>2, <2>3, <3>1
    <3>2. CASE u # t /\ x # t
      BY <1>4, <2>3, <3>2 DEF LotInv, Apart
    <3>3. CASE u = t /\ x # t
      BY <1>4, <1>5, <1>6, <1>7, <2>3, <3>3
    <3>4. CASE u # t /\ x = t
      BY <1>4, <1>5, <1>6, <1>7, <2>3, <3>4
    <3> QED
      BY <3>1, <3>2, <3>3, <3>4
  <2> QED
    BY <2>1, <2>3 DEF Apart
<1>9. \A n : n \in Taken' <=> n \in Taken \/ n \in Numbers(S)
  <2>1. \A n : n \in Taken' <=> \E u \in Callers : \E w \in batch'[u] : w.n = n
    BY DEF Taken, Numbers
  <2>2. \A n : n \in Numbers(S) <=> \E w \in S : w.n = n
    BY DEF Numbers
  <2> QED
    BY <1>4, <2>1, <2>2, TakenIs
<1>10. \A n : n \in Waiting' <=> n \in Waiting /\ n \notin Numbers(S)
  <2>1. \A n : n \in Waiting' <=> \E k \in DOMAIN waiters' : \E w \in waiters'[k] : w.n = n
    BY DEF Waiting, Numbers
  <2>2. \A n : n \in Numbers(S) <=> \E w \in S : w.n = n
    BY DEF Numbers
  <2>3. \A k \in DOMAIN waiters : \A v \in waiters[k] : \A w \in S : v.n = w.n => v = w
    BY DEF LotInv, Apart
  <2> QED
    BY <2>1, <2>2, <2>3, WaitingIs
<1>11. \A n : n \in Numbers(S) => n \in Waiting
  BY <1>5 DEF Numbers
<1>12. Called' = Called
  BY DEF Called
<1>13. Parted'
  BY <1>9, <1>10, <1>11, <1>12 DEF LotInv, Parted
<1> QED
  BY <1>1, <1>3, <1>8, <1>13 DEF LotInv

(* A broadcast takes the list of one key. *)
LEMMA BroadcastPreserves ==
    ASSUME LotInv, NEW t \in Callers, NEW k \in Keys, BroadcastAndUnpark(t, k)
    PROVE  LotInv'
<1>1. /\ DOMAIN waiters' = DOMAIN waiters \ {k}
      /\ \A j \in DOMAIN waiters' : waiters'[j] = waiters[j]
  BY DEF BroadcastAndUnpark, Without
<1>2. \A j \in DOMAIN waiters \ {k} : \A w \in waiters[j] : w \notin waiters[k]
  BY DEF BroadcastAndUnpark, LotInv, Apart
<1>3. \A j \in DOMAIN waiters : waiters[j] # {}
  BY DEF LotInv, ListsOK
<1>4. PICK S : S = waiters[k]
  OBVIOUS
<1>5. /\ k \in DOMAIN waiters /\ batch[t] = {} /\ batch' = [batch EXCEPT ![t] = S]
      /\ UNCHANGED <<now, parked, called, cancelled, dropped>>
  BY <1>4 DEF BroadcastAndUnpark
<1>6. \A w \in S : \E j \in DOMAIN waiters : w \in waiters[j]
  BY <1>4, <1>5
<1>7. \A j \in DOMAIN waiters : \A w \in waiters[j] :
         w \notin S => j \in DOMAIN waiters' /\ w \in waiters'[j]
  BY <1>1, <1>4
<1>8. \A j \in DOMAIN waiters' :
         waiters'[j] # {} /\ \A w \in waiters'[j] : w \in waiters[j] /\ w \notin S
  BY <1>1, <1>2, <1>3, <1>4
<1>9. DOMAIN waiters' \subseteq DOMAIN waiters
  BY <1>1
<1> QED
  BY <1>5, <1>6, <1>7, <1>8, <1>9, TakePreserves

(* A purge takes who is late off all lists, and the lists it empties. *)
LEMMA PurgePreserves ==
    ASSUME LotInv, NEW t \in Callers, PurgeTimeout(t)
    PROVE  LotInv'
<1> DEFINE late == UNION {Late(k) : k \in DOMAIN waiters}
<1>1. /\ batch[t] = {} /\ batch' = [batch EXCEPT ![t] = late]
      /\ waiters' = [k \in {j \in DOMAIN waiters : OnTime(j) # {}} |-> OnTime(k)]
      /\ UNCHANGED <<now, parked, called, cancelled, dropped>>
  BY DEF PurgeTimeout
<1>2. \A w : w \in late <=> \E k \in DOMAIN waiters : w \in waiters[k] /\ TimedOut(w)
  BY DEF Late
<1> HIDE DEF late
<1>3. /\ DOMAIN waiters' = {j \in DOMAIN waiters : OnTime(j) # {}}
      /\ \A k \in DOMAIN waiters' : waiters'[k] = OnTime(k)
  BY <1>1
<1>4. \A k \in DOMAIN waiters : \A w : w \in OnTime(k) <=> w \in waiters[k] /\ ~TimedOut(w)
  BY DEF OnTime
<1>5. \A w \in late : \E k \in DOMAIN waiters : w \in waiters[k]
  BY <1>2
<1>6. \A k \in DOMAIN waiters : \A w \in waiters[k] :
         w \notin late => k \in DOMAIN waiters' /\ w \in waiters'[k]
  BY <1>2, <1>3, <1>4
<1>7. \A k \in DOMAIN waiters' :
         waiters'[k] # {} /\ \A w \in waiters'[k] : w \in waiters[k] /\ w \notin late
  BY <1>2, <1>3, <1>4
<1>8. DOMAIN waiters' \subseteq DOMAIN waiters
  BY <1>3
<1> QED
  BY <1>1, <1>5, <1>6, <1>7, <1>8, TakePreserves

(* A callback: the waiter has not been called before; R is what the thread *)
(* forgets of its batch because the callback threw, if it did.             *)
LEMMA CallPreserves ==
    ASSUME LotInv, NEW t \in Callers, NEW w \in batch[t], NEW R \in SUBSET (batch[t] \ {w}),
           called' = [called EXCEPT ![w.n] = @ + 1],
           dropped' = dropped \cup Numbers(R),
           batch' = [batch EXCEPT ![t] = (batch[t] \ {w}) \ R],
           UNCHANGED <<waiters, now, parked, cancelled>>
    PROVE  LotInv'
<1>1. w \in Waiter /\ w.n \in 1 .. MaxParks
  BY DEF LotInv, ListsOK, Waiter
<1>2. w.n \in Taken
  BY TakenIs
<1>3. called[w.n] = 0
  <2>1. w.n \notin Called
    BY <1>2 DEF LotInv, Parted
  <2> QED
    BY <1>1, <2>1 DEF Called, LotInv, CountsOK
<1>4. called'[w.n] = 1 /\ \A n \in (1 .. MaxParks) \ {w.n} : called'[n] = called[n]
  BY <1>1, <1>3 DEF LotInv, CountsOK
<1>5. CountsOK'
  BY <1>1, <1>3 DEF LotInv, CountsOK
<1>6. /\ batch'[t] = (batch[t] \ {w}) \ R /\ \A u \in Callers \ {t} : batch'[u] = batch[u]
      /\ batch' \in [Callers -> SUBSET Waiter]
  BY DEF LotInv, ListsOK
<1>7. ListsOK'
  BY <1>6 DEF LotInv, ListsOK
<1>8. \A u \in Callers : batch'[u] \subseteq batch[u]
  BY <1>6
<1>9. Apart'
  BY <1>8 DEF LotInv, Apart
<1>10. \A n : n \in Numbers(R) <=> \E v \in R : v.n = n
  BY DEF Numbers
<1>11. \A n : n \in Taken' <=> n \in Taken /\ n # w.n /\ n \notin Numbers(R)
  <2>1. \A n : n \in Taken' <=> \E u \in Callers : \E v \in batch'[u] : v.n = n
    BY DEF Taken, Numbers
  <2>2. \A u \in Callers : \A v \in batch[u] : \A x \in batch[t] : v.n = x.n => u = t /\ v = x
    BY DEF LotInv, Apart
  <2>3. ASSUME NEW n, n \in Taken, n # w.n, n \notin Numbers(R)
        PROVE  n \in Taken'
    <3>1. PICK u \in Callers : \E v \in batch[u] : v.n = n
      BY <2>3, TakenIs
    <3>2. PICK v \in batch[u] : v.n = n
      BY <3>1
    <3>3. v \in batch'[u]
      BY <1>6, <1>10, <2>3, <3>2
    <3> QED
      BY <2>1, <3>2, <3>3
  <2>4. ASSUME NEW n, n \in Taken'
        PROVE  n \in Taken /\ n # w.n /\ n \notin Numbers(R)
    <3>1. PICK u \in Callers : \E v \in batch'[u] : v.n = n
      BY <2>1, <2>4
    <3>2. PICK v \in batch'[u] : v.n = n
      BY <3>1
    <3>3. v \in batch[u] /\ (u = t => v # w /\ v \notin R)
      BY <1>6, <1>8, <3>2
    <3> QED
      BY <1>10, <2>2, <3>2, <3>3, TakenIs
  <2> QED
    BY <2>3, <2>4
<1>12. \A n \in Numbers(R) : n \in Taken /\ n # w.n
  <2>1. \A v \in R : v \in batch[t] /\ v # w
    OBVIOUS
  <2>2. \A v \in batch[t] : v.n = w.n => v = w
    BY DEF LotInv, Apart
  <2> QED
    BY <1>10, <2>1, <2>2, TakenIs
<1>13. \A n : n \in Called' <=> n \in Called \/ n = w.n
  BY <1>1, <1>3, <1>4 DEF Called
<1>14. Waiting' = Waiting
  BY DEF Waiting
<1>15. Parted'
  BY <1>2, <1>11, <1>12, <1>13, <1>14 DEF LotInv, Parted
<1> QED
  BY <1>5, <1>7, <1>9, <1>15 DEF LotInv

(* The loop over a batch, with and without an exception. *)
LEMMA CallNextPreserves ==
    ASSUME LotInv, NEW t \in Callers, CallNext(t) \/ CallThrows(t)
    PROVE  LotInv'
<1>1. CASE CallNext(t)
  <2>1. PICK w \in batch[t] : /\ called' = [called EXCEPT ![w.n] = @ + 1]
                              /\ batch' = [batch EXCEPT ![t] = @ \ {w}]
    BY <1>1 DEF CallNext
  <2>2. batch' = [batch EXCEPT ![t] = (batch[t] \ {w}) \ {}]
    BY <2>1
  <2>3. dropped' = dropped \cup Numbers({})
    BY <1>1 DEF CallNext, Numbers
  <2>4. {} \in SUBSET (batch[t] \ {w})
    OBVIOUS
  <2> QED
    BY <1>1, <2>1, <2>2, <2>3, <2>4, CallPreserves DEF CallNext
<1>2. CASE CallThrows(t)
  <2>1. PICK w \in batch[t] : /\ called' = [called EXCEPT ![w.n] = @ + 1]
                              /\ dropped' = dropped \cup Numbers(batch[t] \ {w})
    BY <1>2 DEF CallThrows
  <2>2. batch' = [batch EXCEPT ![t] = (batch[t] \ {w}) \ (batch[t] \ {w})]
    BY <1>2 DEF CallThrows
  <2> QED
    BY <1>2, <2>1, <2>2, CallPreserves DEF CallThrows
<1> QED
  BY <1>1, <1>2

(* Waiters that leave the lists without a batch to go to: C are cancelled, *)
(* D are dropped.                                                          *)
LEMMA LeavePreserves ==
    ASSUME LotInv, NEW C, NEW D,
           \A w \in C \cup D : \E k \in DOMAIN waiters : w \in waiters[k],
           C \cap D = {},
           DOMAIN waiters' \subseteq DOMAIN waiters,
           \A k \in DOMAIN waiters : \A w \in waiters[k] :
              w \notin C \cup D => k \in DOMAIN waiters' /\ w \in waiters'[k],
           \A k \in DOMAIN waiters' :
              waiters'[k] # {} /\ \A w \in waiters'[k] : w \in waiters[k] /\ w \notin C \cup D,
           cancelled' = cancelled \cup Numbers(C),
           dropped' = dropped \cup Numbers(D),
           UNCHANGED <<batch, now, parked, called>>
    PROVE  LotInv'
<1>1. CountsOK'
  BY DEF LotInv, CountsOK
<1>2. ListsOK'
  <2>1. \A k \in DOMAIN waiters' : waiters'[k] \subseteq waiters[k]
    OBVIOUS
  <2>2. \A k \in DOMAIN waiters' : waiters'[k] \in (SUBSET Waiter) \ {{}}
    BY <2>1 DEF LotInv, ListsOK
  <2> QED
    BY <2>1, <2>2 DEF LotInv, ListsOK
<1>3. Apart'
  BY DEF LotInv, Apart
<1>4. /\ \A n : n \in Numbers(C) <=> \E w \in C : w.n = n
      /\ \A n : n \in Numbers(D) <=> \E w \in D : w.n = n
  BY DEF Numbers
<1>5. \A k \in DOMAIN waiters : \A v \in waiters[k] : \A w \in C \cup D : v.n = w.n => v = w
  BY DEF LotInv, Apart
<1>6. \A n : n \in Waiting' <=> n \in Waiting /\ n \notin Numbers(C) /\ n \notin Numbers(D)
  <2>1. \A n : n \in Waiting' <=> \E k \in DOMAIN waiters' : \E w \in waiters'[k] : w.n = n
    BY DEF Waiting, Numbers
  <2> QED
    BY <1>4, <1>5, <2>1, WaitingIs
<1>7. /\ \A n \in Numbers(C) : n \in Waiting /\ n \notin Numbers(D)
      /\ \A n \in Numbers(D) : n \in Waiting
  BY <1>4, <1>5, WaitingIs
<1>8. Taken' = Taken /\ Called' = Called
  BY DEF Taken, Called
<1>9. Parted'
  BY <1>6, <1>7, <1>8 DEF LotInv, Parted
<1> QED
  BY <1>1, <1>2, <1>3, <1>9 DEF LotInv

(* Cancel takes one waiter off its list. *)
LEMMA CancelPreserves ==
    ASSUME LotInv, NEW k \in Keys, NEW id \in Ids, Cancel(k, id)
    PROVE  LotInv'
<1>1. PICK w \in waiters[k] :
         /\ waiters' = IF waiters[k] = {w} THEN Without(k) ELSE With(k, waiters[k] \ {w})
         /\ cancelled' = cancelled \cup {w.n}
  BY DEF Cancel
<1>2. k \in DOMAIN waiters /\ UNCHANGED <<batch, now, parked, called, dropped>>
  BY DEF Cancel
<1>3. /\ DOMAIN waiters' = IF waiters[k] = {w} THEN DOMAIN waiters \ {k} ELSE DOMAIN waiters
      /\ \A j \in DOMAIN waiters' : waiters'[j] = IF j = k THEN waiters[k] \ {w} ELSE waiters[j]
  BY <1>1, <1>2 DEF With, Without
<1>4. Numbers({w}) = {w.n} /\ Numbers({}) = {}
  BY DEF Numbers
<1>5. \A j \in DOMAIN waiters : waiters[j] # {} /\ (w \in waiters[j] => j = k)
  BY <1>2 DEF LotInv, ListsOK, Apart
<1>6. \A v \in {w} \cup {} : \E j \in DOMAIN waiters : v \in waiters[j]
  BY <1>2
<1>7. \A j \in DOMAIN waiters : \A v \in waiters[j] :
         v \notin {w} \cup {} => j \in DOMAIN waiters' /\ v \in waiters'[j]
  BY <1>3
<1>8. \A j \in DOMAIN waiters' :
         waiters'[j] # {} /\ \A v \in waiters'[j] : v \in waiters[j] /\ v \notin {w} \cup {}
  BY <1>3, <1>5
<1>9. DOMAIN waiters' \subseteq DOMAIN waiters /\ {w} \cap {} = {}
  BY <1>3
<1>10. cancelled' = cancelled \cup Numbers({w}) /\ dropped' = dropped \cup Numbers({})
  BY <1>1, <1>2, <1>4
<1> QED
  BY <1>2, <1>6, <1>7, <1>8, <1>9, <1>10, LeavePreserves

(* Clear drops all lists. *)
LEMMA ClearPreserves ==
    ASSUME LotInv, Clear
    PROVE  LotInv'
<1> DEFINE all == UNION {waiters[k] : k \in DOMAIN waiters}
<1>1. DOMAIN waiters' = {}
  BY DEF Clear, NoWaiters
<1>2. \A w : w \in all <=> \E k \in DOMAIN waiters : w \in waiters[k]
  OBVIOUS
<1>3. UNION {Numbers(waiters[k]) : k \in DOMAIN waiters} = Numbers(all)
  <2>1. \A n : n \in Numbers(all) <=> \E w \in all : w.n = n
    BY DEF Numbers
  <2>2. \A n : n \in UNION {Numbers(waiters[k]) : k \in DOMAIN waiters}
                 <=> \E k \in DOMAIN waiters : \E w \in waiters[k] : w.n = n
    BY DEF Numbers
  <2> QED
    BY <1>2, <2>1, <2>2
<1> HIDE DEF all
<1>4. /\ cancelled' = cancelled \cup Numbers({}) /\ dropped' = dropped \cup Numbers(all)
      /\ UNCHANGED <<batch, now, parked, called>>
  BY <1>3 DEF Clear, Numbers
<1>5. {} \cap all = {} /\ {} \cup all = all
  OBVIOUS
<1> QED
  BY <1>1, <1>2, <1>4, <1>5, LeavePreserves

-----------------------------------------------------------------------------
(* Every step keeps the invariant. *)
LEMMA LotStep == LotInv /\ [LotNext]_lotVars => LotInv'
<1> SUFFICES ASSUME LotInv, [LotNext]_lotVars PROVE LotInv'
  OBVIOUS
<1>1. CASE Tick \/ UNCHANGED lotVars
  <2>1. UNCHANGED <<waiters, batch, parked, called, cancelled, dropped>> /\ now' \in Nat
    BY <1>1 DEF Tick, lotVars, LotInv, CountsOK
  <2> QED
    BY <2>1 DEF LotInv, CountsOK, ListsOK, Apart, Parted, Waiting, Taken, Called
<1> QED
  BY <1>1, ParkPreserves, CancelPreserves, BroadcastPreserves, PurgePreserves,
     CallNextPreserves, ClearPreserves DEF LotNext

(***************************************************************************)
(* The invariant of the parking lot holds in every reachable state.        *)
(***************************************************************************)
THEOREM LotInvariance == LotSpec => []LotInv
BY LotInitially, LotStep, PTL DEF LotSpec

(***************************************************************************)
(* Whatever the threads and the callbacks do between the callbacks of a    *)
(* broadcast or a purge, every registration waits, is about to be called,  *)
(* was called once, was cancelled, or was dropped by Clear or a callback   *)
(* that threw, and exactly one of these.                                   *)
(***************************************************************************)
THEOREM FatesAreOne == LotSpec => []OneFate
<1>1. LotInv => OneFate
  <2> SUFFICES ASSUME LotInv PROVE OneFate
    OBVIOUS
  <2> DEFINE fates == <<Waiting, Taken, Called, cancelled, dropped>>
  <2>1. \A n \in Called : called[n] = 1
    BY DEF Called, LotInv, CountsOK
  <2>2. /\ fates[1] = Waiting /\ fates[2] = Taken /\ fates[3] = Called
        /\ fates[4] = cancelled /\ fates[5] = dropped
    OBVIOUS
  <2> HIDE DEF fates
  <2>3. \A i, j \in 1 .. 5 : i # j => fates[i] \cap fates[j] = {}
    <3> SUFFICES ASSUME NEW i \in 1 .. 5, NEW j \in 1 .. 5, i < j
                 PROVE  fates[i] \cap fates[j] = {}
      OBVIOUS
    <3>1. CASE i = 1
      BY <2>2, <3>1 DEF LotInv, Parted
    <3>2. CASE i = 2
      BY <2>2, <3>2 DEF LotInv, Parted
    <3>3. CASE i = 3
      BY <2>2, <3>3 DEF LotInv, Parted
    <3>4. CASE i = 4
      BY <2>2, <3>4 DEF LotInv, Parted
    <3> QED
      BY <3>1, <3>2, <3>3, <3>4
  <2> QED
    BY <2>1, <2>3 DEF LotInv, Parted, OneFate, fates
<1> QED
  BY LotInvariance, <1>1, PTL
=============================================================================

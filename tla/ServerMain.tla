----------------------------- MODULE ServerMain -----------------------------
(* The receive side of the server: overlapped receives, the completion     *)
(* port, its worker threads, Start and Stop (ERServer/IocpUdpListener.cpp),*)
(* and the hand-off of each datagram to the simulation thread through      *)
(* `inbound' (ERServer.cpp).  The lane threads are started and stopped but *)
(* no datagram is ever given to them: WorkerLoop calls the callback itself *)
(* and DispatchToLane has no caller.                                       *)
(* Datagrams are numbered; the kernel and the network are external.        *)
(* main of the server (ERServer/ERServer.cpp): boot, the loop of the       *)
(* simulation thread and shutdown, with the receive threads of             *)
(* the listener running beside it.       Logs, gauges and the debug status   *)
(* port are left out.  An economy event and a datagram are numbers; what   *)
(* the host and the universe do with them is in ServerHost and Universe.   *)
EXTENDS Naturals, Sequences, SequencesExt, FiniteSets

CONSTANTS
    Workers,        \* the IOCP receive threads
    Ops,            \* the pool of RecvOps
    MAX_DATAGRAMS,  \* bound: datagrams that arrive
    MAX_SOCKET_ERRORS \* bound: receives that fail

VARIABLES
    running,        \* the listener's flag
    phase,          \* what the thread that owns the listener is doing
    ops,            \* op -> "none" | "posted" | "done" | "lost" | "freed"
    port,           \* the completion port: a queue of completions
    worker,         \* worker -> its state, and the op it is handling
    lanesUp,        \* lane threads that have not been joined
    inbound,        \* filled by the callback, drained by the simulation
    arrived, failures

listenerVars == << running, phase, ops, port, worker, lanesUp, inbound, arrived, failures >>

Absent == [at |-> "none", op |-> "none", dg |-> 0]
AtTop == [at |-> "top", op |-> "none", dg |-> 0]
Waiting == [at |-> "wait", op |-> "none", dg |-> 0]
Exited == [at |-> "exited", op |-> "none", dg |-> 0]
StopKey == [key |-> "stop", op |-> "none", dg |-> 0]
Completion(op, dg) == [key |-> "recv", op |-> op, dg |-> dg]

ListenerInit ==
    /\ running = FALSE /\ phase = "down" /\ ops = [o \in Ops |-> "none"] /\ port = << >>
    /\ worker = [w \in Workers |-> Absent] /\ lanesUp = FALSE
    /\ inbound = << >> /\ arrived = 0 /\ failures = 0

\* The socket and the completion port come up, or Start undoes what it has
\* done and returns false.
StartSocket ==
    /\ phase = "down" /\ ~running
    /\ \/ running' = TRUE /\ phase' = "priming" /\ lanesUp' = TRUE
       \/ phase' = "refused" /\ UNCHANGED << running, lanesUp >>
    /\ UNCHANGED << ops, port, worker, inbound, arrived, failures >>

\* The receive pool is posted and the workers are spawned.  If a receive
\* cannot be posted Start clears `running' first and then calls Stop, which
\* finds it cleared and returns at once: lanes, socket and ops stay.
StartPool ==
    /\ phase = "priming"
    /\ \/ /\ ops' = [o \in Ops |-> "posted"] /\ worker' = [w \in Workers |-> AtTop]
          /\ phase' = "up" /\ UNCHANGED << running, failures >>
       \/ /\ failures < MAX_SOCKET_ERRORS /\ failures' = failures + 1
          /\ \E posted \in SUBSET Ops : posted # Ops /\ ops' = [o \in Ops |-> IF o \in posted THEN "posted" ELSE "none"]
          /\ running' = FALSE /\ phase' = "refused" /\ UNCHANGED worker
    /\ UNCHANGED << port, lanesUp, inbound, arrived >>

SocketOpen == phase \in {"up", "stopping"}

\* A datagram completes a posted receive.
Arrive(o) ==
    /\ ops[o] = "posted" /\ arrived < MAX_DATAGRAMS /\ SocketOpen
    /\ arrived' = arrived + 1
    /\ ops' = [ops EXCEPT ![o] = "done"] /\ port' = Append(port, Completion(o, arrived + 1))
    /\ UNCHANGED << running, phase, worker, lanesUp, inbound, failures >>

\* An ICMP error of an earlier send completes it with no data.
ReceiveFails(o) ==
    /\ ops[o] = "posted" /\ failures < MAX_SOCKET_ERRORS /\ SocketOpen
    /\ failures' = failures + 1
    /\ ops' = [ops EXCEPT ![o] = "done"] /\ port' = Append(port, Completion(o, 0))
    /\ UNCHANGED << running, phase, worker, lanesUp, inbound, arrived >>

\* The top of WorkerLoop: leave when no longer running, else block on the
\* port.
WorkerTop(w) ==
    /\ worker[w].at = "top"
    /\ worker' = [worker EXCEPT ![w] = IF running THEN Waiting ELSE Exited]
    /\ UNCHANGED << running, phase, ops, port, lanesUp, inbound, arrived, failures >>

WorkerTakes(w) ==
    /\ worker[w].at = "wait" /\ port # << >>
    /\ port' = Tail(port)
    /\ worker' = [worker EXCEPT ![w] =
            IF Head(port).key = "stop" THEN Exited
            ELSE [at |-> IF Head(port).dg > 0 THEN "callback" ELSE "repost",
                  op |-> Head(port).op, dg |-> Head(port).dg]]
    /\ UNCHANGED << running, phase, ops, lanesUp, inbound, arrived, failures >>

\* The callback copies the bytes out of the op's buffer, under inboundMutex.
Callback(w) ==
    /\ worker[w].at = "callback"
    /\ inbound' = Append(inbound, worker[w].dg)
    /\ worker' = [worker EXCEPT ![w].at = "repost"]
    /\ UNCHANGED << running, phase, ops, port, lanesUp, arrived, failures >>

\* PostRecv again, if `running' was still set when the worker looked, which
\* may have been just before Stop cleared it.  The result of PostRecv is not
\* looked at: an op that could not be posted is lost to the pool.
Repost(w) ==
    LET o == worker[w].op IN
    /\ worker[w].at = "repost"
    /\ worker' = [worker EXCEPT ![w] = AtTop]
    /\ \/ SocketOpen /\ ops' = [ops EXCEPT ![o] = "posted"] /\ UNCHANGED failures
       \/ /\ running /\ failures < MAX_SOCKET_ERRORS /\ failures' = failures + 1
          /\ ops' = [ops EXCEPT ![o] = "lost"]
       \/ ~running /\ ops' = [ops EXCEPT ![o] = "lost"] /\ UNCHANGED failures
    /\ UNCHANGED << running, phase, port, lanesUp, inbound, arrived >>

\* Stop: one exchange of `running' decides who stops the listener.
BeginStop ==
    /\ phase = "up" /\ running
    /\ running' = FALSE /\ phase' = "stopping"
    /\ UNCHANGED << ops, port, worker, lanesUp, inbound, arrived, failures >>

Cancelled == SetToSeq({ o \in Ops : ops[o] = "posted" })

\* Mutant: one sentinel, as if the worker that takes it woke the others.
SentinelsForOne == << StopKey >>

Sentinels == [i \in 1 .. Cardinality(Workers) |-> StopKey]

\* Closing the socket cancels the posted receives; then a sentinel for each
\* worker.
CloseSocket ==
    /\ phase = "stopping" /\ phase' = "joining"
    /\ ops' = [o \in Ops |-> IF ops[o] = "posted" THEN "done" ELSE ops[o]]
    /\ port' = port \o [i \in 1 .. Len(Cancelled) |-> Completion(Cancelled[i], 0)] \o Sentinels
    /\ UNCHANGED << running, worker, lanesUp, inbound, arrived, failures >>

Joined == \A w \in Workers : worker[w].at = "exited"

\* The workers are joined, the lanes stopped and joined, the ops deleted and
\* the port closed.
FinishStop ==
    /\ phase = "joining" /\ Joined
    /\ phase' = "stopped" /\ lanesUp' = FALSE
    /\ ops' = [o \in Ops |-> "freed"] /\ port' = << >>
    /\ UNCHANGED << running, worker, inbound, arrived, failures >>

ListenerNext ==
    \/ StartSocket \/ StartPool \/ CloseSocket \/ FinishStop
    \/ \E o \in Ops : Arrive(o) \/ ReceiveFails(o)
    \/ \E w \in Workers : WorkerTop(w) \/ WorkerTakes(w) \/ Callback(w) \/ Repost(w)

(***************************************************************************)
(* Properties                                                              *)
(***************************************************************************)
(* An op is deleted only when no worker handles it and the kernel no       *)
(* longer owns it, so no callback reads freed memory.                      *)
NoUseAfterFree ==
    \A w \in Workers : worker[w].at \in {"callback", "repost"} => ops[worker[w].op] # "freed"

(* Stop never waits for ever in join: every worker that is still there has *)
(* a sentinel left on the port, whatever the others consumed.              *)
NobodyStranded ==
    phase = "joining" =>
        Cardinality({ w \in Workers : worker[w].at # "exited" })
            <= Cardinality({ i \in 1 .. Len(port) : port[i].key = "stop" })

(* While the listener is up the kernel has a receive posted for every op   *)
(* that is not being handled, except those a failed re-post lost: the pool *)
(* shrinks by one for every such failure and nothing refills it.           *)
PoolAccounted ==
    phase = "up" =>
        /\ \A o \in Ops : ops[o] = "done" <=>
              \/ \E i \in 1 .. Len(port) : port[i].op = o
              \/ \E w \in Workers : worker[w].op = o
        /\ Cardinality({ o \in Ops : ops[o] = "lost" }) <= failures
-----------------------------------------------------------------------------

CONSTANTS
    MAX_LOOPS,      \* bound: passes of the loop
    MAX_SIM_EVENTS  \* bound: economy events the simulation produces

VARIABLES
    pc,             \* where main is
    cfg,            \* [conn |-> a connection string is set]
    g_running,
    dbAvailable, persistUp,
    drained, routed,    \* the batch being routed, and all datagrams routed
    econEvents, made,   \* the universe's queue of events, and events made
    enqueued, committed,    \* given to the persistence thread, and drained by its Stop
    simTick, snapTick, stepped, outgoing, loops

mainVars == << pc, cfg, g_running, dbAvailable, persistUp, drained, routed,
               econEvents, made, enqueued, committed, simTick, snapTick, stepped, outgoing, loops >>

MainInit ==
    /\ pc = "config" /\ cfg \in [conn : BOOLEAN] /\ g_running = TRUE
    /\ dbAvailable = FALSE /\ persistUp = FALSE
    /\ drained = << >> /\ routed = << >>
    /\ econEvents = << >> /\ made = 0 /\ enqueued = << >> /\ committed = << >>
    /\ simTick = 0 /\ snapTick = 0 /\ stepped = FALSE /\ outgoing = << >> /\ loops = 0

Init == ListenerInit /\ MainInit

loopVars == << drained, routed, econEvents, made, enqueued, committed, simTick, snapTick,
               stepped, outgoing, loops >>

\* The config, Winsock, the crypto and the static key come up, or main
\* returns 1.
BootBasics ==
    /\ pc = "config" /\ pc' \in {"persist", "returned"}
    /\ UNCHANGED << cfg, g_running, dbAvailable, persistUp, loopVars, listenerVars >>

\* With a connection string: restore, then start the persistence thread;
\* a failure is fatal.  Without one the server runs on without persistence.
BootPersistence ==
    /\ pc = "persist"
    /\ \/ /\ cfg.conn /\ dbAvailable' = TRUE /\ persistUp' = TRUE /\ pc' = "listen"
       \/ /\ cfg.conn /\ pc' = "returned" /\ UNCHANGED << dbAvailable, persistUp >>
       \/ /\ ~cfg.conn /\ pc' = "listen" /\ UNCHANGED << dbAvailable, persistUp >>
    /\ UNCHANGED << cfg, g_running, loopVars, listenerVars >>

\* listener.Start has returned.
ListenerStarted ==
    /\ pc = "listen"
    /\ \/ phase = "up" /\ pc' = "loop" /\ UNCHANGED << persistUp, committed >>
       \/ /\ phase = "refused" /\ pc' = "returned"
          /\ persistUp' = FALSE /\ committed' = enqueued
    /\ UNCHANGED << cfg, g_running, dbAvailable, drained, routed, econEvents, made,
                    enqueued, simTick, snapTick, stepped, outgoing, loops, listenerVars >>

\* Ctrl+C, at any time.
ConsoleCtrlHandler ==
    /\ g_running /\ pc # "returned" /\ g_running' = FALSE
    /\ UNCHANGED << pc, cfg, dbAvailable, persistUp, loopVars, listenerVars >>

\* swap(drained, inbound) and clear, under one lock.
SwapInbound ==
    /\ drained' = inbound /\ inbound' = << >> /\ pc' = "route"

\* The top of the loop.
Drain ==
    /\ pc = "loop" /\ g_running /\ loops < MAX_LOOPS
    /\ SwapInbound /\ loops' = loops + 1
    /\ UNCHANGED << cfg, g_running, dbAvailable, persistUp, routed, econEvents, made,
                    enqueued, committed, simTick, snapTick, stepped, outgoing,
                    running, phase, ops, port, worker, lanesUp, arrived, failures >>

\* OnDatagram for each of the batch, its answers added to `out'.
Route ==
    /\ pc = "route" /\ pc' = "step"
    /\ routed' = routed \o drained /\ outgoing' = drained
    /\ UNCHANGED << cfg, g_running, dbAvailable, persistUp, drained, econEvents, made,
                    enqueued, committed, simTick, snapTick, stepped, loops, listenerVars >>

\* As many steps as the accumulator owes, each of which may produce events.
SimSteps(n, e) ==
    /\ pc = "step" /\ pc' = "events"
    /\ made + e <= MAX_SIM_EVENTS /\ (n = 0 => e = 0)
    /\ simTick' = simTick + n /\ stepped' = (n > 0)
    /\ econEvents' = econEvents \o [i \in 1 .. e |-> made + i] /\ made' = made + e
    /\ UNCHANGED << cfg, g_running, dbAvailable, persistUp, drained, routed,
                    enqueued, committed, snapTick, outgoing, loops, listenerVars >>

\* DrainBuildCompleted and DrainEconEvents: enqueued with a database, else
\* thrown away.
DrainEvents ==
    /\ econEvents' = << >>
    /\ enqueued' = IF dbAvailable THEN enqueued \o econEvents ELSE enqueued

Publish ==
    /\ pc = "events" /\ pc' = "send" /\ DrainEvents
    /\ IF stepped /\ simTick - snapTick >= 1
       THEN snapTick' = simTick /\ outgoing' = Append(outgoing, 0)
       ELSE UNCHANGED << snapTick, outgoing >>
    /\ UNCHANGED << cfg, g_running, dbAvailable, persistUp, drained, routed, made,
                    committed, simTick, stepped, loops, listenerVars >>

\* SendTo of every queued datagram, PruneStale, gauges, one millisecond.
Flush ==
    /\ pc = "send" /\ pc' = "loop" /\ outgoing' = << >> /\ stepped' = FALSE
    /\ UNCHANGED << cfg, g_running, dbAvailable, persistUp, drained, routed, econEvents,
                    made, enqueued, committed, simTick, snapTick, loops, listenerVars >>

\* Out of the loop: listener.Stop ...
StopListener ==
    /\ pc = "loop" /\ ~g_running /\ pc' = "stopping"
    /\ BeginStop
    /\ UNCHANGED << cfg, g_running, dbAvailable, persistUp, loopVars >>

\* ... then persist.Stop, whose final drain commits what was enqueued, and
\* main returns: `inbound' and the other locals are gone.
Return ==
    /\ pc = "stopping" /\ phase = "stopped" /\ pc' = "returned"
    /\ persistUp' = FALSE /\ committed' = IF persistUp THEN enqueued ELSE committed
    /\ UNCHANGED << cfg, g_running, dbAvailable, drained, routed, econEvents, made,
                    enqueued, simTick, snapTick, stepped, outgoing, loops, listenerVars >>

MainNext ==
    \/ BootBasics \/ BootPersistence \/ ListenerStarted \/ ConsoleCtrlHandler
    \/ Drain \/ Route \/ Publish \/ Flush \/ StopListener \/ Return
    \/ \E n \in 0 .. 1, e \in 0 .. 1 : SimSteps(n, e)

Next ==
    \/ MainNext
    \/ ListenerNext /\ (phase \in {"down", "priming"} => pc = "listen") /\ UNCHANGED mainVars

(***************************************************************************)
(* Properties                                                              *)
(***************************************************************************)
InHand == { worker[w].dg : w \in { v \in Workers : worker[v].at = "callback" } }
OnPort == { port[i].dg : i \in 1 .. Len(port) }

(* Between the kernel and ServerHost::OnDatagram a datagram is never lost  *)
(* and never routed twice, whichever thread runs when; only those that the *)
(* shutdown cut short are dropped.                                         *)
HandedOverOnce ==
    LET batch == IF pc = "route" THEN drained ELSE << >>
        all == routed \o batch \o inbound
    IN  /\ \A i, j \in 1 .. Len(all) : all[i] = all[j] => i = j
        /\ phase = "up" =>
            1 .. arrived = { all[i] : i \in 1 .. Len(all) } \cup ((InHand \cup OnPort) \ {0})

(* When main has returned no receive thread is left that could reach its   *)
(* locals, the queue the callback fills among them.                        *)
NoReceiverOutlivesMain ==
    pc = "returned" => \A w \in Workers : worker[w].at \in {"none", "exited"}

(* A shutdown loses no economy event: each one the simulation made while   *)
(* there was a database was enqueued in the pass that made it, and the     *)
(* final drain has committed it, in order.                                 *)
ShutdownKeepsEvents ==
    (pc = "returned" /\ dbAvailable) =>
        committed = [i \in 1 .. made |-> i] /\ ~persistUp

(* Receive threads and main together: whatever the order in which workers, *)
(* Stop and the loop run, no freed operation is touched, nobody is left    *)
(* waiting, every datagram reaches the loop once, and the end of the       *)
(* program loses no event and leaves no thread (WorkerLoop, Stop, main).   *)
ServerInv ==
    /\ NoUseAfterFree /\ NobodyStranded /\ PoolAccounted
    /\ HandedOverOnce /\ NoReceiverOutlivesMain /\ ShutdownKeepsEvents
=============================================================================

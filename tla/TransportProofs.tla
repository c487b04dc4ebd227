-------------------------- MODULE TransportProofs --------------------------
(***************************************************************************)
(* Proofs about the transports: HTTPTransport, for every set of            *)
(* connections and of callers of Stop, and for any number of restarts;     *)
(* SSETransport and WebSocketTransport likewise; and what HTTPHandling     *)
(* answers, for every message. The modules name what they have in common   *)
(* alike; a theorem is about one of them.  StdioTransport follows, for     *)
(* every input, and RESTTransport, for every set of requests.              *)
(*                                                                         *)
(* What a Stop that returned nil promises rests on what it did before it   *)
(* waited: the server it shut down takes no request and no connection      *)
(* (Shuts). What IsRunning says until a restart rests on who is at work:   *)
(* the listener of a transport that does not run is open only while a Stop *)
(* has not got to it (Listens).                                            *)
(***************************************************************************)
EXTENDS HTTPTransport, Sequences, FiniteSetTheorems, TLAPS

Active == {c \in Conns : conn[c] = "active"}

\* The part of TypeOK that does not follow from the counting.
Shape ==
    /\ running \in BOOLEAN
    /\ run \in 0..MaxRuns
    /\ listener \in [Runs -> {"none", "open", "closed"}]
    /\ server \in [Runs -> {"up", "down"}]
    /\ serving \in SUBSET Runs
    /\ ctxDone \in SUBSET Runs
    /\ conn \in [Conns -> {"none", "idle", "active", "closed"}]
    /\ connRun \in [Conns -> 0..MaxRuns]
    /\ stop \in [StopCalls -> StopStates]
    /\ stopRun \in [StopCalls -> [began : 0..MaxRuns, shuts : 0..MaxRuns]]
    /\ monRunning \in BOOLEAN /\ stopChClosed \in BOOLEAN
    /\ crashed \in BOOLEAN

\* Runs come one after the other; a connection belongs to one that was started.
Started ==
    /\ running => run # 0
    /\ \A p \in StopCalls : stop[p] \notin {"idle", "noop"} => run # 0
    /\ \A g \in Runs : g > run => listener[g] = "none" /\ server[g] = "up"
    /\ \A g \in serving : g <= run
    /\ \A c \in Conns : conn[c] # "none" => connRun[c] \in 1..run

\* The server a Stop has shut down: none of its connections is idle, and none
\* is active when the Stop has returned nil.
Shuts ==
    \A p \in StopCalls : stop[p] \in {"waiting", "ok"} =>
        /\ stopRun[p].shuts \in Runs /\ server[stopRun[p].shuts] = "down"
        /\ \A c \in Conns : connRun[c] = stopRun[p].shuts =>
              conn[c] # "idle" /\ (stop[p] = "ok" => conn[c] # "active")

\* Until a restart a transport that runs listens and no Stop works on it; one
\* that does not run listens only as long as a Stop is still on its way.
Listens == run = 1 =>
    /\ running => listener[1] = "open" /\ \A p \in StopCalls : stop[p] \in {"idle", "noop"}
    /\ server[1] = "down" => listener[1] # "open"
    /\ ~running /\ listener[1] = "open" =>
          \E p \in StopCalls : stop[p] \in {"monitor", "listener"}

IInv == Shape /\ RequestsCounted /\ Started /\ Shuts /\ Listens

LEMMA RunsAreNumbers ==
    /\ MaxRuns \in Nat /\ run \in 0..MaxRuns => run \in Nat /\ (run # 0 => run \in Runs)
    /\ \A g \in Runs : g \in Nat /\ g # 0
  BY HTTPAssumption DEF Runs

LEMMA ActiveCounted ==
    /\ IsFiniteSet(Active) /\ Cardinality(Active) \in Nat
    /\ Cardinality(Active) <= Cardinality(Conns)
<1>1. IsFiniteSet(Active) /\ Cardinality(Active) <= Cardinality(Conns)
  BY HTTPAssumption, FS_Subset DEF Active
<1> QED
  BY <1>1, FS_CardinalityType

LEMMA CountedMeans == Shape /\ RequestsCounted <=> TypeOK /\ RequestsCounted
<1>1. Cardinality(Conns) \in Nat /\ Cardinality(Active) \in 0..Cardinality(Conns)
  BY ActiveCounted, HTTPAssumption, FS_CardinalityType
<1> QED
  BY <1>1 DEF Shape, TypeOK, RequestsCounted, Active

\* A step that leaves active connections alone, and the counter.
LEMMA SameCount ==
    ASSUME RequestsCounted, activeRequests' = activeRequests,
           \A c \in Conns : conn'[c] = "active" <=> conn[c] = "active"
    PROVE  RequestsCounted'
<1>1. {c \in Conns : conn'[c] = "active"} = {c \in Conns : conn[c] = "active"}
  OBVIOUS
<1> QED
  BY <1>1 DEF RequestsCounted

LEMMA Closing ==
    ASSUME Shape, NEW g \in Runs
    PROVE  /\ CloseListener(g) \in [Runs -> {"none", "open", "closed"}]
           /\ CloseListener(g)[g] # "open"
           /\ \A h \in Runs : h # g => CloseListener(g)[h] = listener[h]
           /\ \A h \in Runs : CloseListener(g)[h] = "none" <=> listener[h] = "none"
  BY DEF Shape, CloseListener

LEMMA StartKeeps ==
    ASSUME IInv, Start
    PROVE  IInv'
<1>1. /\ ~running /\ run < MaxRuns /\ running' = TRUE /\ run' = run + 1
      /\ \A g \in Runs : listener[g] # "open"
      /\ listener' = [listener EXCEPT ![run'] = "open"]
      /\ serving' = serving \cup {run'}
      /\ monRunning' = (monRunning \/ Monitoring)
      /\ server' = server /\ ctxDone' = ctxDone /\ conn' = conn /\ connRun' = connRun
      /\ activeRequests' = activeRequests /\ stop' = stop /\ stopRun' = stopRun
      /\ stopChClosed' = stopChClosed /\ crashed' = crashed
  BY DEF Start, connVars, stopVars
<1>2. Shape /\ RequestsCounted /\ Started /\ Shuts /\ Listens
  BY DEF IInv
<1>3. run \in Nat /\ run' \in Runs /\ run' \in 0..MaxRuns /\ run' # 0 /\ run < run'
  BY <1>1, <1>2, HTTPAssumption DEF Shape, Runs
<1>4. Monitoring \in BOOLEAN
  BY HTTPAssumption
<1>5. Shape'
  BY <1>1, <1>2, <1>3, <1>4 DEF Shape
<1>6. /\ listener'[run'] = "open"
      /\ \A g \in Runs : g # run' => listener'[g] = listener[g]
  BY <1>1, <1>2, <1>3 DEF Shape
<1>7. Started'
  <2>1. \A g \in Runs : g > run' => g > run /\ g # run'
    BY <1>1, <1>3, RunsAreNumbers
  <2>2. \A g \in serving' : g <= run'
    <3>1. \A g \in serving : g \in Nat /\ g <= run
      BY <1>2, RunsAreNumbers DEF Shape, Started
    <3> QED
      BY <1>1, <1>3, <3>1
  <2>3. \A c \in Conns : conn[c] # "none" => connRun[c] \in 1..run'
    BY <1>1, <1>2, <1>3 DEF Started
  <2> QED
    BY <1>1, <1>2, <1>3, <1>6, <2>1, <2>2, <2>3 DEF Started
<1>8. RequestsCounted' /\ Shuts'
  BY <1>1, <1>2, SameCount DEF Shuts
<1>9. Listens'
  <2> SUFFICES ASSUME run' = 1
               PROVE  /\ listener'[1] = "open" /\ \A p \in StopCalls : stop[p] \in {"idle", "noop"}
                      /\ server[1] # "down"
    BY <1>1 DEF Listens
  <2>1. run = 0 /\ 1 \in Runs /\ 1 > 0
    BY <1>1, <1>3
  <2> QED
    BY <1>2, <1>6, <2>1 DEF Started
<1> QED
  BY <1>5, <1>7, <1>8, <1>9 DEF IInv

LEMMA ServeReturnsKeeps ==
    ASSUME IInv, NEW g \in Runs, ServeReturns(g)
    PROVE  IInv'
<1>1. /\ g \in serving /\ (listener[g] = "closed" \/ server[g] = "down")
      /\ serving' = serving \ {g} /\ running' = (running /\ server[g] = "down")
      /\ run' = run /\ listener' = listener /\ server' = server /\ ctxDone' = ctxDone
      /\ conn' = conn /\ connRun' = connRun /\ activeRequests' = activeRequests
      /\ stop' = stop /\ stopRun' = stopRun
      /\ monRunning' = monRunning /\ stopChClosed' = stopChClosed /\ crashed' = crashed
  BY DEF ServeReturns, connVars, stopVars, monitorVars
<1>2. Shape /\ RequestsCounted /\ Started /\ Shuts /\ Listens
  BY DEF IInv
<1>3. running' \in BOOLEAN /\ (running' => running)
  BY <1>1, <1>2 DEF Shape
<1>4. Shape'
  BY <1>1, <1>2, <1>3 DEF Shape
<1>5. Started'
  BY <1>1, <1>2, <1>3 DEF Started
<1>6. RequestsCounted' /\ Shuts'
  BY <1>1, <1>2, SameCount DEF Shuts
<1>7. Listens'
  <2>1. run = 1 => g = 1
    BY <1>1, <1>2, RunsAreNumbers DEF Started
  <2>2. run = 1 => listener[1] # "open"
    BY <1>1, <1>2, <2>1 DEF Listens
  <2> QED
    BY <1>1, <1>2, <1>3, <2>2 DEF Listens
<1> QED
  BY <1>4, <1>5, <1>6, <1>7 DEF IInv

LEMMA ContextDoneKeeps ==
    ASSUME IInv, NEW g \in Runs, ContextDone(g)
    PROVE  IInv'
<1>1. /\ ctxDone' = ctxDone \cup {g} /\ running' = running /\ run' = run
      /\ listener' = listener /\ server' = server /\ serving' = serving
      /\ conn' = conn /\ connRun' = connRun /\ activeRequests' = activeRequests
      /\ stop' = stop /\ stopRun' = stopRun
      /\ monRunning' = monRunning /\ stopChClosed' = stopChClosed /\ crashed' = crashed
  BY DEF ContextDone, runVars, connVars, stopVars, monitorVars
<1>2. Shape /\ RequestsCounted /\ Started /\ Shuts /\ Listens
  BY DEF IInv
<1>3. Shape'
  BY <1>1, <1>2 DEF Shape
<1>4. RequestsCounted' /\ Started' /\ Shuts' /\ Listens'
  BY <1>1, <1>2, SameCount DEF Started, Shuts, Listens
<1> QED
  BY <1>3, <1>4 DEF IInv

LEMMA StopKeeps ==
    ASSUME IInv, NEW p \in StopCalls, Stop(p)
    PROVE  IInv'
<1>1. /\ stop[p] = "idle" /\ running' = FALSE
      /\ stop' = [stop EXCEPT ![p] = IF running THEN "monitor" ELSE "noop"]
      /\ stopRun' = [stopRun EXCEPT ![p].began = run]
      /\ run' = run /\ listener' = listener /\ server' = server /\ serving' = serving
      /\ ctxDone' = ctxDone /\ conn' = conn /\ connRun' = connRun
      /\ activeRequests' = activeRequests
      /\ monRunning' = monRunning /\ stopChClosed' = stopChClosed /\ crashed' = crashed
  BY DEF Stop, connVars, monitorVars
<1>2. Shape /\ RequestsCounted /\ Started /\ Shuts /\ Listens
  BY DEF IInv
<1>3. /\ stop'[p] = IF running THEN "monitor" ELSE "noop"
      /\ \A q \in StopCalls : q # p => stop'[q] = stop[q] /\ stopRun'[q] = stopRun[q]
  BY <1>1, <1>2 DEF Shape
<1>4. Shape'
  <2>1. stop' \in [StopCalls -> StopStates]
    BY <1>1, <1>2 DEF Shape, StopStates
  <2>2. stopRun' \in [StopCalls -> [began : 0..MaxRuns, shuts : 0..MaxRuns]]
    BY <1>1, <1>2 DEF Shape
  <2> QED
    BY <1>1, <1>2, <2>1, <2>2 DEF Shape
<1>5. Started'
  BY <1>1, <1>2, <1>3 DEF Started
<1>6. RequestsCounted'
  BY <1>1, <1>2, SameCount
<1>7. Shuts'
  BY <1>1, <1>2, <1>3 DEF Shuts
<1>8. Listens'
  BY <1>1, <1>2, <1>3 DEF Listens
<1> QED
  BY <1>4, <1>5, <1>6, <1>7, <1>8 DEF IInv

\* The phases of a Stop that change nothing but where it is.
LEMMA PhaseKeeps ==
    ASSUME IInv, NEW p \in StopCalls, GracePeriodOver(p) \/ DrainOver(p)
    PROVE  IInv'
<1>1. /\ stop[p] \in {"grace", "drain"} /\ run' = run /\ running' = running
      /\ \E s \in {"drain", "server"} : stop' = [stop EXCEPT ![p] = s]
      /\ stopRun' = stopRun /\ listener' = listener /\ server' = server
      /\ serving' = serving /\ ctxDone' = ctxDone /\ conn' = conn /\ connRun' = connRun
      /\ activeRequests' = activeRequests
      /\ monRunning' = monRunning /\ stopChClosed' = stopChClosed /\ crashed' = crashed
  BY DEF GracePeriodOver, DrainOver, runVars, connVars, monitorVars
<1>2. Shape /\ RequestsCounted /\ Started /\ Shuts /\ Listens
  BY DEF IInv
<1>3. /\ stop'[p] \in {"drain", "server"} /\ stop' \in [StopCalls -> StopStates]
      /\ \A q \in StopCalls : q # p => stop'[q] = stop[q]
  BY <1>1, <1>2 DEF Shape, StopStates
<1>4. Shape'
  BY <1>1, <1>2, <1>3 DEF Shape
<1>5. Started' /\ Shuts'
  BY <1>1, <1>2, <1>3 DEF Started, Shuts
<1>6. RequestsCounted'
  BY <1>1, <1>2, SameCount
<1>7. Listens'
  BY <1>1, <1>2, <1>3 DEF Listens
<1> QED
  BY <1>4, <1>5, <1>6, <1>7 DEF IInv

LEMMA StopMonitorKeeps ==
    ASSUME IInv, NEW p \in StopCalls, StopMonitor(p)
    PROVE  IInv'
<1>1. /\ stop[p] = "monitor" /\ stop' = [stop EXCEPT ![p] = "listener"]
      /\ monRunning' = FALSE /\ stopChClosed' = (stopChClosed \/ monRunning)
      /\ crashed' = (monRunning /\ stopChClosed)
      /\ stopRun' = stopRun /\ run' = run /\ running' = running /\ listener' = listener
      /\ server' = server /\ serving' = serving /\ ctxDone' = ctxDone /\ conn' = conn
      /\ connRun' = connRun /\ activeRequests' = activeRequests
  BY DEF StopMonitor, runVars, connVars
<1>2. Shape /\ RequestsCounted /\ Started /\ Shuts /\ Listens
  BY DEF IInv
<1>3. /\ stop'[p] = "listener" /\ stop' \in [StopCalls -> StopStates]
      /\ \A q \in StopCalls : q # p => stop'[q] = stop[q]
  BY <1>1, <1>2 DEF Shape, StopStates
<1>4. Shape'
  BY <1>1, <1>2, <1>3 DEF Shape
<1>5. Started' /\ Shuts'
  BY <1>1, <1>2, <1>3 DEF Started, Shuts
<1>6. RequestsCounted'
  BY <1>1, <1>2, SameCount
<1>7. Listens'
  BY <1>1, <1>2, <1>3 DEF Listens
<1> QED
  BY <1>4, <1>5, <1>6, <1>7 DEF IInv

LEMMA StopListeningKeeps ==
    ASSUME IInv, NEW p \in StopCalls, StopListening(p)
    PROVE  IInv'
<1>1. /\ stop[p] = "listener" /\ stop' = [stop EXCEPT ![p] = "grace"]
      /\ listener' = CloseListener(run) /\ stopRun' = stopRun /\ run' = run
      /\ running' = running /\ server' = server /\ serving' = serving
      /\ ctxDone' = ctxDone /\ conn' = conn /\ connRun' = connRun
      /\ activeRequests' = activeRequests
      /\ monRunning' = monRunning /\ stopChClosed' = stopChClosed /\ crashed' = crashed
  BY DEF StopListening, connVars, monitorVars
<1>2. Shape /\ RequestsCounted /\ Started /\ Shuts /\ Listens
  BY DEF IInv
<1>3. /\ stop'[p] = "grace" /\ stop' \in [StopCalls -> StopStates]
      /\ \A q \in StopCalls : q # p => stop'[q] = stop[q]
  BY <1>1, <1>2 DEF Shape, StopStates
<1>4. run \in Runs
  BY <1>1, <1>2, RunsAreNumbers, HTTPAssumption DEF Started, Shape
<1>5. /\ listener' \in [Runs -> {"none", "open", "closed"}] /\ listener'[run] # "open"
      /\ \A g \in Runs : listener'[g] = "none" <=> listener[g] = "none"
  BY <1>1, <1>2, <1>4, Closing
<1>6. Shape'
  BY <1>1, <1>2, <1>3, <1>5 DEF Shape
<1>7. Started'
  BY <1>1, <1>2, <1>3, <1>5 DEF Started
<1>8. RequestsCounted' /\ Shuts'
  BY <1>1, <1>2, <1>3, SameCount DEF Shuts
<1>9. Listens'
  BY <1>1, <1>2, <1>3, <1>5 DEF Listens
<1> QED
  BY <1>6, <1>7, <1>8, <1>9 DEF IInv

\* server.Shutdown and server.Close of the current run, as the fields have it.
LEMMA ServerCloses ==
    ASSUME IInv, run # 0,
           server' = [server EXCEPT ![run] = "down"], listener' = CloseListener(run),
           conn' = [c \in Conns |-> IF connRun[c] = run /\ conn[c] = "idle"
                                    THEN "closed" ELSE conn[c]],
           activeRequests' = activeRequests
    PROVE  /\ run \in Runs /\ server'[run] = "down" /\ listener'[run] # "open"
           /\ server' \in [Runs -> {"up", "down"}]
           /\ listener' \in [Runs -> {"none", "open", "closed"}]
           /\ conn' \in [Conns -> {"none", "idle", "active", "closed"}]
           /\ \A g \in Runs : listener'[g] = "none" <=> listener[g] = "none"
           /\ \A g \in Runs : g # run => server'[g] = server[g]
           /\ \A c \in Conns : /\ conn'[c] = "active" <=> conn[c] = "active"
                               /\ conn'[c] = "idle" => conn[c] = "idle" /\ connRun[c] # run
                               /\ conn'[c] = "none" <=> conn[c] = "none"
           /\ RequestsCounted'
<1>1. Shape /\ run \in Runs /\ RequestsCounted
  BY RunsAreNumbers, HTTPAssumption DEF IInv, Shape
<1>2. /\ server'[run] = "down" /\ server' \in [Runs -> {"up", "down"}]
      /\ \A g \in Runs : g # run => server'[g] = server[g]
  BY <1>1 DEF Shape
<1>3. /\ listener'[run] # "open" /\ listener' \in [Runs -> {"none", "open", "closed"}]
      /\ \A g \in Runs : listener'[g] = "none" <=> listener[g] = "none"
  BY <1>1, Closing
<1>4. /\ conn' \in [Conns -> {"none", "idle", "active", "closed"}]
      /\ \A c \in Conns : /\ conn'[c] = "active" <=> conn[c] = "active"
                          /\ conn'[c] = "idle" => conn[c] = "idle" /\ connRun[c] # run
                          /\ conn'[c] = "none" <=> conn[c] = "none"
  BY <1>1 DEF Shape
<1> QED
  BY <1>1, <1>2, <1>3, <1>4, SameCount

LEMMA ShutdownServerKeeps ==
    ASSUME IInv, NEW p \in StopCalls, ShutdownServer(p)
    PROVE  IInv'
<1>1. /\ stop[p] = "server" /\ stop' = [stop EXCEPT ![p] = "waiting"]
      /\ stopRun' = [stopRun EXCEPT ![p].shuts = run]
      /\ server' = [server EXCEPT ![run] = "down"] /\ listener' = CloseListener(run)
      /\ conn' = [c \in Conns |-> IF connRun[c] = run /\ conn[c] = "idle"
                                  THEN "closed" ELSE conn[c]]
      /\ running' = running /\ run' = run /\ serving' = serving /\ ctxDone' = ctxDone
      /\ connRun' = connRun /\ activeRequests' = activeRequests
      /\ monRunning' = monRunning /\ stopChClosed' = stopChClosed /\ crashed' = crashed
  BY DEF ShutdownServer, monitorVars
<1>2. Shape /\ RequestsCounted /\ Started /\ Shuts /\ Listens
  BY DEF IInv
<1>3. run # 0
  BY <1>1, <1>2 DEF Started
<1>4. /\ run \in Runs /\ server'[run] = "down" /\ listener'[run] # "open"
      /\ server' \in [Runs -> {"up", "down"}]
      /\ listener' \in [Runs -> {"none", "open", "closed"}]
      /\ conn' \in [Conns -> {"none", "idle", "active", "closed"}]
      /\ \A g \in Runs : listener'[g] = "none" <=> listener[g] = "none"
      /\ \A g \in Runs : g # run => server'[g] = server[g]
      /\ \A c \in Conns : /\ conn'[c] = "active" <=> conn[c] = "active"
                          /\ conn'[c] = "idle" => conn[c] = "idle" /\ connRun[c] # run
                          /\ conn'[c] = "none" <=> conn[c] = "none"
      /\ RequestsCounted'
  BY <1>1, <1>3, ServerCloses
<1>5. /\ stop'[p] = "waiting" /\ stopRun'[p].shuts = run
      /\ \A q \in StopCalls : q # p => stop'[q] = stop[q] /\ stopRun'[q] = stopRun[q]
  BY <1>1, <1>2 DEF Shape
<1>6. Shape'
  <2>1. stop' \in [StopCalls -> StopStates]
    BY <1>1, <1>2 DEF Shape, StopStates
  <2>2. stopRun' \in [StopCalls -> [began : 0..MaxRuns, shuts : 0..MaxRuns]]
    BY <1>1, <1>2 DEF Shape
  <2> QED
    BY <1>1, <1>2, <1>4, <2>1, <2>2 DEF Shape
<1>7. Started'
  BY <1>1, <1>2, <1>3, <1>4, <1>5, RunsAreNumbers DEF Started, Shape
<1>8. Shuts'
  <2> SUFFICES ASSUME NEW q \in StopCalls, stop'[q] \in {"waiting", "ok"}
               PROVE  /\ stopRun'[q].shuts \in Runs /\ server'[stopRun'[q].shuts] = "down"
                      /\ \A c \in Conns : connRun[c] = stopRun'[q].shuts =>
                            conn'[c] # "idle" /\ (stop'[q] = "ok" => conn'[c] # "active")
    BY <1>1 DEF Shuts
  <2>1. CASE q = p
    BY <2>1, <1>4, <1>5
  <2>2. CASE q # p
    BY <2>2, <1>2, <1>4, <1>5 DEF Shuts
  <2> QED
    BY <2>1, <2>2
<1>9. Listens'
  BY <1>1, <1>2, <1>4 DEF Listens
<1> QED
  BY <1>4, <1>6, <1>7, <1>8, <1>9 DEF IInv

LEMMA StopReturnsKeeps ==
    ASSUME IInv, NEW p \in StopCalls, StopReturns(p)
    PROVE  IInv'
<1>1. PICK result \in {"ok", "error"} :
          /\ (\E c \in Conns : connRun[c] = stopRun[p].shuts /\ conn[c] = "active")
                => result = "error"
          /\ stop' = [stop EXCEPT ![p] = result]
  BY DEF StopReturns
<1>2. /\ stop[p] = "waiting" /\ stopRun' = stopRun /\ run' = run /\ running' = running
      /\ listener' = listener /\ server' = server /\ serving' = serving
      /\ ctxDone' = ctxDone /\ conn' = conn /\ connRun' = connRun
      /\ activeRequests' = activeRequests
      /\ monRunning' = monRunning /\ stopChClosed' = stopChClosed /\ crashed' = crashed
  BY DEF StopReturns, runVars, connVars, monitorVars
<1>3. Shape /\ RequestsCounted /\ Started /\ Shuts /\ Listens
  BY DEF IInv
<1>4. /\ stop'[p] = result /\ stop' \in [StopCalls -> StopStates]
      /\ \A q \in StopCalls : q # p => stop'[q] = stop[q]
  BY <1>1, <1>3 DEF Shape, StopStates
<1>5. Shape'
  BY <1>2, <1>3, <1>4 DEF Shape
<1>6. Started' /\ RequestsCounted'
  BY <1>2, <1>3, <1>4, SameCount DEF Started
<1>7. Shuts'
  BY <1>1, <1>2, <1>3, <1>4 DEF Shuts
<1>8. Listens'
  BY <1>2, <1>3, <1>4 DEF Listens
<1> QED
  BY <1>5, <1>6, <1>7, <1>8 DEF IInv

LEMMA ForceStopKeeps ==
    ASSUME IInv, ForceStop
    PROVE  IInv'
<1>1. /\ running /\ running' = FALSE
      /\ server' = [server EXCEPT ![run] = "down"] /\ listener' = CloseListener(run)
      /\ conn' = [c \in Conns |-> IF connRun[c] = run /\ conn[c] = "idle"
                                  THEN "closed" ELSE conn[c]]
      /\ run' = run /\ serving' = serving /\ ctxDone' = ctxDone /\ connRun' = connRun
      /\ activeRequests' = activeRequests /\ stop' = stop /\ stopRun' = stopRun
      /\ monRunning' = monRunning /\ stopChClosed' = stopChClosed /\ crashed' = crashed
  BY DEF ForceStop, stopVars, monitorVars
<1>2. Shape /\ RequestsCounted /\ Started /\ Shuts /\ Listens
  BY DEF IInv
<1>3. run # 0
  BY <1>1, <1>2 DEF Started
<1>4. /\ run \in Runs /\ server'[run] = "down" /\ listener'[run] # "open"
      /\ server' \in [Runs -> {"up", "down"}]
      /\ listener' \in [Runs -> {"none", "open", "closed"}]
      /\ conn' \in [Conns -> {"none", "idle", "active", "closed"}]
      /\ \A g \in Runs : listener'[g] = "none" <=> listener[g] = "none"
      /\ \A g \in Runs : g # run => server'[g] = server[g]
      /\ \A c \in Conns : /\ conn'[c] = "active" <=> conn[c] = "active"
                          /\ conn'[c] = "idle" => conn[c] = "idle" /\ connRun[c] # run
                          /\ conn'[c] = "none" <=> conn[c] = "none"
      /\ RequestsCounted'
  BY <1>1, <1>3, ServerCloses
<1>5. Shape'
  BY <1>1, <1>2, <1>4 DEF Shape
<1>6. Started'
  BY <1>1, <1>2, <1>3, <1>4, RunsAreNumbers DEF Started, Shape
<1>7. Shuts'
  <2> SUFFICES ASSUME NEW q \in StopCalls, stop[q] \in {"waiting", "ok"}
               PROVE  /\ stopRun[q].shuts \in Runs /\ server'[stopRun[q].shuts] = "down"
                      /\ \A c \in Conns : connRun[c] = stopRun[q].shuts =>
                            conn'[c] # "idle" /\ (stop[q] = "ok" => conn'[c] # "active")
    BY <1>1 DEF Shuts
  <2> QED
    BY <1>2, <1>4 DEF Shuts
<1>8. Listens'
  BY <1>1, <1>4 DEF Listens
<1> QED
  BY <1>4, <1>5, <1>6, <1>7, <1>8 DEF IInv

\* Only a server that is up takes connections and requests.
LEMMA AcceptKeeps ==
    ASSUME IInv, NEW c \in Conns, Accept(c)
    PROVE  IInv'
<1>1. PICK g \in serving : /\ listener[g] = "open" /\ server[g] = "up"
                           /\ connRun' = [connRun EXCEPT ![c] = g]
  BY DEF Accept
<1>2. /\ conn[c] = "none" /\ conn' = [conn EXCEPT ![c] = "idle"]
      /\ running' = running /\ run' = run /\ listener' = listener /\ server' = server
      /\ serving' = serving /\ ctxDone' = ctxDone /\ activeRequests' = activeRequests
      /\ stop' = stop /\ stopRun' = stopRun
      /\ monRunning' = monRunning /\ stopChClosed' = stopChClosed /\ crashed' = crashed
  BY DEF Accept, runVars, stopVars, monitorVars
<1>3. Shape /\ RequestsCounted /\ Started /\ Shuts /\ Listens
  BY DEF IInv
<1>4. g \in Runs /\ g \in 0..MaxRuns /\ g \in 1..run
  BY <1>1, <1>3, HTTPAssumption DEF Shape, Started, Runs
<1>5. /\ conn'[c] = "idle" /\ connRun'[c] = g
      /\ \A d \in Conns : d # c => conn'[d] = conn[d] /\ connRun'[d] = connRun[d]
  BY <1>1, <1>2, <1>3 DEF Shape
<1>6. Shape'
  BY <1>1, <1>2, <1>3, <1>4 DEF Shape
<1>7. Started'
  BY <1>2, <1>3, <1>4, <1>5 DEF Started
<1>8. RequestsCounted'
  BY <1>2, <1>3, <1>5, SameCount
<1>9. Shuts'
  BY <1>1, <1>2, <1>3, <1>5 DEF Shuts
<1>10. Listens'
  BY <1>2, <1>3 DEF Listens
<1> QED
  BY <1>6, <1>7, <1>8, <1>9, <1>10 DEF IInv

LEMMA BeginRequestKeeps ==
    ASSUME IInv, NEW c \in Conns, BeginRequest(c)
    PROVE  IInv'
<1>1. /\ conn[c] = "idle" /\ server[connRun[c]] = "up" /\ conn' = [conn EXCEPT ![c] = "active"]
      /\ activeRequests' = activeRequests + 1
      /\ running' = running /\ run' = run /\ listener' = listener /\ server' = server
      /\ serving' = serving /\ ctxDone' = ctxDone /\ connRun' = connRun
      /\ stop' = stop /\ stopRun' = stopRun
      /\ monRunning' = monRunning /\ stopChClosed' = stopChClosed /\ crashed' = crashed
  BY DEF BeginRequest, runVars, stopVars, monitorVars
<1>2. Shape /\ RequestsCounted /\ Started /\ Shuts /\ Listens
  BY DEF IInv
<1>3. conn'[c] = "active" /\ \A d \in Conns : d # c => conn'[d] = conn[d]
  BY <1>1, <1>2 DEF Shape
<1>4. Shape'
  BY <1>1, <1>2 DEF Shape
<1>5. RequestsCounted'
  <2>1. {d \in Conns : conn'[d] = "active"} = Active \cup {c} /\ c \notin Active
    BY <1>1, <1>3 DEF Active
  <2>2. Cardinality(Active \cup {c}) = Cardinality(Active) + 1
    BY <2>1, ActiveCounted, FS_AddElement
  <2> QED
    BY <1>1, <1>2, <2>1, <2>2 DEF RequestsCounted, Active
<1>6. Started' /\ Listens'
  BY <1>1, <1>2, <1>3 DEF Started, Listens
<1>7. Shuts'
  BY <1>1, <1>2, <1>3 DEF Shuts
<1> QED
  BY <1>4, <1>5, <1>6, <1>7 DEF IInv

LEMMA EndRequestKeeps ==
    ASSUME IInv, NEW c \in Conns, EndRequest(c)
    PROVE  IInv'
<1>1. /\ conn[c] = "active" /\ activeRequests' = activeRequests - 1
      /\ conn' = [conn EXCEPT ![c] = IF server[connRun[c]] = "up" THEN "idle" ELSE "closed"]
      /\ running' = running /\ run' = run /\ listener' = listener /\ server' = server
      /\ serving' = serving /\ ctxDone' = ctxDone /\ connRun' = connRun
      /\ stop' = stop /\ stopRun' = stopRun
      /\ monRunning' = monRunning /\ stopChClosed' = stopChClosed /\ crashed' = crashed
  BY DEF EndRequest, runVars, stopVars, monitorVars
<1>2. Shape /\ RequestsCounted /\ Started /\ Shuts /\ Listens
  BY DEF IInv
<1>3. /\ conn'[c] = IF server[connRun[c]] = "up" THEN "idle" ELSE "closed"
      /\ \A d \in Conns : d # c => conn'[d] = conn[d]
  BY <1>1, <1>2 DEF Shape
<1>4. Shape'
  BY <1>1, <1>2 DEF Shape
<1>5. RequestsCounted'
  <2>1. {d \in Conns : conn'[d] = "active"} = Active \ {c} /\ c \in Active
    BY <1>1, <1>3 DEF Active
  <2>2. Cardinality(Active \ {c}) = Cardinality(Active) - 1
    BY <2>1, ActiveCounted, FS_RemoveElement
  <2> QED
    BY <1>1, <1>2, <2>1, <2>2 DEF RequestsCounted, Active
<1>6. Started' /\ Listens'
  BY <1>1, <1>2, <1>3 DEF Started, Listens
<1>7. Shuts'
  BY <1>1, <1>2, <1>3 DEF Shuts
<1> QED
  BY <1>4, <1>5, <1>6, <1>7 DEF IInv

LEMMA Invariance == Spec => []IInv
<1>1. Init => IInv
  <2> SUFFICES ASSUME Init PROVE IInv
    OBVIOUS
  <2>1. Shape /\ Started /\ Shuts /\ Listens
    <3>1. 0 \in 0..MaxRuns
      BY HTTPAssumption
    <3>2. Shape
      BY <3>1 DEF Init, Shape, StopStates
    <3>3. Started /\ Shuts /\ Listens
      BY DEF Init, Started, Shuts, Listens
    <3> QED
      BY <3>2, <3>3
  <2>2. {c \in Conns : conn[c] = "active"} = {}
    BY DEF Init
  <2>3. RequestsCounted
    BY <2>2, FS_EmptySet DEF Init, RequestsCounted
  <2> QED
    BY <2>1, <2>3 DEF IInv
<1>2. IInv /\ [Next]_vars => IInv'
  <2> SUFFICES ASSUME IInv, [Next]_vars PROVE IInv'
    OBVIOUS
  <2>1. CASE UNCHANGED vars
    <3>1. /\ running' = running /\ run' = run /\ listener' = listener /\ server' = server
          /\ serving' = serving /\ ctxDone' = ctxDone /\ conn' = conn /\ connRun' = connRun
          /\ activeRequests' = activeRequests /\ stop' = stop /\ stopRun' = stopRun
          /\ monRunning' = monRunning /\ stopChClosed' = stopChClosed /\ crashed' = crashed
      BY <2>1 DEF vars, runVars, connVars, stopVars, monitorVars
    <3> QED
      BY <3>1 DEF IInv, Shape, RequestsCounted, Started, Shuts, Listens
  <2>2. CASE Next
    BY <2>2, StartKeeps, ForceStopKeeps, ServeReturnsKeeps, ContextDoneKeeps, StopKeeps,
       PhaseKeeps, StopMonitorKeeps, StopListeningKeeps, ShutdownServerKeeps, StopReturnsKeeps,
       AcceptKeeps, BeginRequestKeeps, EndRequestKeeps DEF Next, StopStep
  <2> QED
    BY <2>1, <2>2
<1> QED
  BY <1>1, <1>2, PTL DEF Spec

\* activeRequests is the number of requests inside handleRequest, over restarts,
\* forced stops and connections closed under them (HTTPTransport).
THEOREM RequestsStayCounted == Spec => [](TypeOK /\ RequestsCounted)
<1>1. IInv => TypeOK /\ RequestsCounted
  BY CountedMeans DEF IInv
<1> QED
  BY <1>1, Invariance, PTL

\* A Stop that returned nil leaves no connection of the run it set out to stop
\* open, unless a Start slipped in before it took up t.server
\* (HTTPTransport.GracefulShutdown).
THEOREM StopIsGraceful == Spec => []GracefulStop
<1>1. IInv => GracefulStop
  BY DEF IInv, Shuts, GracefulStop
<1> QED
  BY <1>1, Invariance, PTL

\* Until a restart, IsRunning is right whenever no Stop is at work and no Serve
\* about to return (HTTPTransport.IsRunning).
THEOREM RunningToldRight == Spec => []IsRunningAccurate
<1>1. IInv => IsRunningAccurate
  <2> SUFFICES ASSUME IInv, run <= 1, Quiet
               PROVE  running <=> \E g \in Runs : listener[g] = "open"
    BY DEF IsRunningAccurate
  <2>1. run \in Nat /\ \A g \in Runs : g \in Nat /\ g # 0
    BY RunsAreNumbers, HTTPAssumption DEF IInv, Shape
  <2>2. CASE run = 0
    <3>1. ~running /\ \A g \in Runs : listener[g] # "open"
      BY <2>1, <2>2 DEF IInv, Started
    <3> QED
      BY <3>1
  <2>3. CASE run = 1
    <3>1. 1 \in Runs /\ \A g \in Runs : g # 1 => listener[g] # "open"
      BY <2>1, <2>3, RunsAreNumbers, HTTPAssumption DEF IInv, Shape, Started
    <3>2. ~running => listener[1] # "open"
      BY <2>3 DEF IInv, Listens, Quiet
    <3> QED
      BY <2>3, <3>1, <3>2 DEF IInv, Listens
  <2> QED
    BY <2>1, <2>2, <2>3
<1> QED
  BY <1>1, Invariance, PTL

\* All of it, over any number of restarts: what is checked of the HTTP transport
\* (HTTPTransport.Start, GracefulShutdown, ForceStop and handleRequest).
THEOREM HTTPStops == Spec => []HTTPStopsGracefully
<1>1. TypeOK /\ RequestsCounted /\ GracefulStop /\ IsRunningAccurate => HTTPStopsGracefully
  BY DEF HTTPStopsGracefully
<1> QED
  BY <1>1, RequestsStayCounted, StopIsGraceful, RunningToldRight, PTL

-----------------------------------------------------------------------------
(***************************************************************************)
(* The SSE transport.  What it has in common with the HTTP transport goes  *)
(* by the same names here: a theorem is about one of them.                 *)
(***************************************************************************)
CONSTANTS Senders, MaxStarts, MaxClients, EventBufferSize, BroadcastCap, MaxSends
VARIABLES started, listening, up, clients, doneClosed, queued, broadcast, handler,
          sender, farewell, fault

SSE == INSTANCE SSETransport

SSEOptions ==
    /\ IsFiniteSet(Senders) /\ MaxStarts \in Nat /\ MaxSends \in Nat
    /\ EventBufferSize \in Nat /\ BroadcastCap \in Nat

SSEInside == {c \in Conns : conn[c] \in SSE!Inside}

ServerShape ==
    /\ running \in BOOLEAN /\ run \in 0..MaxStarts /\ started \in 0..MaxStarts
    /\ listening \subseteq SSE!Starts /\ serving \subseteq SSE!Starts /\ up \subseteq SSE!Starts
    /\ stop \in [SSE!StopCalls -> {"idle", "noop", "listener", "grace", "farewell", "drain",
                                   "close", "clients", "server", "waiting", "ok", "error"}]

ConnShape ==
    /\ conn \in [Conns -> SSE!Inside \cup {"none", "open", "closed"}]
    /\ connRun \in [Conns -> 0..MaxStarts]
    /\ clients \subseteq Conns /\ doneClosed \subseteq Conns

EventShape ==
    /\ queued \in [Conns -> 0..EventBufferSize]
    /\ broadcast \in [queued : 0..BroadcastCap, closed : BOOLEAN, made : 0..MaxSends]
    /\ handler \in [SSE!Starts -> [at : {"none", "receive", "send", "ended"},
                                   targets : SUBSET Conns]]
    /\ sender \in [Senders -> [at : {"idle", "holds", "sent", "full", "panic"},
                               app : BOOLEAN, client : SUBSET Conns]]
    /\ farewell \subseteq Conns
    /\ fault \in {"none", "done", "broadcast", "closed broadcast", "events"}

HandlersCounted == activeRequests = Cardinality(SSEInside)

\* A client enters the map once, and is told to leave when it is taken out of it.
Places ==
    /\ \A c \in Conns : conn[c] \in SSE!Registered => c \in clients \cup doneClosed
    /\ \A c \in clients : conn[c] \in SSE!Registered
    /\ \A c \in doneClosed : conn[c] \in SSE!Registered \cup {"removed", "closed"}
    /\ clients \cap doneClosed = {}
    /\ fault # "done"

\* Up to a restart one call of Stop, or of ForceStop, takes the transport down.
Under(p) == stop[p] \notin {"idle", "noop"}
FirstRun == started \in {0, 1} =>
    /\ running \/ started = 0 => ~broadcast.closed /\ \A p \in SSE!StopCalls : ~Under(p)
    /\ \A p, q \in SSE!StopCalls : Under(p) /\ Under(q) => p = q
    /\ broadcast.closed => \A p \in SSE!StopCalls :
          stop[p] \notin {"listener", "grace", "farewell", "drain", "close"}
    /\ fault # "broadcast"
    /\ started = 0 => ~running

SSEInv == ServerShape /\ ConnShape /\ EventShape /\ HandlersCounted /\ Places /\ FirstRun

LEMMA InsideCounted == IsFiniteSet(SSEInside) /\ Cardinality(SSEInside) \in Nat
<1>1. IsFiniteSet(SSEInside)
  BY HTTPAssumption, FS_Subset DEF SSEInside
<1> QED
  BY <1>1, FS_CardinalityType

LEMMA SameInside ==
    ASSUME HandlersCounted, activeRequests' = activeRequests,
           \A c \in Conns : conn'[c] \in SSE!Inside <=> conn[c] \in SSE!Inside
    PROVE  HandlersCounted'
<1>1. {c \in Conns : conn'[c] \in SSE!Inside} = {c \in Conns : conn[c] \in SSE!Inside}
  OBVIOUS
<1> QED
  BY <1>1 DEF HandlersCounted, SSEInside

LEMMA OneMoreInside ==
    ASSUME HandlersCounted, ConnShape, NEW c \in Conns, NEW v \in SSE!Inside,
           conn[c] \notin SSE!Inside, conn' = [conn EXCEPT ![c] = v],
           activeRequests' = activeRequests + 1
    PROVE  HandlersCounted'
<1>1. {d \in Conns : conn'[d] \in SSE!Inside} = {d \in Conns : conn[d] \in SSE!Inside} \cup {c}
  BY DEF ConnShape
<1>2. c \notin SSEInside
  BY DEF SSEInside
<1>3. Cardinality(SSEInside \cup {c}) = Cardinality(SSEInside) + 1
  BY <1>2, InsideCounted, FS_AddElement
<1> QED
  BY <1>1, <1>3 DEF HandlersCounted, SSEInside

LEMMA OneLessInside ==
    ASSUME HandlersCounted, ConnShape, NEW c \in Conns,
           conn[c] \in SSE!Inside, conn' = [conn EXCEPT ![c] = "closed"],
           activeRequests' = activeRequests - 1
    PROVE  HandlersCounted'
<1>1. {d \in Conns : conn'[d] \in SSE!Inside} = {d \in Conns : conn[d] \in SSE!Inside} \ {c}
  BY DEF ConnShape, SSE!Inside, SSE!Registered
<1>2. c \in SSEInside
  BY DEF SSEInside
<1>3. Cardinality(SSEInside \ {c}) = Cardinality(SSEInside) - 1
  BY <1>2, InsideCounted, FS_RemoveElement
<1> QED
  BY <1>1, <1>3 DEF HandlersCounted, SSEInside

\* Steps of a connection: the rest of the transport stays as it is.
LEMMA ConnectionKept ==
    ASSUME ServerShape, EventShape, FirstRun, UNCHANGED <<SSE!serverVars, stop>>,
           UNCHANGED <<SSE!castVars, sender, farewell, fault>>,
           queued' \in [Conns -> 0..EventBufferSize]
    PROVE  ServerShape' /\ EventShape' /\ FirstRun'
<1> USE DEF SSE!serverVars, SSE!castVars
<1>1. ServerShape'
  BY DEF ServerShape
<1>2. EventShape'
  BY DEF EventShape
<1>3. FirstRun'
  BY DEF FirstRun, Under
<1> QED
  BY <1>1, <1>2, <1>3

LEMMA HandleKeeps ==
    ASSUME SSEOptions, SSEInv, NEW c \in Conns,
           SSE!Accept(c) \/ SSE!Enter(c) \/ SSE!Handle(c) \/ SSE!ClientGone(c)
    PROVE  SSEInv'
<1>0. ServerShape /\ ConnShape /\ EventShape /\ HandlersCounted /\ Places /\ FirstRun
  BY DEF SSEInv
<1>1. CASE SSE!Accept(c)
  <2> USE <1>1 DEF SSE!Accept
  <2>1. PICK g \in serving \cap listening \cap up : connRun' = [connRun EXCEPT ![c] = g]
    OBVIOUS
  <2>2. g \in 0..MaxStarts
    BY <1>0, <2>1 DEF ServerShape, SSE!Starts, SSEOptions
  <2>3. ConnShape'
    BY <1>0, <2>1, <2>2 DEF ConnShape
  <2>4. conn' = [conn EXCEPT ![c] = "open"] /\ conn[c] = "none"
    OBVIOUS
  <2>5. \A d \in Conns : conn'[d] = conn[d] \/ (d = c /\ conn'[d] = "open")
    BY <1>0, <2>4 DEF ConnShape
  <2>6. HandlersCounted'
    BY <1>0, <2>4, <2>5, SameInside DEF SSE!Inside, SSE!Registered
  <2>7. Places'
    BY <1>0, <2>4, <2>5 DEF Places, ConnShape, SSE!Registered
  <2>8. ServerShape' /\ EventShape' /\ FirstRun'
    BY <1>0, ConnectionKept DEF EventShape
  <2> QED
    BY <2>3, <2>6, <2>7, <2>8 DEF SSEInv
<1>2. CASE SSE!Enter(c)
  <2> USE <1>2 DEF SSE!Enter
  <2>1. ConnShape'
    BY <1>0 DEF ConnShape, SSE!Inside
  <2>2. HandlersCounted'
    BY <1>0, OneMoreInside DEF SSE!Inside, SSE!Registered
  <2>3. \A d \in Conns : conn'[d] = conn[d] \/ (d = c /\ conn'[d] = "entered")
    BY <1>0 DEF ConnShape
  <2>4. Places'
    BY <1>0, <2>3 DEF Places, ConnShape, SSE!Registered
  <2>5. ServerShape' /\ EventShape' /\ FirstRun'
    BY <1>0, ConnectionKept DEF EventShape
  <2> QED
    BY <2>1, <2>2, <2>4, <2>5 DEF SSEInv
<1>3. ASSUME conn[c] \in SSE!Inside, SSE!Leave(c), UNCHANGED <<clients, doneClosed, fault>>,
             connRun' = connRun, conn[c] \in {"entered", "removed"}
      PROVE  ConnShape' /\ HandlersCounted' /\ Places'
  <2> USE <1>3 DEF SSE!Leave
  <2>1. ConnShape'
    BY <1>0 DEF ConnShape
  <2>2. HandlersCounted'
    BY <1>0, OneLessInside
  <2>3. \A d \in Conns : conn'[d] = conn[d] \/ (d = c /\ conn'[d] = "closed")
    BY <1>0 DEF ConnShape
  <2>4. Places'
    BY <1>0, <2>3 DEF Places, ConnShape, SSE!Registered
  <2> QED
    BY <2>1, <2>2, <2>4
<1>4. CASE SSE!Register(c)
  <2>1. /\ conn[c] = "entered" /\ connRun' = connRun /\ doneClosed' = doneClosed
        /\ queued' = queued /\ fault' = fault
    BY <1>4 DEF SSE!Register
  <2>2. ServerShape' /\ EventShape' /\ FirstRun'
    BY <1>0, <1>4, ConnectionKept DEF SSE!Register, EventShape
  <2>3. CASE SSE!Leave(c) /\ clients' = clients
    BY <1>3, <2>1, <2>2, <2>3 DEF SSEInv, SSE!Inside
  <2>4. CASE /\ conn' = [conn EXCEPT ![c] = "registered"]
             /\ clients' = clients \cup {c} /\ activeRequests' = activeRequests
    <3>1. ConnShape'
      BY <1>0, <2>1, <2>4 DEF ConnShape, SSE!Inside, SSE!Registered
    <3>2. \A d \in Conns : conn'[d] = conn[d] \/ (d = c /\ conn'[d] = "registered")
      BY <1>0, <2>4 DEF ConnShape
    <3>3. HandlersCounted'
      BY <1>0, <2>1, <2>4, <3>2, SameInside DEF SSE!Inside, SSE!Registered
    <3>4. conn'[c] = "registered"
      BY <1>0, <2>4 DEF ConnShape
    <3>5. c \notin clients /\ c \notin doneClosed
      BY <1>0, <2>1 DEF Places, SSE!Registered
    <3>6. Places'
      BY <1>0, <2>1, <2>4, <3>2, <3>4, <3>5 DEF Places, ConnShape, SSE!Registered
    <3> QED
      BY <2>2, <3>1, <3>3, <3>6 DEF SSEInv
  <2> QED
    BY <1>4, <2>3, <2>4 DEF SSE!Register
<1>5. CASE SSE!Greet(c) \/ SSE!WriteEvent(c) \/ SSE!ClientGone(c)
  <2>1. PICK v \in {"serving", "leaving"} :
            /\ conn' = [conn EXCEPT ![c] = v] \/ conn' = conn
            /\ conn[c] \in {"registered", "serving"}
    BY <1>5 DEF SSE!Greet, SSE!WriteEvent, SSE!ClientGone
  <2>2. /\ connRun' = connRun /\ doneClosed' = doneClosed /\ clients' = clients
        /\ activeRequests' = activeRequests /\ fault' = fault
        /\ UNCHANGED <<SSE!serverVars, SSE!castVars, sender, farewell, stop>>
    BY <1>5 DEF SSE!Greet, SSE!WriteEvent, SSE!ClientGone
  <2>3. queued' \in [Conns -> 0..EventBufferSize]
    <3>1. queued[c] \in 0..EventBufferSize /\ EventBufferSize \in Nat
      BY <1>0 DEF EventShape, SSEOptions
    <3>2. CASE SSE!Greet(c)
      <4>1. PICK events \in 1..2 :
                queued' = [queued EXCEPT ![c] = IF @ + events > EventBufferSize
                                                THEN EventBufferSize ELSE @ + events]
        BY <3>2 DEF SSE!Greet
      <4>2. (IF queued[c] + events > EventBufferSize
             THEN EventBufferSize ELSE queued[c] + events) \in 0..EventBufferSize
        BY <3>1
      <4> QED
        BY <1>0, <4>1, <4>2 DEF EventShape
    <3>3. CASE SSE!WriteEvent(c)
      <4>1. queued[c] > 0 /\ queued' = [queued EXCEPT ![c] = queued[c] - 1]
        BY <1>0, <3>3 DEF SSE!WriteEvent, EventShape
      <4>2. queued[c] - 1 \in 0..EventBufferSize
        BY <3>1, <4>1
      <4> QED
        BY <1>0, <4>1, <4>2 DEF EventShape
    <3>4. CASE SSE!ClientGone(c)
      BY <1>0, <3>4 DEF SSE!ClientGone, EventShape
    <3> QED
      BY <1>5, <3>2, <3>3, <3>4
  <2>4. \A d \in Conns : conn'[d] = conn[d] \/ (d = c /\ conn'[d] = v)
    BY <1>0, <2>1 DEF ConnShape
  <2>5. ConnShape'
    BY <1>0, <2>1, <2>2 DEF ConnShape, SSE!Inside, SSE!Registered
  <2>6. HandlersCounted'
    BY <1>0, <2>1, <2>2, <2>4, SameInside DEF SSE!Inside, SSE!Registered
  <2>7. Places'
    BY <1>0, <2>1, <2>2, <2>4 DEF Places, ConnShape, SSE!Registered
  <2>8. ServerShape' /\ EventShape' /\ FirstRun'
    BY <1>0, <2>2, <2>3, ConnectionKept
  <2> QED
    BY <2>5, <2>6, <2>7, <2>8 DEF SSEInv
<1>6. CASE SSE!Unregister(c)
  <2> USE <1>6 DEF SSE!Unregister
  <2>1. ConnShape'
    BY <1>0 DEF ConnShape, SSE!Inside
  <2>2. \A d \in Conns : \/ d # c /\ conn'[d] = conn[d]
                         \/ d = c /\ conn'[d] = "removed" /\ conn[d] = "leaving"
    BY <1>0 DEF ConnShape
  <2>3. HandlersCounted'
    BY <1>0, <2>2, SameInside DEF SSE!Inside, SSE!Registered
  <2>4. Places'
    BY <1>0, <2>2 DEF Places, ConnShape, SSE!Registered
  <2>5. ServerShape' /\ EventShape' /\ FirstRun'
    BY <1>0, ConnectionKept DEF EventShape
  <2> QED
    BY <2>1, <2>3, <2>4, <2>5 DEF SSEInv
<1>7. CASE SSE!CloseEvents(c)
  <2>1. ServerShape' /\ EventShape' /\ FirstRun'
    BY <1>0, <1>7, ConnectionKept DEF EventShape, SSE!CloseEvents
  <2>2. ConnShape' /\ HandlersCounted' /\ Places'
    BY <1>3, <1>7 DEF SSE!CloseEvents, SSE!Inside
  <2> QED
    BY <2>1, <2>2 DEF SSEInv
<1> QED
  BY <1>1, <1>2, <1>4, <1>5, <1>6, <1>7 DEF SSE!Handle, SSE!ToldToLeave

\* Steps that send events: clients stay where they are, and the only panics
\* are those of a send on a closed channel.
LEMMA EventsKept ==
    ASSUME ServerShape, ConnShape, HandlersCounted, Places, FirstRun,
           UNCHANGED <<SSE!serverVars, stop, conn, connRun, clients, doneClosed>>,
           activeRequests' = activeRequests, broadcast'.closed = broadcast.closed,
           fault' \in {fault, "events", "closed broadcast"}
    PROVE  ServerShape' /\ ConnShape' /\ HandlersCounted' /\ Places' /\ FirstRun'
<1> USE DEF SSE!serverVars
<1>1. ServerShape' /\ ConnShape'
  BY DEF ServerShape, ConnShape
<1>2. HandlersCounted'
  BY SameInside
<1>3. Places'
  BY DEF Places
<1>4. FirstRun'
  <2>1. fault' # "broadcast" \/ fault' = fault
    OBVIOUS
  <2> QED
    BY <2>1 DEF FirstRun, Under
<1> QED
  BY <1>1, <1>2, <1>3, <1>4

LEMMA Offering ==
    ASSUME SSEOptions, EventShape, NEW c \in Conns, SSE!Offer(c)
    PROVE  queued' \in [Conns -> 0..EventBufferSize]
<1>1. queued[c] \in 0..EventBufferSize /\ EventBufferSize \in Nat
  BY DEF EventShape, SSEOptions
<1>2. (IF queued[c] < EventBufferSize THEN queued[c] + 1 ELSE queued[c]) \in 0..EventBufferSize
  BY <1>1
<1>3. queued' = [queued EXCEPT ![c] = IF queued[c] < EventBufferSize
                                      THEN queued[c] + 1 ELSE queued[c]]
  BY DEF SSE!Offer, EventShape
<1> QED
  BY <1>2, <1>3 DEF EventShape

LEMMA SameCardinality == ASSUME NEW S PROVE SSE!Cardinality(S) = Cardinality(S)
  BY DEF SSE!Cardinality, Cardinality

LEMMA SendersCounted ==
    ASSUME SSEOptions, EventShape, SSE!Sends < MaxSends
    PROVE  broadcast.made < MaxSends
<1> DEFINE busy == {x \in Senders : sender[x].at # "idle"}
<1>1. Cardinality(busy) \in Nat
  BY FS_Subset, FS_CardinalityType DEF SSEOptions
<1>2. SSE!Sends = broadcast.made + Cardinality(busy)
  BY SameCardinality DEF SSE!Sends
<1> HIDE DEF busy
<1>3. broadcast.made \in 0..MaxSends
  BY DEF EventShape
<1> QED
  BY <1>1, <1>2, <1>3 DEF SSEOptions

LEMMA SendKeeps ==
    ASSUME SSEOptions, SSEInv,
           \/ \E x \in Senders, c \in Conns, app \in BOOLEAN : SSE!LookUp(x, app, c)
           \/ \E x \in Senders : SSE!Send(x)
           \/ SSE!BroadcastEvent
           \/ \E h \in SSE!Starts : SSE!TakeBroadcast(h) \/ SSE!Deliver(h)
           \/ \E c \in Conns : SSE!Disconnect(c)
    PROVE  SSEInv'
<1>0. ServerShape /\ ConnShape /\ EventShape /\ HandlersCounted /\ Places /\ FirstRun
  BY DEF SSEInv
<1> USE DEF SSE!clientVars, SSE!castVars
<1>1. ASSUME NEW x \in Senders, NEW c \in Conns, NEW app \in BOOLEAN, SSE!LookUp(x, app, c)
      PROVE  SSEInv'
  <2> USE <1>1 DEF SSE!LookUp
  <2>1. EventShape'
    BY <1>0 DEF EventShape
  <2>2. ServerShape' /\ ConnShape' /\ HandlersCounted' /\ Places' /\ FirstRun'
    BY <1>0, EventsKept
  <2> QED
    BY <2>1, <2>2 DEF SSEInv
<1>2. ASSUME NEW x \in Senders, SSE!Send(x)
      PROVE  SSEInv'
  <2>1. PICK c \in sender[x].client :
            IF SSE!EventsClosed(c)
            THEN /\ sender' = [sender EXCEPT ![x].at = "panic"]
                 /\ IF sender[x].app THEN SSE!Panic("events") ELSE UNCHANGED fault
                 /\ UNCHANGED queued
            ELSE /\ SSE!Offer(c)
                 /\ sender' = [sender EXCEPT ![x].at =
                                  IF queued[c] < EventBufferSize THEN "sent" ELSE "full"]
                 /\ UNCHANGED fault
    BY <1>2 DEF SSE!Send
  <2>2. c \in Conns
    BY <1>0, <2>1 DEF EventShape
  <2>3. queued' \in [Conns -> 0..EventBufferSize]
    BY <1>0, <2>1, <2>2, Offering DEF EventShape
  <2>4. fault' \in {fault, "events"}
    BY <2>1 DEF SSE!Panic
  <2>5. PICK at \in {"panic", "sent", "full"} : sender' = [sender EXCEPT ![x].at = at]
    BY <2>1
  <2>6. sender' \in [Senders -> [at : {"idle", "holds", "sent", "full", "panic"},
                                 app : BOOLEAN, client : SUBSET Conns]]
    BY <1>0, <2>5 DEF EventShape
  <2>7. broadcast' = broadcast /\ handler' = handler /\ farewell' = farewell
    BY <1>2 DEF SSE!Send
  <2>8. EventShape'
    BY <1>0, <2>3, <2>4, <2>6, <2>7 DEF EventShape
  <2>9. ServerShape' /\ ConnShape' /\ HandlersCounted' /\ Places' /\ FirstRun'
    BY <1>0, <1>2, <2>4, <2>7, EventsKept DEF SSE!Send
  <2> QED
    BY <2>8, <2>9 DEF SSEInv
<1>3. CASE SSE!BroadcastEvent
  <2>1. /\ SSE!Sends < MaxSends /\ queued' = queued /\ handler' = handler
        /\ sender' = sender /\ farewell' = farewell
    BY <1>3 DEF SSE!BroadcastEvent
  <2>2. CASE broadcast.closed
    <3>1. broadcast' = broadcast /\ fault' \in {fault, "closed broadcast"}
      BY <1>3, <2>2 DEF SSE!BroadcastEvent, SSE!Panic
    <3>2. EventShape'
      BY <1>0, <2>1, <3>1 DEF EventShape
    <3>3. ServerShape' /\ ConnShape' /\ HandlersCounted' /\ Places' /\ FirstRun'
      BY <1>0, <1>3, <3>1, EventsKept DEF SSE!BroadcastEvent
    <3> QED
      BY <3>2, <3>3 DEF SSEInv
  <2>3. CASE ~broadcast.closed
    <3> DEFINE more == IF broadcast.queued < BroadcastCap THEN broadcast.queued + 1
                                                          ELSE broadcast.queued
    <3>1. /\ broadcast' = [broadcast EXCEPT !.made = @ + 1, !.queued = more]
          /\ fault' = fault
      BY <1>3, <2>3 DEF SSE!BroadcastEvent
    <3>2. /\ broadcast.made \in 0..MaxSends /\ broadcast.queued \in 0..BroadcastCap
          /\ broadcast.made < MaxSends /\ MaxSends \in Nat /\ BroadcastCap \in Nat
          /\ broadcast \in [queued : 0..BroadcastCap, closed : BOOLEAN, made : 0..MaxSends]
      BY <1>0, <2>1, SendersCounted DEF EventShape, SSEOptions
    <3>3. broadcast.made + 1 \in 0..MaxSends /\ more \in 0..BroadcastCap
      BY <3>2
    <3> HIDE DEF more
    <3>4. /\ broadcast' \in [queued : 0..BroadcastCap, closed : BOOLEAN, made : 0..MaxSends]
          /\ broadcast'.closed = broadcast.closed
      BY <3>1, <3>2, <3>3
    <3>5. EventShape'
      BY <1>0, <2>1, <3>1, <3>4 DEF EventShape
    <3>6. ServerShape' /\ ConnShape' /\ HandlersCounted' /\ Places' /\ FirstRun'
      BY <1>0, <1>3, <3>1, <3>4, EventsKept DEF SSE!BroadcastEvent
    <3> QED
      BY <3>5, <3>6 DEF SSEInv
  <2> QED
    BY <2>2, <2>3
<1>4. ASSUME NEW h \in SSE!Starts, SSE!TakeBroadcast(h)
      PROVE  SSEInv'
  <2>1. /\ queued' = queued /\ fault' = fault /\ sender' = sender /\ farewell' = farewell
        /\ \/ /\ broadcast.queued > 0
              /\ broadcast' = [broadcast EXCEPT !.queued = @ - 1]
              /\ handler' = [handler EXCEPT ![h] = [at |-> "send", targets |-> clients]]
           \/ /\ broadcast' = broadcast
              /\ handler' = [handler EXCEPT ![h].at = "ended"]
    BY <1>4 DEF SSE!TakeBroadcast
  <2>2. /\ broadcast' \in [queued : 0..BroadcastCap, closed : BOOLEAN, made : 0..MaxSends]
        /\ broadcast'.closed = broadcast.closed
    <3>1. /\ broadcast \in [queued : 0..BroadcastCap, closed : BOOLEAN, made : 0..MaxSends]
          /\ broadcast.queued \in 0..BroadcastCap /\ BroadcastCap \in Nat
      BY <1>0 DEF EventShape, SSEOptions
    <3>2. broadcast.queued > 0 => broadcast.queued - 1 \in 0..BroadcastCap
      BY <3>1
    <3> QED
      BY <2>1, <3>1, <3>2
  <2>3. handler' \in [SSE!Starts -> [at : {"none", "receive", "send", "ended"},
                                     targets : SUBSET Conns]]
    <3>1. CASE handler' = [handler EXCEPT ![h] = [at |-> "send", targets |-> clients]]
      BY <1>0, <3>1 DEF EventShape, ConnShape
    <3>2. CASE handler' = [handler EXCEPT ![h].at = "ended"]
      BY <1>0, <3>2 DEF EventShape
    <3> QED
      BY <2>1, <3>1, <3>2
  <2>4. EventShape'
    BY <1>0, <2>1, <2>2, <2>3 DEF EventShape
  <2>5. ServerShape' /\ ConnShape' /\ HandlersCounted' /\ Places' /\ FirstRun'
    BY <1>0, <1>4, <2>2, EventsKept DEF SSE!TakeBroadcast
  <2> QED
    BY <2>4, <2>5 DEF SSEInv
<1>5. ASSUME NEW h \in SSE!Starts, SSE!Deliver(h)
      PROVE  SSEInv'
  <2>1. /\ broadcast' = broadcast /\ sender' = sender /\ farewell' = farewell
        /\ \/ /\ handler' = [handler EXCEPT ![h].at = "receive"]
              /\ UNCHANGED <<queued, fault>>
           \/ \E c \in handler[h].targets :
                 /\ handler' = [handler EXCEPT ![h].targets = @ \ {c}]
                 /\ IF SSE!EventsClosed(c) THEN SSE!Panic("events") /\ UNCHANGED queued
                                           ELSE SSE!Offer(c) /\ UNCHANGED fault
    BY <1>5 DEF SSE!Deliver
  <2>2. handler[h].targets \subseteq Conns
    BY <1>0 DEF EventShape
  <2>3. queued' \in [Conns -> 0..EventBufferSize]
    BY <1>0, <2>1, <2>2, Offering DEF EventShape
  <2>4. fault' \in {fault, "events"}
    BY <2>1 DEF SSE!Panic
  <2>5. handler' \in [SSE!Starts -> [at : {"none", "receive", "send", "ended"},
                                     targets : SUBSET Conns]]
    <3>1. CASE handler' = [handler EXCEPT ![h].at = "receive"]
      BY <1>0, <3>1 DEF EventShape
    <3>2. ASSUME NEW c, handler' = [handler EXCEPT ![h].targets = @ \ {c}]
          PROVE  handler' \in [SSE!Starts -> [at : {"none", "receive", "send", "ended"},
                                              targets : SUBSET Conns]]
      BY <1>0, <3>2 DEF EventShape
    <3> QED
      BY <2>1, <3>1, <3>2
  <2>6. EventShape'
    BY <1>0, <2>1, <2>3, <2>4, <2>5 DEF EventShape
  <2>7. ServerShape' /\ ConnShape' /\ HandlersCounted' /\ Places' /\ FirstRun'
    BY <1>0, <1>5, <2>1, <2>4, EventsKept DEF SSE!Deliver
  <2> QED
    BY <2>6, <2>7 DEF SSEInv
<1>6. ASSUME NEW c \in Conns, SSE!Disconnect(c)
      PROVE  SSEInv'
  <2>1. /\ farewell' = farewell \ {c} /\ broadcast' = broadcast /\ handler' = handler
        /\ sender' = sender
        /\ IF SSE!EventsClosed(c) THEN SSE!Panic("events") /\ UNCHANGED queued
                                  ELSE SSE!Offer(c) /\ UNCHANGED fault
    BY <1>6 DEF SSE!Disconnect
  <2>2. queued' \in [Conns -> 0..EventBufferSize]
    BY <1>0, <2>1, Offering DEF EventShape
  <2>3. fault' \in {fault, "events"}
    BY <2>1 DEF SSE!Panic
  <2>4. EventShape'
    BY <1>0, <2>1, <2>2, <2>3 DEF EventShape
  <2>5. ServerShape' /\ ConnShape' /\ HandlersCounted' /\ Places' /\ FirstRun'
    BY <1>0, <1>6, <2>1, <2>3, EventsKept DEF SSE!Disconnect
  <2> QED
    BY <2>4, <2>5 DEF SSEInv
<1> QED
  BY <1>1, <1>2, <1>3, <1>4, <1>5, <1>6

LEMMA SSEStartKeeps ==
    ASSUME SSEOptions, SSEInv, SSE!Start
    PROVE  SSEInv'
<1>0. ServerShape /\ ConnShape /\ EventShape /\ HandlersCounted /\ Places /\ FirstRun
  BY DEF SSEInv
<1>1. /\ ~running /\ started < MaxStarts /\ started' = started + 1
      /\ handler' = [handler EXCEPT ![started'].at = "receive"]
      /\ UNCHANGED <<SSE!clientVars, broadcast, sender, farewell, stop, fault>>
  BY DEF SSE!Start
<1>2. started \in Nat /\ started' \in SSE!Starts /\ started' \in 0..MaxStarts /\ started' # 0
  BY <1>0, <1>1 DEF SSEOptions, ServerShape, SSE!Starts
<1>3. ServerShape'
  <2>1. CASE running' = FALSE /\ UNCHANGED <<run, listening, serving, up>>
    BY <1>0, <1>1, <1>2, <2>1 DEF ServerShape
  <2>2. CASE /\ running' = TRUE /\ run' = started' /\ listening' = {run'}
             /\ serving' = serving \cup {run'} /\ up' = up \cup {run'}
    BY <1>0, <1>1, <1>2, <2>2 DEF ServerShape
  <2> QED
    BY <2>1, <2>2 DEF SSE!Start
<1>4. ConnShape' /\ HandlersCounted' /\ Places'
  <2>1. ConnShape' /\ Places'
    BY <1>0, <1>1 DEF ConnShape, Places, SSE!clientVars
  <2>2. HandlersCounted'
    BY <1>0, <1>1, SameInside DEF SSE!clientVars
  <2> QED
    BY <2>1, <2>2
<1>5. EventShape'
  <2>1. handler' \in [SSE!Starts -> [at : {"none", "receive", "send", "ended"},
                                     targets : SUBSET Conns]]
    <3>1. PICK h \in SSE!Starts : h = started'
      BY <1>2
    <3>2. handler' = [handler EXCEPT ![h].at = "receive"]
      BY <1>1, <3>1
    <3> QED
      BY <1>0, <3>2 DEF EventShape
  <2> QED
    BY <1>0, <1>1, <2>1 DEF EventShape, SSE!clientVars
<1>6. FirstRun'
  <2> SUFFICES ASSUME started' \in {0, 1} PROVE FirstRun'
    BY DEF FirstRun
  <2>1. started = 0
    BY <1>1, <1>2
  <2>2. ~broadcast.closed /\ \A p \in SSE!StopCalls : ~Under(p)
    BY <1>0, <2>1 DEF FirstRun
  <2>3. fault # "broadcast"
    BY <1>0, <2>1 DEF FirstRun
  <2> QED
    BY <1>1, <1>2, <2>2, <2>3 DEF FirstRun, Under
<1> QED
  BY <1>3, <1>4, <1>5, <1>6 DEF SSEInv

LEMMA SSEServeReturnsKeeps ==
    ASSUME SSEInv, NEW g \in SSE!Starts, SSE!ServeReturns(g)
    PROVE  SSEInv'
<1>0. ServerShape /\ ConnShape /\ EventShape /\ HandlersCounted /\ Places /\ FirstRun
  BY DEF SSEInv
<1>1. /\ serving' = serving \ {g} /\ running' = (running /\ g \notin up)
      /\ run' = run /\ started' = started /\ listening' = listening /\ up' = up
      /\ UNCHANGED <<SSE!clientVars, SSE!castVars, sender, farewell, stop, fault>>
  BY DEF SSE!ServeReturns
<1>2. running' => running
  BY <1>1
<1>3. running' \in BOOLEAN
  BY ONLY <1>1
<1>4. ServerShape'
  BY <1>0, <1>1, <1>3 DEF ServerShape
<1>5. ConnShape' /\ EventShape' /\ Places'
  BY <1>0, <1>1 DEF ConnShape, EventShape, Places, SSE!clientVars, SSE!castVars
<1>6. HandlersCounted'
  BY <1>0, <1>1, SameInside DEF SSE!clientVars
<1>7. FirstRun'
  <2>1. UNCHANGED <<started, broadcast, stop, fault>>
    BY <1>1 DEF SSE!castVars
  <2> QED
    BY <1>0, <1>2, <2>1 DEF FirstRun, Under
<1> QED
  BY <1>4, <1>5, <1>6, <1>7 DEF SSEInv

\* Closing what the map holds tells nobody twice.
LEMMA CloseAllKeeps ==
    ASSUME Places, ConnShape, SSE!CloseAll, conn' = conn, connRun' = connRun
    PROVE  ConnShape' /\ Places' /\ fault' = fault
<1>1. /\ doneClosed' = doneClosed \cup clients /\ clients' = {} /\ fault' = fault
  BY DEF SSE!CloseAll, Places
<1>2. ConnShape'
  BY <1>1 DEF ConnShape
<1>3. Places'
  BY <1>1 DEF Places
<1> QED
  BY <1>1, <1>2, <1>3

\* The server closes the connections that carry no request.
LEMMA IdleClosed ==
    ASSUME ConnShape, NEW at, at \subseteq {c \in Conns : conn[c] = "open"},
           conn' = [c \in Conns |-> IF c \in at THEN "closed" ELSE conn[c]]
    PROVE  /\ conn' \in [Conns -> SSE!Inside \cup {"none", "open", "closed"}]
           /\ \A c \in Conns : conn'[c] \in SSE!Inside <=> conn[c] \in SSE!Inside
           /\ \A c \in Conns : conn'[c] = conn[c] \/ (conn[c] = "open" /\ conn'[c] = "closed")
<1>1. \A c \in Conns : conn'[c] = IF c \in at THEN "closed" ELSE conn[c]
  OBVIOUS
<1>2. \A c \in Conns : c \in at => conn[c] = "open"
  OBVIOUS
<1>3. \A c \in Conns : conn'[c] = conn[c] \/ (conn[c] = "open" /\ conn'[c] = "closed")
  BY <1>1, <1>2
<1>4. \A c \in Conns : conn'[c] \in SSE!Inside <=> conn[c] \in SSE!Inside
  BY <1>3 DEF SSE!Inside, SSE!Registered
<1>5. \A c \in Conns : conn'[c] \in SSE!Inside \cup {"none", "open", "closed"}
  BY <1>3 DEF ConnShape
<1> QED
  BY <1>3, <1>4, <1>5

\* One call of Stop goes from one of its steps to a later one.
LEMMA StopMoves ==
    ASSUME ServerShape, FirstRun, NEW p \in SSE!StopCalls,
           NEW from \in {"listener", "grace", "farewell", "drain", "close", "clients",
                         "server", "waiting"},
           NEW to \in {"grace", "farewell", "drain", "close", "clients", "server",
                       "waiting", "ok", "error"},
           SSE!Go(p, from, to), running' = running, started' = started, fault' = fault,
           broadcast'.closed = broadcast.closed,
           from \in {"clients", "server", "waiting"} => to \in {"server", "waiting", "ok", "error"}
    PROVE  /\ FirstRun'
           /\ stop' \in [SSE!StopCalls -> {"idle", "noop", "listener", "grace", "farewell",
                              "drain", "close", "clients", "server", "waiting", "ok", "error"}]
<1>1. stop[p] = from /\ stop' = [stop EXCEPT ![p] = to]
  BY DEF SSE!Go
<1>2. stop' \in [SSE!StopCalls -> {"idle", "noop", "listener", "grace", "farewell",
                              "drain", "close", "clients", "server", "waiting", "ok", "error"}]
  BY <1>1 DEF ServerShape
<1>3. stop'[p] = to /\ \A q \in SSE!StopCalls : q # p => stop'[q] = stop[q]
  BY <1>1 DEF ServerShape
<1>4. \A q \in SSE!StopCalls : Under(q)' <=> Under(q)
  BY <1>1, <1>3 DEF Under
<1>5. ASSUME started \in {0, 1}, broadcast.closed
      PROVE  \A q \in SSE!StopCalls :
                stop'[q] \notin {"listener", "grace", "farewell", "drain", "close"}
  <2>1. stop[p] \notin {"listener", "grace", "farewell", "drain", "close"}
    BY <1>5 DEF FirstRun
  <2>2. to \in {"server", "waiting", "ok", "error"}
    BY <1>1, <2>1
  <2> QED
    BY <1>3, <1>5, <2>2 DEF FirstRun
<1>6. FirstRun'
  BY <1>4, <1>5 DEF FirstRun
<1> QED
  BY <1>2, <1>6

LEMMA SSEStopKeeps ==
    ASSUME SSEOptions, SSEInv, NEW p \in SSE!StopCalls, SSE!Stop(p)
    PROVE  SSEInv'
<1>0. ServerShape /\ ConnShape /\ EventShape /\ HandlersCounted /\ Places /\ FirstRun
  BY DEF SSEInv
<1>1. /\ stop[p] = "idle" /\ running' = FALSE
      /\ stop' = [stop EXCEPT ![p] = IF running THEN "listener" ELSE "noop"]
      /\ UNCHANGED <<run, started, listening, serving, up, SSE!clientVars, SSE!castVars,
                     sender, farewell, fault>>
  BY DEF SSE!Stop, SSE!Go
<1>2. ServerShape'
  BY <1>0, <1>1 DEF ServerShape
<1>3. ConnShape' /\ EventShape' /\ Places'
  BY <1>0, <1>1 DEF ConnShape, EventShape, Places, SSE!clientVars, SSE!castVars
<1>4. HandlersCounted'
  BY <1>0, <1>1, SameInside DEF SSE!clientVars
<1>5. FirstRun'
  <2> SUFFICES ASSUME started \in {0, 1} PROVE FirstRun'
    BY <1>1 DEF FirstRun
  <2>0. started' = started /\ broadcast' = broadcast /\ fault' = fault
    BY <1>1 DEF SSE!castVars
  <2>1. /\ stop'[p] = (IF running THEN "listener" ELSE "noop")
        /\ \A q \in SSE!StopCalls : q # p => stop'[q] = stop[q]
    BY <1>0, <1>1 DEF ServerShape
  <2>2. CASE running
    <3>1. ~broadcast.closed /\ started # 0 /\ \A q \in SSE!StopCalls : ~Under(q)
      BY <1>0, <2>2 DEF FirstRun
    <3>2. \A q \in SSE!StopCalls : q # p => ~Under(q)'
      BY <2>1, <3>1 DEF Under
    <3> QED
      BY <1>0, <1>1, <2>0, <3>1, <3>2 DEF FirstRun
  <2>3. CASE ~running
    <3>1. stop'[p] = "noop" /\ ~Under(p)
      BY <1>1, <2>1, <2>3 DEF Under
    <3>2. \A q \in SSE!StopCalls : Under(q)' <=> Under(q)
      BY <2>1, <3>1 DEF Under
    <3>3. broadcast.closed => \A q \in SSE!StopCalls :
             stop'[q] \notin {"listener", "grace", "farewell", "drain", "close"}
      BY <1>0, <2>1, <3>1 DEF FirstRun
    <3> QED
      BY <1>0, <1>1, <2>0, <3>2, <3>3 DEF FirstRun
  <2> QED
    BY <2>2, <2>3
<1> QED
  BY <1>2, <1>3, <1>4, <1>5 DEF SSEInv

LEMMA SSEStopStepKeeps ==
    ASSUME SSEOptions, SSEInv, NEW p \in SSE!StopCalls, SSE!StopStep(p)
    PROVE  SSEInv'
<1>0. ServerShape /\ ConnShape /\ EventShape /\ HandlersCounted /\ Places /\ FirstRun
  BY DEF SSEInv
<1> USE DEF SSE!clientVars, SSE!castVars, SSE!serverVars
<1>1. CASE SSE!CloseListener(p)
  <2> USE <1>1 DEF SSE!CloseListener
  <2>1. ConnShape' /\ EventShape' /\ Places'
    BY <1>0 DEF ConnShape, EventShape, Places
  <2>2. HandlersCounted'
    BY <1>0, SameInside
  <2>3. FirstRun' /\ stop' \in [SSE!StopCalls -> {"idle", "noop", "listener", "grace", "farewell",
                              "drain", "close", "clients", "server", "waiting", "ok", "error"}]
    BY <1>0, StopMoves
  <2>4. ServerShape'
    BY <1>0, <2>3 DEF ServerShape
  <2> QED
    BY <2>1, <2>2, <2>3, <2>4 DEF SSEInv
<1>2. CASE SSE!SendDisconnectEvents(p)
  <2> USE <1>2 DEF SSE!SendDisconnectEvents
  <2>1. ConnShape' /\ Places'
    BY <1>0 DEF ConnShape, Places
  <2>2. EventShape'
    BY <1>0 DEF ConnShape, EventShape
  <2>3. HandlersCounted'
    BY <1>0, SameInside
  <2>4. FirstRun' /\ stop' \in [SSE!StopCalls -> {"idle", "noop", "listener", "grace", "farewell",
                              "drain", "close", "clients", "server", "waiting", "ok", "error"}]
    BY <1>0, StopMoves
  <2>5. ServerShape'
    BY <1>0, <2>4 DEF ServerShape
  <2> QED
    BY <2>1, <2>2, <2>3, <2>4, <2>5 DEF SSEInv
<1>3. CASE SSE!FarewellOver(p) \/ SSE!StopReturns(p)
  <2>1. /\ UNCHANGED <<SSE!serverVars, SSE!clientVars, SSE!castVars, sender, farewell, fault>>
        /\ \/ SSE!Go(p, "farewell", "drain")
           \/ SSE!Go(p, "waiting", "ok") \/ SSE!Go(p, "waiting", "error")
    BY <1>3 DEF SSE!FarewellOver, SSE!StopReturns
  <2>2. ConnShape' /\ EventShape' /\ Places'
    BY <1>0, <2>1 DEF ConnShape, EventShape, Places
  <2>3. HandlersCounted'
    BY <1>0, <2>1, SameInside
  <2>4. FirstRun' /\ stop' \in [SSE!StopCalls -> {"idle", "noop", "listener", "grace", "farewell",
                              "drain", "close", "clients", "server", "waiting", "ok", "error"}]
    BY <1>0, <2>1, StopMoves
  <2>5. ServerShape'
    BY <1>0, <2>1, <2>4 DEF ServerShape
  <2> QED
    BY <2>2, <2>3, <2>4, <2>5 DEF SSEInv
<1>4. CASE SSE!Drain(p) \/ SSE!CloseClients(p)
  <2>1. /\ SSE!Go(p, "drain", "close") \/ SSE!Go(p, "clients", "server")
        /\ SSE!CloseAll
        /\ UNCHANGED <<SSE!serverVars, conn, connRun, queued, activeRequests, SSE!castVars,
                       sender, farewell>>
    BY <1>4 DEF SSE!Drain, SSE!CloseClients
  <2>2. ConnShape' /\ Places' /\ fault' = fault
    BY <1>0, <2>1, CloseAllKeeps
  <2>3. EventShape'
    BY <1>0, <2>1, <2>2 DEF EventShape
  <2>4. HandlersCounted'
    BY <1>0, <2>1, SameInside
  <2>5. FirstRun' /\ stop' \in [SSE!StopCalls -> {"idle", "noop", "listener", "grace", "farewell",
                              "drain", "close", "clients", "server", "waiting", "ok", "error"}]
    BY <1>0, <2>1, <2>2, StopMoves
  <2>6. ServerShape'
    BY <1>0, <2>1, <2>5 DEF ServerShape
  <2> QED
    BY <2>2, <2>3, <2>4, <2>5, <2>6 DEF SSEInv
<1>5. CASE SSE!CloseBroadcast(p)
  <2>1. /\ stop[p] = "close" /\ stop' = [stop EXCEPT ![p] = "clients"]
        /\ broadcast' = [broadcast EXCEPT !.closed = TRUE]
        /\ IF broadcast.closed THEN SSE!Panic("broadcast") ELSE UNCHANGED fault
        /\ UNCHANGED <<SSE!serverVars, SSE!clientVars, handler, sender, farewell>>
    BY <1>5 DEF SSE!CloseBroadcast, SSE!Go
  <2>2. fault' \in {fault, "broadcast"}
    BY <2>1 DEF SSE!Panic
  <2>3. ConnShape' /\ ServerShape'
    BY <1>0, <2>1 DEF ConnShape, ServerShape
  <2>4. HandlersCounted'
    BY <1>0, <2>1, SameInside
  <2>5. Places'
    BY <1>0, <2>1, <2>2 DEF Places
  <2>6. broadcast' \in [queued : 0..BroadcastCap, closed : BOOLEAN, made : 0..MaxSends]
    BY <1>0, <2>1 DEF EventShape
  <2>7. EventShape'
    BY <1>0, <2>1, <2>2, <2>6 DEF EventShape
  <2>8. FirstRun'
    <3> SUFFICES ASSUME started \in {0, 1} PROVE FirstRun'
      BY <2>1 DEF FirstRun
    <3>1. ~broadcast.closed /\ Under(p)
      BY <1>0, <2>1 DEF FirstRun, Under
    <3>2. fault' = fault /\ running' = running /\ started' = started
      BY <2>1, <3>1
    <3>3. ~running /\ started # 0
      BY <1>0, <3>1 DEF FirstRun
    <3>4. /\ stop'[p] = "clients" /\ \A q \in SSE!StopCalls : q # p => stop'[q] = stop[q]
      BY <1>0, <2>1 DEF ServerShape
    <3>5. \A q \in SSE!StopCalls : Under(q) => q = p
      BY <1>0, <3>1 DEF FirstRun
    <3>6. \A q \in SSE!StopCalls : Under(q)' => q = p
      BY <3>4, <3>5 DEF Under
    <3>7. \A q \in SSE!StopCalls :
             stop'[q] \notin {"listener", "grace", "farewell", "drain", "close"}
      BY <3>4, <3>5 DEF Under
    <3> QED
      BY <1>0, <3>2, <3>3, <3>6, <3>7 DEF FirstRun
  <2> QED
    BY <2>3, <2>4, <2>5, <2>7, <2>8 DEF SSEInv
<1>6. CASE SSE!ShutdownServer(p)
  <2> DEFINE at == {c \in Conns : conn[c] = "open" /\ connRun[c] = run}
  <2>1. /\ SSE!Go(p, "server", "waiting")
        /\ up' = up \ {run} /\ listening' = listening \ {run}
        /\ conn' = [c \in Conns |-> IF c \in at THEN "closed" ELSE conn[c]]
        /\ UNCHANGED <<running, run, started, serving, connRun, clients, doneClosed,
                       queued, activeRequests, SSE!castVars, sender, farewell, fault>>
    BY <1>6 DEF SSE!ShutdownServer
  <2>2. at \subseteq {c \in Conns : conn[c] = "open"}
    OBVIOUS
  <2> HIDE DEF at
  <2>3. /\ conn' \in [Conns -> SSE!Inside \cup {"none", "open", "closed"}]
        /\ \A c \in Conns : conn'[c] \in SSE!Inside <=> conn[c] \in SSE!Inside
        /\ \A c \in Conns : conn'[c] = conn[c] \/ (conn[c] = "open" /\ conn'[c] = "closed")
    BY <1>0, <2>1, <2>2, IdleClosed
  <2>4. ConnShape'
    BY <1>0, <2>1, <2>3 DEF ConnShape
  <2>5. HandlersCounted'
    BY <1>0, <2>1, <2>3, SameInside
  <2>6. Places'
    BY <1>0, <2>1, <2>3 DEF Places, ConnShape, SSE!Registered
  <2>7. EventShape'
    BY <1>0, <2>1 DEF EventShape
  <2>8. FirstRun' /\ stop' \in [SSE!StopCalls -> {"idle", "noop", "listener", "grace", "farewell",
                              "drain", "close", "clients", "server", "waiting", "ok", "error"}]
    BY <1>0, <2>1, StopMoves
  <2>9. ServerShape'
    BY <1>0, <2>1, <2>8 DEF ServerShape
  <2> QED
    BY <2>4, <2>5, <2>6, <2>7, <2>8, <2>9 DEF SSEInv
<1> QED
  BY <1>1, <1>2, <1>3, <1>4, <1>5, <1>6 DEF SSE!StopStep

LEMMA SSEForceStopKeeps ==
    ASSUME SSEOptions, SSEInv, SSE!ForceStop
    PROVE  SSEInv'
<1>0. ServerShape /\ ConnShape /\ EventShape /\ HandlersCounted /\ Places /\ FirstRun
  BY DEF SSEInv
<1> USE DEF SSE!castVars
<1> DEFINE at == {c \in Conns : conn[c] = "open" /\ connRun[c] = run}
<1>1. /\ running /\ running' = FALSE
      /\ broadcast' = [broadcast EXCEPT !.closed = TRUE]
      /\ up' = up \ {run} /\ listening' = listening \ {run}
      /\ conn' = [c \in Conns |-> IF c \in at THEN "closed" ELSE conn[c]]
      /\ UNCHANGED <<run, started, serving, connRun, queued, activeRequests, handler,
                     sender, farewell, stop>>
      /\ IF broadcast.closed
         THEN SSE!Panic("broadcast") /\ UNCHANGED <<clients, doneClosed>>
         ELSE SSE!CloseAll
  BY DEF SSE!ForceStop
<1>2. at \subseteq {c \in Conns : conn[c] = "open"}
  OBVIOUS
<1> HIDE DEF at
<1>3. /\ conn' \in [Conns -> SSE!Inside \cup {"none", "open", "closed"}]
      /\ \A c \in Conns : conn'[c] \in SSE!Inside <=> conn[c] \in SSE!Inside
      /\ \A c \in Conns : conn'[c] = conn[c] \/ (conn[c] = "open" /\ conn'[c] = "closed")
  BY <1>0, <1>1, <1>2, IdleClosed
<1>4. \/ broadcast.closed /\ fault' \in {fault, "broadcast"} /\ UNCHANGED <<clients, doneClosed>>
      \/ /\ ~broadcast.closed /\ fault' = fault
         /\ doneClosed' = doneClosed \cup clients /\ clients' = {}
  BY <1>0, <1>1 DEF SSE!Panic, SSE!CloseAll, Places
<1>5. ConnShape'
  BY <1>0, <1>1, <1>3, <1>4 DEF ConnShape
<1>6. Places'
  <2>1. CASE broadcast.closed
    BY <1>0, <1>3, <1>4, <2>1 DEF Places, ConnShape, SSE!Registered
  <2>2. CASE ~broadcast.closed
    BY <1>0, <1>3, <1>4, <2>2 DEF Places, ConnShape, SSE!Registered
  <2> QED
    BY <2>1, <2>2
<1>7. HandlersCounted'
  BY <1>0, <1>1, <1>3, SameInside
<1>8. ServerShape'
  BY <1>0, <1>1 DEF ServerShape
<1>9. EventShape'
  <2>1. broadcast' \in [queued : 0..BroadcastCap, closed : BOOLEAN, made : 0..MaxSends]
    BY <1>0, <1>1 DEF EventShape
  <2>2. fault' \in {fault, "broadcast"}
    BY <1>4
  <2> QED
    BY <1>0, <1>1, <2>1, <2>2 DEF EventShape
<1>10. FirstRun'
  <2> SUFFICES ASSUME started \in {0, 1} PROVE FirstRun'
    BY <1>1 DEF FirstRun
  <2>1. ~broadcast.closed /\ started # 0 /\ \A q \in SSE!StopCalls : ~Under(q)
    BY <1>0, <1>1 DEF FirstRun
  <2>2. fault' = fault /\ fault # "broadcast"
    BY <1>0, <1>4, <2>1 DEF FirstRun
  <2> QED
    BY <1>1, <2>1, <2>2 DEF FirstRun, Under
<1> QED
  BY <1>5, <1>6, <1>7, <1>8, <1>9, <1>10 DEF SSEInv

LEMMA SSEInvariance == ASSUME SSEOptions PROVE SSE!Spec => []SSEInv
<1>1. SSE!Init => SSEInv
  <2> SUFFICES ASSUME SSE!Init PROVE SSEInv
    OBVIOUS
  <2> USE DEF SSE!Init
  <2>1. ServerShape /\ ConnShape
    <3>1. 0 \in 0..MaxStarts
      BY DEF SSEOptions
    <3>2. ServerShape
      BY <3>1 DEF ServerShape
    <3>3. ConnShape
      BY <3>1 DEF ConnShape
    <3> QED
      BY <3>2, <3>3
  <2>2. EventShape
    BY DEF EventShape, SSEOptions
  <2>3. SSEInside = {}
    BY DEF SSEInside, SSE!Inside, SSE!Registered
  <2>4. HandlersCounted
    BY <2>3, FS_EmptySet DEF HandlersCounted
  <2>5. Places
    BY DEF Places, SSE!Registered
  <2>6. FirstRun
    BY DEF FirstRun, Under
  <2> QED
    BY <2>1, <2>2, <2>4, <2>5, <2>6 DEF SSEInv
<1>2. SSEInv /\ [SSE!Next]_(SSE!vars) => SSEInv'
  <2> SUFFICES ASSUME SSEInv, [SSE!Next]_(SSE!vars) PROVE SSEInv'
    OBVIOUS
  <2>1. CASE UNCHANGED SSE!vars
    <3> USE <2>1 DEF SSE!vars, SSE!serverVars, SSE!clientVars, SSE!castVars
    <3>1. ServerShape' /\ ConnShape' /\ EventShape'
      BY DEF SSEInv, ServerShape, ConnShape, EventShape
    <3>2. HandlersCounted'
      BY SameInside DEF SSEInv
    <3>3. Places' /\ FirstRun'
      BY DEF SSEInv, Places, FirstRun, Under
    <3> QED
      BY <3>1, <3>2, <3>3 DEF SSEInv
  <2>2. CASE SSE!Next
    BY <2>2, SSEStartKeeps, SSEForceStopKeeps, SendKeeps, HandleKeeps, SSEServeReturnsKeeps,
       SSEStopKeeps, SSEStopStepKeeps DEF SSE!Next
  <2> QED
    BY <2>1, <2>2
<1> QED
  BY <1>1, <1>2, PTL DEF SSE!Spec

(* A client that is served and was not told to leave is in the map, none is *)
(* told twice, the broadcast channel is closed twice only after a restart,  *)
(* and handlers stay counted, for any number of clients, of senders, of     *)
(* starts and of concurrent calls of Stop (transport/sse.go).               *)
THEOREM SSEClientsReleased ==
    ASSUME SSEOptions
    PROVE  SSE!Spec => [](SSE!TypeOK /\ SSE!ClientsReleasedOnce)
<1>1. SSEInv => SSE!TypeOK /\ SSE!ClientsReleasedOnce
  <2> SUFFICES ASSUME SSEInv PROVE SSE!TypeOK /\ SSE!ClientsReleasedOnce
    OBVIOUS
  <2>0. ServerShape /\ ConnShape /\ EventShape /\ HandlersCounted /\ Places /\ FirstRun
    BY DEF SSEInv
  <2>1. activeRequests \in Nat
    BY <2>0, InsideCounted DEF HandlersCounted
  <2>2. UNION {listening, serving, up} \subseteq SSE!Starts
    BY <2>0 DEF ServerShape
  <2>3. SSE!TypeOK
    BY <2>0, <2>1, <2>2 DEF ServerShape, ConnShape, EventShape, SSE!TypeOK
  <2>4. fault = "broadcast" => started > 1
    BY <2>0 DEF FirstRun, ServerShape, SSEOptions
  <2>5. activeRequests = SSE!Cardinality({c \in Conns : conn[c] \in SSE!Inside})
    BY <2>0, SameCardinality DEF HandlersCounted, SSEInside
  <2> QED
    BY <2>0, <2>3, <2>4, <2>5 DEF Places, SSE!ClientsReleasedOnce
<1>2. SSE!Spec => []SSEInv
  BY SSEInvariance
<1> QED
  BY <1>1, <1>2, PTL

-----------------------------------------------------------------------------
(***************************************************************************)
(* The WebSocket transport, with the names it shares with the others.      *)
(***************************************************************************)
VARIABLES link, linkRun, main, reader, connections, tracked, counter, writers, cast

WS == INSTANCE WebSocketTransport

WSTracking == {"upgraded", "registered", "looping", "pinging", "leaving"}
Handled == {c \in Conns : main[c] \in WS!Handling}

WSServerShape ==
    /\ running \in BOOLEAN /\ run \in 0..MaxRuns
    /\ listening \subseteq Runs /\ serving \subseteq Runs /\ up \subseteq Runs

WSConnShape ==
    /\ link \in [Conns -> {"none", "open", "closed"}] /\ linkRun \in [Conns -> 0..MaxRuns]
    /\ main \in [Conns -> WS!Handling \cup {"none", "upgraded", "registered", "gone"}]
    /\ reader \in [Conns -> {"none", "reading", "handling", "answering", "ended"}]

WSWriteShape ==
    /\ writers \in [Conns -> SUBSET WS!Writer]
    /\ cast \in [busy : BOOLEAN, left : SUBSET Conns]
    /\ fault \in BOOLEAN

MapShape ==
    connections \subseteq Conns /\ tracked \subseteq Conns \X Nat /\ counter \in Nat

HandlingCounted == activeRequests = Cardinality(Handled)

\* A connection stays in the map from its registration until it is closed or
\* leaves; it is served only after it was accepted.
InMap ==
    /\ \A c \in Conns : main[c] \in {"registered", "looping", "pinging"} /\ link[c] = "open"
                            => c \in connections
    /\ \A c \in Conns : link[c] = "none" => main[c] = "none" /\ c \notin connections

\* The tracker's ids come from a counter that only goes up.
InTracker ==
    /\ \A t \in tracked : main[t[1]] \in WSTracking /\ t[2] <= counter
    /\ \A c \in Conns : main[c] \in WSTracking => \E t \in tracked : t[1] = c
    /\ \A t, u \in tracked : t[2] = u[2] => t = u

WSInv == /\ WSServerShape /\ WSConnShape /\ WSWriteShape /\ MapShape
         /\ HandlingCounted /\ InMap /\ InTracker

LEMMA SameCardinalityWS == ASSUME NEW S PROVE WS!Cardinality(S) = Cardinality(S)
  BY DEF WS!Cardinality, Cardinality

LEMMA HandledCounted == IsFiniteSet(Handled) /\ Cardinality(Handled) \in Nat
<1>1. IsFiniteSet(Handled)
  BY HTTPAssumption, FS_Subset DEF Handled
<1> QED
  BY <1>1, FS_CardinalityType

LEMMA SameHandled ==
    ASSUME HandlingCounted, activeRequests' = activeRequests,
           \A c \in Conns : main'[c] \in WS!Handling <=> main[c] \in WS!Handling
    PROVE  HandlingCounted'
<1>1. {c \in Conns : main'[c] \in WS!Handling} = {c \in Conns : main[c] \in WS!Handling}
  OBVIOUS
<1> QED
  BY <1>1 DEF HandlingCounted, Handled

\* Steps that leave the connections' goroutines, the map and the tracker alone.
LEMMA MapKept ==
    ASSUME MapShape, HandlingCounted, InMap, InTracker, main' = main, link' = link,
           connections' = connections, tracked' = tracked, counter' = counter,
           activeRequests' = activeRequests
    PROVE  MapShape' /\ HandlingCounted' /\ InMap' /\ InTracker'
<1>1. MapShape' /\ InMap'
  BY DEF MapShape, InMap
<1>2. InTracker'
  BY DEF InTracker
<1>3. HandlingCounted'
  BY SameHandled
<1> QED
  BY <1>1, <1>2, <1>3

\* Links are closed, and every connection taken out of the map with them.
LEMMA LinksClosed ==
    ASSUME WSConnShape, MapShape, HandlingCounted, InMap, InTracker, main' = main,
           tracked' = tracked, counter' = counter, activeRequests' = activeRequests,
           linkRun' = linkRun, reader' = reader, connections' \in {connections, {}},
           NEW shut, shut \subseteq {c \in Conns : link[c] # "none"},
           connections' = {} => connections \subseteq shut,
           link' = [c \in Conns |-> IF c \in shut THEN "closed" ELSE link[c]]
    PROVE  WSConnShape' /\ MapShape' /\ HandlingCounted' /\ InMap' /\ InTracker'
<1>1. \A c \in Conns : \/ c \notin shut /\ link'[c] = link[c]
                       \/ c \in shut /\ link'[c] = "closed" /\ link[c] # "none"
  OBVIOUS
<1>2. WSConnShape' /\ MapShape'
  BY DEF WSConnShape, MapShape
<1>3. HandlingCounted'
  BY SameHandled
<1>4. InMap'
  BY <1>1 DEF InMap
<1>5. InTracker'
  BY DEF InTracker
<1> QED
  BY <1>2, <1>3, <1>4, <1>5

LEMMA RunsShape ==
    ASSUME WSInv, \/ WS!Start
                  \/ \E g \in WS!Runs : WS!ServeReturns(g)
    PROVE  WSInv'
<1>0. /\ WSServerShape /\ WSConnShape /\ WSWriteShape
      /\ MapShape /\ HandlingCounted /\ InMap /\ InTracker
  BY DEF WSInv
<1>1. WS!Runs = Runs
  BY DEF WS!Runs, Runs
<1>2. UNCHANGED <<WS!connVars, WS!mapVars, writers, cast, stop, fault>>
  BY DEF WS!Start, WS!ServeReturns
<1>3. WSConnShape' /\ WSWriteShape'
  BY <1>0, <1>2 DEF WSConnShape, WSWriteShape, WS!connVars
<1>4. MapShape' /\ HandlingCounted' /\ InMap' /\ InTracker'
  BY <1>0, <1>2, MapKept DEF WS!connVars, WS!mapVars
<1>5. WSServerShape'
  <2>1. CASE WS!Start
    <3>1. run < MaxRuns /\ run' = run + 1 /\ run \in Nat
      BY <1>0, <2>1, HTTPAssumption DEF WS!Start, WSServerShape
    <3>2. run' \in 0..MaxRuns /\ run' \in Runs
      BY <3>1, HTTPAssumption DEF Runs
    <3> QED
      BY <1>0, <2>1, <3>2 DEF WS!Start, WSServerShape
  <2>2. ASSUME NEW g \in WS!Runs, WS!ServeReturns(g)
        PROVE  WSServerShape'
    <3>1. /\ serving' = serving \ {g} /\ running' = (running /\ g \notin up)
          /\ run' = run /\ listening' = listening /\ up' = up
      BY <2>2 DEF WS!ServeReturns
    <3>2. running' \in BOOLEAN
      BY ONLY <3>1
    <3> QED
      BY <1>0, <3>1, <3>2 DEF WSServerShape
  <2> QED
    BY <2>1, <2>2
<1> QED
  BY <1>3, <1>4, <1>5 DEF WSInv

LEMMA Writing ==
    ASSUME WSWriteShape, NEW c \in Conns, NEW w \in WS!Writer, WS!BeginWrite(c, w)
    PROVE  writers' \in [Conns -> SUBSET WS!Writer] /\ fault' \in BOOLEAN
<1>1. writers' = [writers EXCEPT ![c] = writers[c] \cup {w}]
  BY DEF WS!BeginWrite, WSWriteShape
<1>2. fault' \in {FALSE, writers[c] # {}}
  BY DEF WS!BeginWrite
<1>3. fault' \in BOOLEAN
  BY <1>2
<1> QED
  BY <1>1, <1>3 DEF WSWriteShape

LEMMA Written ==
    ASSUME WSWriteShape, NEW c \in Conns, NEW w, WS!EndWrite(c, w)
    PROVE  writers' \in [Conns -> SUBSET WS!Writer]
  BY DEF WS!EndWrite, WSWriteShape

LEMMA ReaderKeeps ==
    ASSUME WSInv, NEW c \in Conns,
           WS!Read(c) \/ WS!HandlerReturns(c) \/ WS!Answered(c) \/ WS!ReadFails(c)
    PROVE  WSInv'
<1>0. /\ WSServerShape /\ WSConnShape /\ WSWriteShape
      /\ MapShape /\ HandlingCounted /\ InMap /\ InTracker
  BY DEF WSInv
<1>1. /\ UNCHANGED <<WS!serverVars, link, linkRun, main, WS!mapVars, cast>>
      /\ \E next \in {"reading", "handling", "answering", "ended"} :
            reader' = [reader EXCEPT ![c] = next] \/ reader' = reader
  BY DEF WS!Read, WS!HandlerReturns, WS!Answered, WS!ReadFails
<1>2. WSServerShape'
  BY <1>0, <1>1 DEF WSServerShape, WS!serverVars
<1>3. WSConnShape'
  BY <1>0, <1>1 DEF WSConnShape
<1>4. MapShape' /\ HandlingCounted' /\ InMap' /\ InTracker'
  BY <1>0, <1>1, MapKept DEF WS!mapVars
<1>5. WSWriteShape'
  <2>1. \/ WS!BeginWrite(c, "response")
        \/ WS!EndWrite(c, "response") /\ fault' = fault
        \/ UNCHANGED writers /\ (fault' = fault \/ fault' = TRUE)
    <3>1. CASE WS!Read(c)
      <4>1. WS!BeginWrite(c, "response") \/ UNCHANGED <<writers, fault>>
        BY <3>1 DEF WS!Read
      <4> QED
        BY <4>1
    <3>2. CASE WS!HandlerReturns(c)
      <4>1. WS!BeginWrite(c, "response") \/ (fault' = TRUE /\ UNCHANGED <<reader, writers>>)
        BY <3>2 DEF WS!HandlerReturns
      <4>2. CASE fault' = TRUE /\ UNCHANGED <<reader, writers>>
        BY <4>2
      <4> QED
        BY <4>1, <4>2
    <3>3. CASE WS!Answered(c)
      BY <3>3 DEF WS!Answered
    <3>4. CASE WS!ReadFails(c)
      BY <3>4 DEF WS!ReadFails
    <3> QED
      BY <3>1, <3>2, <3>3, <3>4
  <2>2. "response" \in WS!Writer
    BY DEF WS!Writer
  <2>3. writers' \in [Conns -> SUBSET WS!Writer]
    BY <1>0, <2>1, <2>2, Writing, Written DEF WSWriteShape
  <2>4. fault' \in BOOLEAN
    <3>1. CASE WS!BeginWrite(c, "response")
      BY <1>0, <2>2, <3>1, Writing
    <3>2. CASE fault' = fault
      BY <1>0, <3>2 DEF WSWriteShape
    <3>3. CASE fault' = TRUE
      BY ONLY <3>3
    <3> QED
      BY <2>1, <3>1, <3>2, <3>3
  <2> QED
    BY <1>0, <1>1, <2>3, <2>4 DEF WSWriteShape
<1> QED
  BY <1>2, <1>3, <1>4, <1>5 DEF WSInv

LEMMA BroadcastKeeps ==
    ASSUME WSInv, \/ WS!BeginBroadcast \/ WS!EndBroadcast
                  \/ \E c \in Conns : \/ WS!WriteBroadcast(c) \/ WS!WrittenBroadcast(c)
                                      \/ WS!CloseMessageSent(c)
    PROVE  WSInv'
<1>0. /\ WSServerShape /\ WSConnShape /\ WSWriteShape
      /\ MapShape /\ HandlingCounted /\ InMap /\ InTracker
  BY DEF WSInv
<1>1. UNCHANGED <<WS!serverVars, WS!connVars, WS!mapVars>>
  BY DEF WS!BeginBroadcast, WS!EndBroadcast, WS!WriteBroadcast, WS!WrittenBroadcast,
         WS!CloseMessageSent
<1>2. WSServerShape' /\ WSConnShape'
  BY <1>0, <1>1 DEF WSServerShape, WSConnShape, WS!serverVars, WS!connVars
<1>3. MapShape' /\ HandlingCounted' /\ InMap' /\ InTracker'
  BY <1>0, <1>1, MapKept DEF WS!mapVars, WS!connVars
<1>4. WSWriteShape'
  <2>1. CASE WS!BeginBroadcast \/ WS!EndBroadcast
    <3>1. UNCHANGED <<writers, fault>>
      BY <2>1 DEF WS!BeginBroadcast, WS!EndBroadcast
    <3>2. cast' \in [busy : BOOLEAN, left : SUBSET Conns]
      <4>1. CASE WS!BeginBroadcast
        BY <1>0, <4>1 DEF WS!BeginBroadcast, MapShape
      <4>2. CASE WS!EndBroadcast
        BY <1>0, <4>2 DEF WS!EndBroadcast, WSWriteShape
      <4> QED
        BY <2>1, <4>1, <4>2
    <3> QED
      BY <1>0, <3>1, <3>2 DEF WSWriteShape
  <2>2. ASSUME NEW c \in Conns, WS!WriteBroadcast(c)
        PROVE  WSWriteShape'
    <3>1. WS!BeginWrite(c, "broadcast") /\ cast' = cast
      BY <2>2 DEF WS!WriteBroadcast
    <3>2. writers' \in [Conns -> SUBSET WS!Writer] /\ fault' \in BOOLEAN
      BY <1>0, <3>1, Writing DEF WS!Writer
    <3> QED
      BY <1>0, <3>1, <3>2 DEF WSWriteShape
  <2>3. ASSUME NEW c \in Conns, WS!WrittenBroadcast(c)
        PROVE  WSWriteShape'
    <3>1. /\ WS!EndWrite(c, "broadcast") /\ fault' = fault
          /\ cast' = [cast EXCEPT !.left = cast.left \ {c}]
      BY <2>3 DEF WS!WrittenBroadcast
    <3>2. writers' \in [Conns -> SUBSET WS!Writer]
      BY <1>0, <3>1, Written
    <3> QED
      BY <1>0, <3>1, <3>2 DEF WSWriteShape
  <2>4. ASSUME NEW c \in Conns, WS!CloseMessageSent(c)
        PROVE  WSWriteShape'
    <3>1. WS!EndWrite(c, "close") /\ fault' = fault /\ cast' = cast
      BY <2>4 DEF WS!CloseMessageSent
    <3>2. writers' \in [Conns -> SUBSET WS!Writer]
      BY <1>0, <3>1, Written
    <3> QED
      BY <1>0, <3>1, <3>2 DEF WSWriteShape
  <2> QED
    BY <2>1, <2>2, <2>3, <2>4
<1> QED
  BY <1>2, <1>3, <1>4 DEF WSInv

LEMMA LinkKeeps ==
    ASSUME WSInv, NEW c \in Conns, WS!Accept(c) \/ WS!PeerGone(c)
    PROVE  WSInv'
<1>0. /\ WSServerShape /\ WSConnShape /\ WSWriteShape
      /\ MapShape /\ HandlingCounted /\ InMap /\ InTracker
  BY DEF WSInv
<1>1. /\ UNCHANGED <<WS!serverVars, main, reader, WS!mapVars, writers, cast, fault>>
  BY DEF WS!Accept, WS!PeerGone
<1>2. WSServerShape' /\ WSWriteShape' /\ MapShape'
  BY <1>0, <1>1 DEF WSServerShape, WSWriteShape, MapShape, WS!serverVars, WS!mapVars
<1>3. HandlingCounted'
  BY <1>0, <1>1, SameHandled DEF WS!mapVars
<1>4. InTracker'
  BY <1>0, <1>1 DEF InTracker, WS!mapVars
<1>5. CASE WS!Accept(c)
  <2>1. PICK g \in serving \cap listening \cap up : linkRun' = [linkRun EXCEPT ![c] = g]
    BY <1>5 DEF WS!Accept
  <2>2. g \in 0..MaxRuns
    BY <1>0, <2>1, HTTPAssumption DEF WSServerShape, Runs
  <2>3. link[c] = "none" /\ link' = [link EXCEPT ![c] = "open"]
    BY <1>5 DEF WS!Accept
  <2>4. WSConnShape'
    BY <1>0, <1>1, <2>1, <2>2, <2>3 DEF WSConnShape
  <2>5. main[c] = "none" /\ link'[c] = "open" /\ \A d \in Conns : d # c => link'[d] = link[d]
    BY <1>0, <2>3 DEF InMap, WSConnShape
  <2>6. InMap'
    BY <1>0, <1>1, <2>5 DEF InMap, WS!mapVars
  <2> QED
    BY <1>2, <1>3, <1>4, <2>4, <2>6 DEF WSInv
<1>6. CASE WS!PeerGone(c)
  <2>1. /\ link[c] = "open" /\ link' = [link EXCEPT ![c] = "closed"] /\ linkRun' = linkRun
    BY <1>6 DEF WS!PeerGone
  <2>2. WSConnShape'
    BY <1>0, <1>1, <2>1 DEF WSConnShape
  <2>3. link'[c] = "closed" /\ \A d \in Conns : d # c => link'[d] = link[d]
    BY <1>0, <2>1 DEF WSConnShape
  <2>4. InMap'
    BY <1>0, <1>1, <2>1, <2>3 DEF InMap, WS!mapVars
  <2> QED
    BY <1>2, <1>3, <1>4, <2>2, <2>4 DEF WSInv
<1> QED
  BY <1>5, <1>6

\* The goroutine of a connection moves on, and is tracked as before.
LEMMA MainMoves ==
    ASSUME WSConnShape, NEW c \in Conns,
           NEW v \in WS!Handling \cup {"none", "upgraded", "registered", "gone"},
           main' = [main EXCEPT ![c] = v]
    PROVE  /\ main' \in [Conns -> WS!Handling \cup {"none", "upgraded", "registered", "gone"}]
           /\ main'[c] = v /\ \A d \in Conns : d # c => main'[d] = main[d]
  BY DEF WSConnShape

LEMMA TrackedAsBefore ==
    ASSUME InTracker, MapShape, NEW c \in Conns, \A d \in Conns : d # c => main'[d] = main[d],
           main'[c] \in WSTracking <=> main[c] \in WSTracking,
           tracked' = tracked, counter' = counter
    PROVE  InTracker'
<1>1. \A t \in tracked : t[1] \in Conns
  BY DEF MapShape
<1>2. \A d \in Conns : main'[d] \in WSTracking <=> main[d] \in WSTracking
  OBVIOUS
<1> QED
  BY <1>1, <1>2 DEF InTracker

LEMMA UpgradeKeeps ==
    ASSUME WSInv, NEW c \in Conns, WS!Upgrade(c)
    PROVE  WSInv'
<1>0. /\ WSServerShape /\ WSConnShape /\ WSWriteShape
      /\ MapShape /\ HandlingCounted /\ InMap /\ InTracker
  BY DEF WSInv
<1>1. PICK n \in Nat : n = counter + 1
  BY <1>0 DEF MapShape
<1>2. /\ main[c] = "none" /\ link[c] = "open" /\ main' = [main EXCEPT ![c] = "upgraded"]
      /\ counter' = n /\ tracked' = tracked \cup {<<c, n>>}
      /\ UNCHANGED <<WS!serverVars, link, linkRun, reader, connections,
                     activeRequests, writers, cast, fault>>
  BY <1>1 DEF WS!Upgrade
<1>3. /\ main' \in [Conns -> WS!Handling \cup {"none", "upgraded", "registered", "gone"}]
      /\ main'[c] = "upgraded" /\ \A d \in Conns : d # c => main'[d] = main[d]
  BY <1>0, <1>2, MainMoves
<1>4. WSServerShape' /\ WSWriteShape'
  BY <1>0, <1>2 DEF WSServerShape, WSWriteShape, WS!serverVars
<1>5. WSConnShape'
  BY <1>0, <1>2, <1>3 DEF WSConnShape
<1>6. MapShape'
  BY <1>0, <1>1, <1>2 DEF MapShape
<1>7. HandlingCounted'
  BY <1>0, <1>2, <1>3, SameHandled DEF WS!Handling
<1>8. InMap'
  BY <1>0, <1>2, <1>3 DEF InMap
<1>9. InTracker'
  <2>1. \A t \in tracked : /\ t[1] \in Conns /\ t[2] \in Nat /\ t[1] # c
                           /\ main'[t[1]] \in WSTracking /\ t[2] < n
    BY <1>0, <1>1, <1>2, <1>3 DEF InTracker, MapShape, WSTracking
  <2>2. <<c, n>>[1] = c /\ <<c, n>>[2] = n /\ n <= n
    BY <1>1
  <2>3. \A t \in tracked' : t \in tracked \/ t = <<c, n>>
    BY <1>2
  <2>4. \A t \in tracked' : main'[t[1]] \in WSTracking /\ t[2] <= counter'
    BY <1>1, <1>2, <1>3, <2>1, <2>2, <2>3 DEF WSTracking
  <2>5. \A d \in Conns : main'[d] \in WSTracking => \E t \in tracked' : t[1] = d
    BY <1>0, <1>2, <1>3, <2>2 DEF InTracker
  <2>6. \A t, u \in tracked' : t[2] = u[2] => t = u
    BY <1>0, <2>1, <2>2, <2>3 DEF InTracker
  <2> QED
    BY <2>4, <2>5, <2>6 DEF InTracker
<1> QED
  BY <1>4, <1>5, <1>6, <1>7, <1>8, <1>9 DEF WSInv

LEMMA ServingKeeps ==
    ASSUME WSInv, NEW c \in Conns,
           WS!Register(c) \/ WS!Ping(c) \/ WS!Pinged(c) \/ WS!ReaderDone(c) \/ WS!Unregister(c)
    PROVE  WSInv'
<1>0. /\ WSServerShape /\ WSConnShape /\ WSWriteShape
      /\ MapShape /\ HandlingCounted /\ InMap /\ InTracker
  BY DEF WSInv
<1>1. /\ UNCHANGED <<WS!serverVars, link, linkRun, reader, tracked, counter,
                     activeRequests, cast>>
      /\ \/ /\ main[c] = "upgraded" /\ main' = [main EXCEPT ![c] = "registered"]
            /\ connections' = connections \cup {c} /\ UNCHANGED <<writers, fault>>
         \/ /\ main[c] = "looping" /\ main' = [main EXCEPT ![c] = "pinging"]
            /\ connections' = connections /\ WS!BeginWrite(c, "ping")
         \/ /\ main[c] = "pinging" /\ connections' = connections
            /\ main' = [main EXCEPT ![c] = IF link[c] = "open" THEN "looping" ELSE "leaving"]
            /\ WS!EndWrite(c, "ping") /\ fault' = fault
         \/ /\ main[c] = "looping" /\ main' = [main EXCEPT ![c] = "leaving"]
            /\ connections' = connections /\ UNCHANGED <<writers, fault>>
         \/ /\ main[c] = "untracked" /\ main' = [main EXCEPT ![c] = "unregistered"]
            /\ connections' = connections \ {c} /\ UNCHANGED <<writers, fault>>
  BY DEF WS!Register, WS!Ping, WS!Pinged, WS!ReaderDone, WS!Unregister, WS!mapVars
<1>2. PICK v \in {"registered", "pinging", "looping", "leaving", "unregistered"} :
         /\ main' = [main EXCEPT ![c] = v]
         /\ v = "registered" => main[c] = "upgraded" /\ connections' = connections \cup {c}
         /\ v # "registered" => main[c] \in {"looping", "pinging", "untracked"}
         /\ v \in {"pinging", "looping"} => main[c] \in {"pinging", "looping"}
         /\ v = "leaving" => main[c] \in {"pinging", "looping"}
         /\ v = "unregistered" <=> main[c] = "untracked"
         /\ connections' # connections => \/ connections' = connections \cup {c}
                                          \/ v = "unregistered" /\ connections' = connections \ {c}
  BY <1>1
<1>3. v \in WS!Handling \cup {"none", "upgraded", "registered", "gone"}
  BY DEF WS!Handling
<1>4. /\ main' \in [Conns -> WS!Handling \cup {"none", "upgraded", "registered", "gone"}]
      /\ main'[c] = v /\ \A d \in Conns : d # c => main'[d] = main[d]
  BY <1>0, <1>2, <1>3, MainMoves
<1>5. WSServerShape'
  BY <1>0, <1>1 DEF WSServerShape, WS!serverVars
<1>6. WSConnShape'
  BY <1>0, <1>1, <1>4 DEF WSConnShape
<1>7. WSWriteShape'
  <2>1. writers' \in [Conns -> SUBSET WS!Writer] /\ fault' \in BOOLEAN
    <3>1. CASE WS!BeginWrite(c, "ping")
      BY <1>0, <3>1, Writing DEF WS!Writer
    <3>2. CASE WS!EndWrite(c, "ping") /\ fault' = fault
      BY <1>0, <3>2, Written DEF WSWriteShape
    <3>3. CASE UNCHANGED <<writers, fault>>
      BY <1>0, <3>3 DEF WSWriteShape
    <3> QED
      BY <1>1, <3>1, <3>2, <3>3
  <2> QED
    BY <1>0, <1>1, <2>1 DEF WSWriteShape
<1>8. connections' \subseteq connections \cup {c} /\ connections \ {c} \subseteq connections'
  BY <1>2
<1>9. MapShape'
  BY <1>0, <1>1, <1>8 DEF MapShape
<1>10. HandlingCounted'
  <2>1. v \in WS!Handling <=> main[c] \in WS!Handling
    BY <1>2 DEF WS!Handling
  <2> QED
    BY <1>0, <1>1, <1>4, <2>1, SameHandled
<1>11. InTracker'
  <2>1. v \in WSTracking <=> main[c] \in WSTracking
    BY <1>2 DEF WSTracking
  <2> QED
    BY <1>0, <1>1, <1>4, <2>1, TrackedAsBefore
<1>12. InMap'
  <2>1. ASSUME v \in {"registered", "pinging", "looping"}, link[c] = "open"
        PROVE  c \in connections'
    BY <1>0, <1>2, <2>1 DEF InMap
  <2>2. link[c] # "none"
    BY <1>0, <1>2 DEF InMap
  <2> QED
    BY <1>0, <1>1, <1>4, <1>8, <2>1, <2>2 DEF InMap
<1> QED
  BY <1>5, <1>6, <1>7, <1>9, <1>10, <1>11, <1>12 DEF WSInv

LEMMA BeginHandlingKeeps ==
    ASSUME WSInv, NEW c \in Conns, WS!BeginHandling(c)
    PROVE  WSInv'
<1>0. /\ WSServerShape /\ WSConnShape /\ WSWriteShape
      /\ MapShape /\ HandlingCounted /\ InMap /\ InTracker
  BY DEF WSInv
<1>1. /\ main[c] = "registered" /\ activeRequests' = activeRequests + 1
      /\ UNCHANGED <<WS!serverVars, link, linkRun, connections, tracked,
                     counter, writers, cast, fault>>
      /\ \/ /\ link[c] = "open" /\ main' = [main EXCEPT ![c] = "looping"]
            /\ reader' = [reader EXCEPT ![c] = "reading"]
         \/ main' = [main EXCEPT ![c] = "leaving"] /\ reader' = reader
  BY DEF WS!BeginHandling
<1>2. PICK v \in {"looping", "leaving"} : main' = [main EXCEPT ![c] = v]
  BY <1>1
<1>3. v \in WS!Handling /\ v \in WSTracking /\ main[c] \in WSTracking
        /\ main[c] \notin WS!Handling
  BY <1>1 DEF WS!Handling, WSTracking
<1>4. /\ main' \in [Conns -> WS!Handling \cup {"none", "upgraded", "registered", "gone"}]
      /\ main'[c] = v /\ \A d \in Conns : d # c => main'[d] = main[d]
  BY <1>0, <1>2, <1>3, MainMoves
<1>5. WSServerShape' /\ WSWriteShape' /\ MapShape'
  BY <1>0, <1>1 DEF WSServerShape, WSWriteShape, MapShape, WS!serverVars
<1>6. WSConnShape'
  <2>1. reader' \in [Conns -> {"none", "reading", "handling", "answering", "ended"}]
    BY <1>0, <1>1 DEF WSConnShape
  <2> QED
    BY <1>0, <1>1, <1>4, <2>1 DEF WSConnShape
<1>7. HandlingCounted'
  <2>1. {d \in Conns : main'[d] \in WS!Handling} = Handled \cup {c}
    BY <1>3, <1>4 DEF Handled
  <2>2. c \notin Handled
    BY <1>3 DEF Handled
  <2>3. Cardinality(Handled \cup {c}) = Cardinality(Handled) + 1
    BY <2>2, HandledCounted, FS_AddElement
  <2> QED
    BY <1>0, <1>1, <2>1, <2>3 DEF HandlingCounted, Handled
<1>8. InMap'
  BY <1>0, <1>1, <1>4 DEF InMap
<1>9. InTracker'
  BY <1>0, <1>1, <1>3, <1>4, TrackedAsBefore
<1> QED
  BY <1>5, <1>6, <1>7, <1>8, <1>9 DEF WSInv

LEMMA UntrackKeeps ==
    ASSUME WSInv, NEW c \in Conns, WS!Untrack(c)
    PROVE  WSInv'
<1>0. /\ WSServerShape /\ WSConnShape /\ WSWriteShape
      /\ MapShape /\ HandlingCounted /\ InMap /\ InTracker
  BY DEF WSInv
<1>1. /\ main[c] = "leaving" /\ main' = [main EXCEPT ![c] = "untracked"]
      /\ tracked' = {t \in tracked : t[1] # c}
      /\ UNCHANGED <<WS!serverVars, link, linkRun, reader, connections, counter,
                     activeRequests, writers, cast, fault>>
  BY DEF WS!Untrack
<1>2. "untracked" \in WS!Handling /\ main[c] \in WS!Handling
  BY <1>1 DEF WS!Handling
<1>3. /\ main' \in [Conns -> WS!Handling \cup {"none", "upgraded", "registered", "gone"}]
      /\ main'[c] = "untracked" /\ \A d \in Conns : d # c => main'[d] = main[d]
  BY <1>0, <1>1, <1>2, MainMoves
<1>4. WSServerShape' /\ WSWriteShape' /\ MapShape'
  BY <1>0, <1>1 DEF WSServerShape, WSWriteShape, MapShape, WS!serverVars
<1>5. WSConnShape'
  BY <1>0, <1>1, <1>3 DEF WSConnShape
<1>6. HandlingCounted'
  BY <1>0, <1>1, <1>2, <1>3, SameHandled
<1>7. InMap'
  BY <1>0, <1>1, <1>3 DEF InMap
<1>8. InTracker'
  <2>1. \A t \in tracked' : t \in tracked /\ t[1] \in Conns /\ t[1] # c
    BY <1>0, <1>1 DEF MapShape
  <2>2. "untracked" \notin WSTracking
    BY DEF WSTracking
  <2>3. \A t \in tracked' : main'[t[1]] \in WSTracking /\ t[2] <= counter'
    BY <1>0, <1>1, <1>3, <2>1 DEF InTracker
  <2>4. \A d \in Conns : main'[d] \in WSTracking => \E t \in tracked' : t[1] = d
    BY <1>0, <1>1, <1>3, <2>2 DEF InTracker
  <2>5. \A t, u \in tracked' : t[2] = u[2] => t = u
    BY <1>0, <2>1 DEF InTracker
  <2> QED
    BY <2>3, <2>4, <2>5 DEF InTracker
<1> QED
  BY <1>4, <1>5, <1>6, <1>7, <1>8 DEF WSInv

LEMMA EndHandlingKeeps ==
    ASSUME WSInv, NEW c \in Conns, WS!EndHandling(c)
    PROVE  WSInv'
<1>0. /\ WSServerShape /\ WSConnShape /\ WSWriteShape
      /\ MapShape /\ HandlingCounted /\ InMap /\ InTracker
  BY DEF WSInv
<1>1. /\ main[c] = "unregistered" /\ main' = [main EXCEPT ![c] = "gone"]
      /\ link' = [link EXCEPT ![c] = "closed"] /\ activeRequests' = activeRequests - 1
      /\ UNCHANGED <<WS!serverVars, linkRun, reader, connections, tracked,
                     counter, writers, cast, fault>>
  BY DEF WS!EndHandling
<1>2. /\ "gone" \notin WS!Handling /\ "gone" \notin WSTracking
      /\ main[c] \in WS!Handling /\ main[c] \notin WSTracking
  BY <1>1 DEF WS!Handling, WSTracking
<1>3. /\ main' \in [Conns -> WS!Handling \cup {"none", "upgraded", "registered", "gone"}]
      /\ main'[c] = "gone" /\ \A d \in Conns : d # c => main'[d] = main[d]
  BY <1>0, <1>1, MainMoves
<1>4. WSServerShape' /\ WSWriteShape' /\ MapShape'
  BY <1>0, <1>1 DEF WSServerShape, WSWriteShape, MapShape, WS!serverVars
<1>5. WSConnShape'
  BY <1>0, <1>1, <1>3 DEF WSConnShape
<1>6. HandlingCounted'
  <2>1. {d \in Conns : main'[d] \in WS!Handling} = Handled \ {c}
    BY <1>2, <1>3 DEF Handled
  <2>2. c \in Handled
    BY <1>2 DEF Handled
  <2>3. Cardinality(Handled \ {c}) = Cardinality(Handled) - 1
    BY <2>2, HandledCounted, FS_RemoveElement
  <2> QED
    BY <1>0, <1>1, <2>1, <2>3 DEF HandlingCounted, Handled
<1>7. InMap'
  <2>1. link'[c] = "closed" /\ \A d \in Conns : d # c => link'[d] = link[d]
    BY <1>0, <1>1 DEF WSConnShape
  <2> QED
    BY <1>0, <1>1, <1>3, <2>1 DEF InMap
<1>8. InTracker'
  BY <1>0, <1>1, <1>2, <1>3, TrackedAsBefore
<1> QED
  BY <1>4, <1>5, <1>6, <1>7, <1>8 DEF WSInv

LEMMA WSStopKeeps ==
    ASSUME WSInv, NEW p \in WS!StopCalls,
           \/ WS!Stop(p) \/ WS!CloseListener(p) \/ WS!CloseMessagesOver(p)
           \/ WS!SendCloseMessages(p)
    PROVE  WSInv'
<1>0. /\ WSServerShape /\ WSConnShape /\ WSWriteShape
      /\ MapShape /\ HandlingCounted /\ InMap /\ InTracker
  BY DEF WSInv
<1> USE DEF WS!serverVars, WS!connVars, WS!mapVars
<1>1. UNCHANGED <<WS!connVars, WS!mapVars, cast>>
  BY DEF WS!Stop, WS!CloseListener, WS!CloseMessagesOver, WS!SendCloseMessages
<1>2. MapShape' /\ HandlingCounted' /\ InMap' /\ InTracker'
  BY <1>0, <1>1, MapKept
<1>3. WSConnShape'
  BY <1>0, <1>1 DEF WSConnShape
<1>4. CASE WS!Stop(p) \/ WS!CloseListener(p) \/ WS!CloseMessagesOver(p)
  <2>1. /\ running' \in {running, FALSE} /\ listening' \subseteq listening
        /\ run' = run /\ serving' = serving /\ up' = up
        /\ writers' = writers /\ fault' = fault
    BY <1>4 DEF WS!Stop, WS!CloseListener, WS!CloseMessagesOver
  <2>2. WSServerShape'
    BY <1>0, <2>1 DEF WSServerShape
  <2>3. WSWriteShape'
    BY <1>0, <1>1, <2>1 DEF WSWriteShape
  <2> QED
    BY <1>2, <1>3, <2>2, <2>3 DEF WSInv
<1>5. CASE WS!SendCloseMessages(p)
  <2>1. PICK sent \in SUBSET connections :
           /\ writers' = [c \in Conns |-> writers[c] \cup IF c \in sent THEN {"close"} ELSE {}]
           /\ fault' \in {FALSE, \E c \in sent : writers[c] # {}}
    BY <1>5 DEF WS!SendCloseMessages
  <2>2. fault' \in BOOLEAN
    BY ONLY <2>1
  <2>3. writers' \in [Conns -> SUBSET WS!Writer]
    BY <1>0, <2>1 DEF WSWriteShape, WS!Writer
  <2>4. WSServerShape'
    BY <1>0, <1>5 DEF WS!SendCloseMessages, WSServerShape
  <2>5. WSWriteShape'
    BY <1>0, <1>1, <2>2, <2>3 DEF WSWriteShape
  <2> QED
    BY <1>2, <1>3, <2>4, <2>5 DEF WSInv
<1> QED
  BY <1>4, <1>5

LEMMA WSDrainKeeps ==
    ASSUME WSInv, NEW idle, idle = {c \in Conns : WS!Idle(c)},
           \/ \E p \in WS!StopCalls : WS!Drain(p) \/ WS!ShutdownServer(p)
           \/ WS!ForceStop
    PROVE  WSInv'
<1>0. /\ WSServerShape /\ WSConnShape /\ WSWriteShape
      /\ MapShape /\ HandlingCounted /\ InMap /\ InTracker
  BY DEF WSInv
<1>1. /\ UNCHANGED <<linkRun, main, reader, tracked, counter, activeRequests,
                     writers, cast, run, serving>>
      /\ running' \in {running, FALSE} /\ up' \subseteq up /\ listening' \subseteq listening
      /\ fault' = fault
  BY DEF WS!Drain, WS!ShutdownServer, WS!ForceStop, WS!mapVars, WS!serverVars
<1>2. WSServerShape' /\ WSWriteShape'
  BY <1>0, <1>1 DEF WSServerShape, WSWriteShape
<1>3. /\ idle \subseteq {c \in Conns : link[c] # "none"}
      /\ connections \subseteq {c \in Conns : link[c] # "none"}
  BY <1>0 DEF WS!Idle, InMap, MapShape
<1>4. ASSUME NEW shut, shut \subseteq {c \in Conns : link[c] # "none"},
             connections' \in {connections, {}}, connections' = {} => connections \subseteq shut,
             link' = [c \in Conns |-> IF c \in shut THEN "closed" ELSE link[c]]
      PROVE  WSInv'
  BY <1>0, <1>1, <1>2, <1>4, LinksClosed DEF WSInv
<1>5. ASSUME NEW p \in WS!StopCalls, WS!Drain(p)
      PROVE  WSInv'
  <2>1. /\ connections' = {}
        /\ link' = [c \in Conns |-> IF c \in connections THEN "closed" ELSE link[c]]
    BY <1>5 DEF WS!Drain, WS!CloseAll
  <2> QED
    BY <1>3, <1>4, <2>1
<1>6. ASSUME NEW p \in WS!StopCalls, WS!ShutdownServer(p)
      PROVE  WSInv'
  <2>1. /\ connections' = connections
        /\ link' = [c \in Conns |-> IF c \in idle THEN "closed" ELSE link[c]]
    BY <1>6 DEF WS!ShutdownServer, WS!mapVars
  <2>2. connections' = {} => connections \subseteq idle
    BY <2>1
  <2> QED
    BY <1>3, <1>4, <2>1, <2>2
<1>7. CASE WS!ForceStop
  <2>1. /\ connections' = {}
        /\ link' = [c \in Conns |-> IF c \in connections \cup idle THEN "closed" ELSE link[c]]
    BY <1>7 DEF WS!ForceStop
  <2> QED
    BY <1>3, <1>4, <2>1
<1> QED
  BY <1>5, <1>6, <1>7

LEMMA WSInvariance == WS!Spec => []WSInv
<1>1. WS!Init => WSInv
  <2> SUFFICES ASSUME WS!Init PROVE WSInv
    OBVIOUS
  <2> USE DEF WS!Init
  <2>0. 0 \in 0..MaxRuns
    BY HTTPAssumption
  <2>1. WSServerShape /\ MapShape
    BY <2>0 DEF WSServerShape, MapShape
  <2>2. WSConnShape
    BY <2>0 DEF WSConnShape
  <2>3. WSWriteShape
    BY DEF WSWriteShape
  <2>4. Handled = {}
    BY DEF Handled, WS!Handling
  <2>5. HandlingCounted
    BY <2>4, FS_EmptySet DEF HandlingCounted
  <2>6. InMap /\ InTracker
    BY DEF InMap, InTracker, WSTracking
  <2> QED
    BY <2>1, <2>2, <2>3, <2>5, <2>6 DEF WSInv
<1>2. WSInv /\ [WS!Next]_(WS!vars) => WSInv'
  <2> SUFFICES ASSUME WSInv, [WS!Next]_(WS!vars) PROVE WSInv'
    OBVIOUS
  <2>1. CASE UNCHANGED WS!vars
    <3> USE <2>1 DEF WS!vars, WS!serverVars, WS!connVars, WS!mapVars
    <3>1. WSServerShape' /\ WSConnShape' /\ WSWriteShape'
      BY DEF WSInv, WSServerShape, WSConnShape, WSWriteShape
    <3>2. MapShape' /\ HandlingCounted' /\ InMap' /\ InTracker'
      BY MapKept DEF WSInv
    <3> QED
      BY <3>1, <3>2 DEF WSInv
  <2>2. CASE WS!Next
    <3> DEFINE idle == {c \in Conns : WS!Idle(c)}
    <3>1. (\/ \E p \in WS!StopCalls : WS!Drain(p) \/ WS!ShutdownServer(p)
           \/ WS!ForceStop) => WSInv'
      BY WSDrainKeeps
    <3>2. ASSUME NEW c \in Conns,
                 WS!Accept(c) \/ WS!Upgrade(c) \/ WS!Register(c) \/ WS!MainStep(c)
                   \/ WS!Read(c) \/ WS!HandlerReturns(c) \/ WS!Answered(c) \/ WS!ReadFails(c)
                   \/ WS!PeerGone(c) \/ WS!CloseMessageSent(c)
          PROVE  WSInv'
      BY <3>2, LinkKeeps, UpgradeKeeps, ServingKeeps, BeginHandlingKeeps, UntrackKeeps,
         EndHandlingKeeps, ReaderKeeps, BroadcastKeeps DEF WS!MainStep
    <3>3. ASSUME NEW p \in WS!StopCalls, WS!Stop(p) \/ WS!StopStep(p)
          PROVE  WSInv'
      BY <3>1, <3>3, WSStopKeeps DEF WS!StopStep
    <3>4. (\/ WS!Start \/ WS!BeginBroadcast \/ WS!Broadcasting
           \/ \E g \in WS!Runs : WS!ServeReturns(g)) => WSInv'
      BY RunsShape, BroadcastKeeps DEF WS!Broadcasting
    <3> QED
      BY <2>2, <3>1, <3>2, <3>3, <3>4 DEF WS!Next
  <2> QED
    BY <2>1, <2>2
<1> QED
  BY <1>1, <1>2, PTL DEF WS!Spec

(* A connection that is served is in the map, the tracker holds exactly     *)
(* those that were upgraded and are not leaving, under ids of their own,    *)
(* and the counter is right, for any number of connections, of restarts and *)
(* of concurrent calls of Stop (transport/websocket.go).                    *)
THEOREM WSConnectionsKnown == WS!Spec => [](WS!TypeOK /\ WS!ConnectionsKnown)
<1>1. WSInv => WS!TypeOK /\ WS!ConnectionsKnown
  <2> SUFFICES ASSUME WSInv PROVE WS!TypeOK /\ WS!ConnectionsKnown
    OBVIOUS
  <2>0. /\ WSServerShape /\ WSConnShape /\ WSWriteShape
        /\ MapShape /\ HandlingCounted /\ InMap /\ InTracker
    BY DEF WSInv
  <2>1. activeRequests \in Nat
    BY <2>0, HandledCounted DEF HandlingCounted
  <2>2. UNION {listening, serving, up} \subseteq WS!Runs
    BY <2>0 DEF WSServerShape, Runs, WS!Runs
  <2>3. WS!TypeOK
    BY <2>0, <2>1, <2>2
       DEF WSServerShape, WSConnShape, WSWriteShape, MapShape, WS!TypeOK
  <2>4. {t[1] : t \in tracked} = {c \in Conns : main[c] \in WSTracking}
    BY <2>0 DEF InTracker, MapShape
  <2>5. activeRequests = WS!Cardinality({c \in Conns : main[c] \in WS!Handling})
    BY <2>0, SameCardinalityWS DEF HandlingCounted, Handled
  <2> QED
    BY <2>0, <2>3, <2>4, <2>5 DEF InMap, InTracker, WSTracking, WS!ConnectionsKnown
<1>2. WS!Spec => []WSInv
  BY WSInvariance
<1> QED
  BY <1>1, <1>2, PTL

-----------------------------------------------------------------------------
(***************************************************************************)
(* What a message over HTTP is answered, a function of the request: the    *)
(* handler's result or error as the layers above it write it.              *)
(***************************************************************************)
CONSTANT NoId
Answering == INSTANCE HTTPHandling WITH None <- NoId

\* A request as AnswersNameTheMessage takes it, whatever its fields hold.
Bodies ==
    [readable : BOOLEAN, object : BOOLEAN, typed : BOOLEAN,
     fields : SUBSET {"id", "method", "result", "error"}, id : Int \cup {NoId}]
Messages == [method : STRING, type : STRING, body : Bodies]
HTTPOptions == [cors : BOOLEAN, origins : SUBSET STRING, transformer : {"none", "json"}]

\* An answer as it comes up through the layers.
LEMMA AnswerWritten ==
    ASSUME NEW status, NEW docs
    PROVE  /\ Answering!Write(status, docs).status = status
           /\ Answering!Write(status, docs).docs = docs
           /\ ~Answering!Write(status, docs).panic
BY DEF Answering!Write

\* What the handler of requests makes of a message.
LEMMA MessageHandled ==
    ASSUME NEW q \in Messages, NEW outcome \in Int
    PROVE  LET answer == Answering!HandleRequest(q, outcome)
               id == Answering!ExtractIDFromBody(q.body)
               taken == /\ q.method = "POST" /\ q.body.readable
                        /\ q.type = "" \/ Answering!IsValidJSONContentType(q.type)
               fails == /\ taken /\ Answering!ParseJSONRPCMessage(q.body) = "request"
                        /\ outcome = Answering!Panicked
           IN  \/ /\ q.method # "POST" /\ answer = Answering!HTTPError(405)
               \/ /\ q.method = "POST" /\ ~taken
                  /\ answer = Answering!WriteErrorWithID(NoId, Answering!ParseError)
               \/ /\ taken /\ ~fails
                  /\ \E code : answer = Answering!WriteErrorWithID(id, code)
               \/ /\ fails /\ answer = [Answering!Write(200, <<>>) EXCEPT !.panic = TRUE]
<1> DEFINE answer == Answering!HandleRequest(q, outcome)
           id == Answering!ExtractIDFromBody(q.body)
           kind == Answering!ParseJSONRPCMessage(q.body)
           typed == q.type = "" \/ Answering!IsValidJSONContentType(q.type)
<1>1. /\ q.method # "POST" => answer = Answering!HTTPError(405)
      /\ q.method = "POST" /\ ~typed =>
            answer = Answering!WriteErrorWithID(NoId, Answering!ParseError)
      /\ q.method = "POST" /\ typed =>
            answer = IF ~q.body.readable
                     THEN Answering!WriteErrorWithID(NoId, Answering!ParseError)
                     ELSE IF kind = "parse error"
                          THEN Answering!WriteErrorWithID(id, Answering!ParseError)
                     ELSE IF kind # "request"
                          THEN Answering!WriteErrorWithID(id, Answering!InvalidRequest)
                     ELSE IF outcome = Answering!Panicked
                          THEN [Answering!Write(200, <<>>) EXCEPT !.panic = TRUE]
                     ELSE Answering!WriteErrorWithID(id, outcome)
  BY DEF Answering!HandleRequest
<1> HIDE DEF answer, id, kind
<1>2. \/ q.method # "POST" /\ answer = Answering!HTTPError(405)
      \/ /\ q.method = "POST" /\ ~(q.body.readable /\ typed)
         /\ answer = Answering!WriteErrorWithID(NoId, Answering!ParseError)
      \/ /\ q.method = "POST" /\ typed /\ q.body.readable
         /\ ~(kind = "request" /\ outcome = Answering!Panicked)
         /\ \E code : answer = Answering!WriteErrorWithID(id, code)
      \/ /\ q.method = "POST" /\ typed /\ q.body.readable
         /\ kind = "request" /\ outcome = Answering!Panicked
         /\ answer = [Answering!Write(200, <<>>) EXCEPT !.panic = TRUE]
  BY <1>1
<1> QED
  BY <1>2 DEF answer, id, kind

\* What the error handler makes of the three kinds of answers.
LEMMA WrappedDocument ==
    ASSUME NEW t, NEW i, NEW code
    PROVE  Answering!WrapHTTPHandler(t, Answering!WriteErrorWithID(i, code))
             = Answering!WriteErrorWithID(i, code)
<1>1. /\ ~Answering!WriteErrorWithID(i, code).panic
      /\ Answering!WriteErrorWithID(i, code).status = 200
  BY AnswerWritten DEF Answering!WriteErrorWithID
<1> QED
  BY <1>1 DEF Answering!WrapHTTPHandler

LEMMA WrappedPanic ==
    ASSUME NEW t
    PROVE  Answering!WrapHTTPHandler(t, [Answering!Write(200, <<>>) EXCEPT !.panic = TRUE])
             = Answering!Write(500, <<Answering!HandleHTTPError(t, 500)>>)
<1>1. [Answering!Write(200, <<>>) EXCEPT !.panic = TRUE].panic = TRUE
  BY DEF Answering!Write
<1> QED
  BY <1>1 DEF Answering!WrapHTTPHandler

LEMMA WrappedRefusal ==
    ASSUME NEW t
    PROVE  ~Answering!WrapHTTPHandler(t, Answering!HTTPError(405)).panic
<1>1. /\ ~Answering!HTTPError(405).panic /\ Answering!HTTPError(405).status = 405
      /\ Answering!HTTPError(405) = Answering!Write(405, Answering!Text)
  BY AnswerWritten DEF Answering!HTTPError
<1>2. Answering!WrapHTTPHandler(t, Answering!HTTPError(405))
        = [Answering!HTTPError(405) EXCEPT !.docs = <<Answering!HandleHTTPError(t, 405)>> \o @]
  BY <1>1 DEF Answering!WrapHTTPHandler
<1>3. ASSUME NEW d PROVE ~[Answering!Write(405, Answering!Text) EXCEPT !.docs = d].panic
  BY DEF Answering!Write
<1>4. ~[Answering!HTTPError(405) EXCEPT !.docs = <<Answering!HandleHTTPError(t, 405)>> \o @].panic
  BY <1>1, <1>3
<1> QED
  BY <1>2, <1>4

(* Whatever is wrong with it, a message that is sent with a JSON type and   *)
(* can be read gets one document with its own id, and a panic one of the    *)
(* error handler, for every message and every outcome (transport/http.go,   *)
(* middleware/error.go).                                                    *)
THEOREM MessagesAreNamed ==
    ASSUME NEW config \in HTTPOptions, NEW q \in Messages, NEW outcome \in Int
    PROVE  Answering!AnswersNameTheMessage(config, q, outcome)
<1> DEFINE answer == Answering!HandleRequest(q, outcome)
           wrapped == Answering!WrapHTTPHandler(config.transformer, answer)
           served == Answering!Serve(config, q, outcome)
           id == Answering!ExtractIDFromBody(q.body)
           taken == /\ q.method = "POST" /\ q.body.readable
                    /\ q.type = "" \/ Answering!IsValidJSONContentType(q.type)
           fails == /\ taken /\ Answering!ParseJSONRPCMessage(q.body) = "request"
                    /\ outcome = Answering!Panicked
<1>0. Answering!AnswersNameTheMessage(config, q, outcome) <=>
         /\ ~served.panic
         /\ taken /\ ~fails => /\ served.status = 200 /\ Len(served.docs) = 1
                               /\ served.docs[1].kind = "jsonrpc" /\ served.docs[1].id = id
         /\ fails => served.status = 500 /\ Len(served.docs) = 1
         /\ Len(served.docs) = 2 => q.method # "POST"
  BY DEF Answering!AnswersNameTheMessage
<1>1. ASSUME NEW a, ~a.panic, a = wrapped
      PROVE  served = IF config.cors /\ q.method = "OPTIONS"
                      THEN Answering!Write(204, <<>>) ELSE a
  <2>1. ~Answering!Write(204, <<>>).panic
    BY AnswerWritten
  <2> QED
    BY <1>1, <2>1 DEF Answering!Serve, Answering!WrapWithMiddleware, Answering!RecoveryMiddleware,
                      Answering!CORSMiddleware
<1>2. ASSUME NEW i, NEW code
      PROVE  /\ ~Answering!WriteErrorWithID(i, code).panic
             /\ Answering!WriteErrorWithID(i, code).status = 200
             /\ Len(Answering!WriteErrorWithID(i, code).docs) = 1
             /\ Answering!WriteErrorWithID(i, code).docs[1].kind = "jsonrpc"
             /\ Answering!WriteErrorWithID(i, code).docs[1].id = i
  BY DEF Answering!WriteErrorWithID, Answering!Write, Answering!Document
<1>3. (taken => q.method = "POST") /\ (fails => taken)
  OBVIOUS
<1>4. \/ q.method # "POST" /\ answer = Answering!HTTPError(405)
      \/ /\ q.method = "POST" /\ ~taken
         /\ answer = Answering!WriteErrorWithID(NoId, Answering!ParseError)
      \/ /\ taken /\ ~fails /\ \E code : answer = Answering!WriteErrorWithID(id, code)
      \/ fails /\ answer = [Answering!Write(200, <<>>) EXCEPT !.panic = TRUE]
  BY MessageHandled, Zenon
<1> HIDE DEF answer, served, id, taken, fails
<1>5. CASE q.method # "POST" /\ answer = Answering!HTTPError(405)
  <2>1. ~wrapped.panic
    BY <1>5, WrappedRefusal
  <2>2. ~served.panic
    BY <1>1, <2>1, AnswerWritten
  <2> QED
    BY <1>0, <1>3, <1>5, <2>2
<1>6. ASSUME q.method = "POST", ~fails, NEW i, NEW code,
             answer = Answering!WriteErrorWithID(i, code), taken => i = id
      PROVE  Answering!AnswersNameTheMessage(config, q, outcome)
  <2>1. wrapped = Answering!WriteErrorWithID(i, code)
    BY <1>6, WrappedDocument
  <2>2. served = Answering!WriteErrorWithID(i, code)
    BY <1>1, <1>2, <1>6, <2>1
  <2> QED
    BY <1>0, <1>2, <1>6, <2>2
<1>7. CASE fails /\ answer = [Answering!Write(200, <<>>) EXCEPT !.panic = TRUE]
  <2> DEFINE document == Answering!HandleHTTPError(config.transformer, 500)
  <2>1. wrapped = Answering!Write(500, <<document>>)
    BY <1>7, WrappedPanic
  <2>2. /\ ~Answering!Write(500, <<document>>).panic
        /\ Answering!Write(500, <<document>>).status = 500
        /\ Answering!Write(500, <<document>>).docs = <<document>>
    BY AnswerWritten
  <2>3. served = Answering!Write(500, <<document>>)
    BY <1>1, <1>3, <1>7, <2>1, <2>2
  <2>4. Len(<<document>>) = 1
    OBVIOUS
  <2> HIDE DEF document
  <2>5. ~served.panic /\ served.status = 500 /\ Len(served.docs) = 1
    BY <2>2, <2>3, <2>4
  <2>6. fails
    BY <1>7
  <2> QED
    BY <1>0, <2>5, <2>6
<1> QED
  BY <1>3, <1>4, <1>5, <1>6, <1>7

-----------------------------------------------------------------------------
(***************************************************************************)
(* The stdio transport, for every input and any number of Starts.  A line  *)
(* that was scanned is in one place at most: with a scanner goroutine, in  *)
(* its channel, or answered (OnePlace); what a loop can still take comes   *)
(* after all that was answered, as long as no two loops ran (OneLoop); and   *)
(* what the only loop has not answered it can still take (Whole).          *)
(***************************************************************************)
CONSTANTS Lines, ScanBuffer
VARIABLES kind, read, loop, scanner, scanChan, cancelled, output, overlapped

Stdio == INSTANCE StdioTransport

StdioOptions == Lines \in Nat /\ ScanBuffer \in Nat /\ MaxStarts \in Nat \ {0}

StdioShape ==
    /\ kind \in Stdio!Inputs
    /\ read \in 0..Lines /\ running \in BOOLEAN /\ overlapped \in BOOLEAN
    /\ loop \in [Stdio!Starts -> {"new", "select", "eof", "error", "cancelled"}]
    /\ scanner \in [Stdio!Starts -> [pc : {"new", "scan", "send", "fail", "closed", "gone"},
                                     line : 0..Lines]]
    /\ scanChan \in [Stdio!Starts -> Seq(0..Lines)]
    /\ \A s \in Stdio!Starts : Len(scanChan[s]) <= ScanBuffer
    /\ cancelled \in SUBSET Stdio!Starts
    /\ output \in Seq(1..Lines)

\* The lines a Start may still be given.
Waiting(s) ==
    {n \in 1..Lines : \/ scanner[s].pc = "send" /\ scanner[s].line = n
                      \/ \E i \in DOMAIN scanChan[s] : scanChan[s][i] = n}
Printed == {output[i] : i \in DOMAIN output}

OnePlace ==
    /\ \A s \in Stdio!Starts :
          /\ Waiting(s) \subseteq 1..read /\ Waiting(s) \cap Printed = {}
          /\ \A t \in Stdio!Starts \ {s} : Waiting(s) \cap Waiting(t) = {}
    /\ Printed \subseteq 1..read
    /\ \A i, j \in DOMAIN output : i # j => output[i] # output[j]
    /\ \A i \in DOMAIN output : kind.line[output[i]] \in Stdio!Answered

\* A channel holds lines in their order, and the one that is sent comes last.
InOrder ==
    \A s \in Stdio!Starts :
        /\ scanner[s].pc = "send" => scanner[s].line \in 1..Lines
        /\ \A i, j \in DOMAIN scanChan[s] :
              i < j /\ scanChan[s][i] # Stdio!Failed /\ scanChan[s][j] # Stdio!Failed
                 => scanChan[s][i] < scanChan[s][j]
        /\ \A i \in DOMAIN scanChan[s] :
              /\ scanChan[s][i] <= read
              /\ scanner[s].pc = "send" => scanChan[s][i] < scanner[s].line

OneLoop ==
    ~overlapped =>
        /\ \A s, t \in Stdio!Starts : loop[s] = "select" /\ loop[t] = "select" => s = t
        /\ \A s \in Stdio!Starts : loop[s] = "select" =>
              \A n \in Waiting(s), m \in Printed : m < n
        /\ \A i, j \in DOMAIN output : i < j => output[i] < output[j]

\* Where a Start stands, and the input with it.
Stands ==
    /\ \A s \in Stdio!Starts :
          /\ loop[s] = "new" => scanner[s].pc = "new" /\ scanChan[s] = <<>>
          /\ loop[1] = "new" => loop[s] = "new"
          /\ scanner[s].pc = "closed" => read = Lines
          /\ loop[s] = "eof" => scanner[s].pc = "closed" /\ scanChan[s] = <<>>
    /\ loop[1] = "new" => read = 0

Whole ==
    /\ \A s \in Stdio!Starts \ {1} : loop[s] = "new"
    /\ loop[1] \in {"select", "eof"} /\ scanner[1].pc # "gone"
    => \A n \in 1..read : kind.line[n] \in Stdio!Answered => n \in Waiting(1) \cup Printed

StdioInv == StdioShape /\ OnePlace /\ InOrder /\ OneLoop /\ Stands /\ Whole

LEMMA StartsAreNumbers ==
    ASSUME StdioOptions
    PROVE  1 \in Stdio!Starts /\ \A s \in Stdio!Starts : s \in Nat /\ (s # 1 => 1 \in 1..(s - 1))
  BY DEF StdioOptions, Stdio!Starts

LEMMA SeqElement ==
    ASSUME NEW S, NEW q \in Seq(S)
    PROVE  Len(q) \in Nat /\ \A i \in DOMAIN q : q[i] \in S /\ i \in Nat
  OBVIOUS

LEMMA TailFacts ==
    ASSUME NEW S, NEW q \in Seq(S), q # <<>>
    PROVE  /\ Len(q) \in Nat \ {0} /\ 1 \in DOMAIN q /\ Head(q) = q[1] /\ q[1] \in S
           /\ Tail(q) \in Seq(S) /\ Len(Tail(q)) = Len(q) - 1
           /\ \A i \in DOMAIN Tail(q) : i \in Nat \ {0} /\ i + 1 \in DOMAIN q /\ Tail(q)[i] = q[i + 1]
           /\ \A i \in DOMAIN q \ {1} : i \in Nat /\ i - 1 \in DOMAIN Tail(q) /\ Tail(q)[i - 1] = q[i]
  OBVIOUS

LEMMA StdioBegins == ASSUME StdioOptions, Stdio!Init PROVE StdioInv
<1>1. StdioShape
  <2>1. \A s \in Stdio!Starts : Len(scanChan[s]) <= ScanBuffer
    BY DEF StdioOptions, Stdio!Init
  <2>2. 0 \in 0..Lines
    BY DEF StdioOptions
  <2>3. <<>> \in Seq(0..Lines) /\ <<>> \in Seq(1..Lines)
    OBVIOUS
  <2>4. /\ scanChan \in [Stdio!Starts -> Seq(0..Lines)] /\ output \in Seq(1..Lines)
        /\ loop \in [Stdio!Starts -> {"new", "select", "eof", "error", "cancelled"}]
        /\ scanner \in [Stdio!Starts -> [pc : {"new", "scan", "send", "fail", "closed", "gone"},
                                         line : 0..Lines]]
    BY <2>2, <2>3 DEF Stdio!Init
  <2> QED
    BY <2>1, <2>2, <2>4 DEF Stdio!Init, StdioShape
<1>2. Printed = {} /\ \A s \in Stdio!Starts : Waiting(s) = {}
  BY DEF Stdio!Init, Printed, Waiting
<1>3. OnePlace /\ InOrder /\ OneLoop
  BY <1>2 DEF Stdio!Init, OnePlace, InOrder, OneLoop
<1>4. Stands
  BY StartsAreNumbers DEF Stdio!Init, Stands
<1>5. Whole
  BY StartsAreNumbers DEF Stdio!Init, Whole
<1> QED
  BY <1>1, <1>3, <1>4, <1>5 DEF StdioInv

\* Steps that answer nothing and scan nothing.
LEMMA NothingTaken ==
    ASSUME StdioInv, UNCHANGED <<kind, read, output, overlapped>>,
           \A s \in Stdio!Starts : /\ Waiting(s)' \subseteq Waiting(s)
                                   /\ loop'[s] = "select" => loop[s] = "select"
    PROVE  OnePlace' /\ OneLoop'
<1>1. Printed' = Printed
  BY DEF Printed
<1>2. OnePlace'
  BY <1>1 DEF StdioInv, OnePlace
<1>3. OneLoop'
  BY <1>1 DEF StdioInv, OneLoop
<1> QED
  BY <1>2, <1>3

LEMMA StdioStops ==
    ASSUME StdioOptions, StdioInv, Stdio!Stop \/ \E s \in Stdio!Starts : Stdio!Cancel(s)
    PROVE  StdioInv'
<1>1. UNCHANGED <<kind, read, output, overlapped, loop, scanner, scanChan>>
  BY DEF Stdio!Stop, Stdio!Cancel
<1>2. StdioShape'
  BY <1>1 DEF StdioInv, StdioShape, Stdio!Stop, Stdio!Cancel
<1>3. Printed' = Printed /\ \A s \in Stdio!Starts : Waiting(s)' = Waiting(s)
  BY <1>1 DEF Printed, Waiting
<1>4. OnePlace' /\ OneLoop'
  BY <1>1, <1>3, NothingTaken
<1>5. InOrder' /\ Stands'
  BY <1>1 DEF StdioInv, InOrder, Stands
<1>6. Whole'
  BY <1>1, <1>3, StartsAreNumbers DEF StdioInv, Whole
<1> QED
  BY <1>2, <1>4, <1>5, <1>6 DEF StdioInv

LEMMA StartKept ==
    ASSUME StdioOptions, StdioInv, NEW s \in Stdio!Starts, Stdio!Start(s)
    PROVE  StdioInv'
<1>1. StdioShape'
  BY DEF StdioInv, StdioShape, Stdio!Start
<1>2. /\ scanChan[s] = <<>> /\ scanChan' = scanChan
      /\ scanner'[s].pc = "scan" /\ loop'[s] = "select"
      /\ \A t \in Stdio!Starts \ {s} : scanner'[t] = scanner[t] /\ loop'[t] = loop[t]
  BY DEF StdioInv, StdioShape, Stands, Stdio!Start
<1>3. /\ Printed' = Printed /\ Waiting(s)' = {}
      /\ \A t \in Stdio!Starts \ {s} : Waiting(t)' = Waiting(t)
  BY <1>2 DEF Printed, Waiting, Stdio!Start
<1>4. OnePlace'
  BY <1>3 DEF StdioInv, OnePlace, Stdio!Start
<1>5. InOrder'
  BY <1>2 DEF StdioInv, InOrder, Stdio!Start
<1>6. OneLoop'
  BY <1>2, <1>3 DEF StdioInv, StdioShape, OneLoop, Stdio!Start
<1>7. loop[1] # "new" \/ s = 1
  BY StartsAreNumbers DEF Stdio!Start
<1>8. Stands'
  BY <1>2, <1>7, StartsAreNumbers DEF StdioInv, Stands, Stdio!Start
<1>9. Whole'
  <2>1. CASE s = 1
    BY <2>1 DEF StdioInv, StdioShape, Stands, Whole, Stdio!Start
  <2>2. CASE s # 1
    BY <2>2, <1>2 DEF Whole
  <2> QED
    BY <2>1, <2>2
<1> QED
  BY <1>1, <1>4, <1>5, <1>6, <1>8, <1>9 DEF StdioInv

LEMMA ScanKept ==
    ASSUME StdioOptions, StdioInv, NEW s \in Stdio!Starts, Stdio!Scan(s)
    PROVE  StdioInv'
<1>1. StdioShape'
  <2>1. scanner[s] \in [pc : {"new", "scan", "send", "fail", "closed", "gone"}, line : 0..Lines]
    BY DEF StdioInv, StdioShape
  <2>2. CASE read < Lines
    <3>1. read' = read + 1 /\ read + 1 \in 0..Lines
      BY <2>2 DEF StdioOptions, StdioInv, StdioShape, Stdio!Scan
    <3>2. scanner' = [scanner EXCEPT ![s] = [pc |-> "send", line |-> read + 1]]
      BY <2>2 DEF Stdio!Scan
    <3> QED
      BY <3>1, <3>2 DEF StdioInv, StdioShape, Stdio!Scan
  <2>3. CASE ~(read < Lines)
    <3>1. \E pc \in {"fail", "closed"} : scanner' = [scanner EXCEPT ![s].pc = pc]
      BY <2>3 DEF Stdio!Scan
    <3>2. scanner' \in [Stdio!Starts -> [pc : {"new", "scan", "send", "fail", "closed", "gone"},
                                         line : 0..Lines]]
      <4>1. PICK pc \in {"fail", "closed"} : scanner' = [scanner EXCEPT ![s].pc = pc]
        BY <3>1
      <4>2. [scanner[s] EXCEPT !.pc = pc] \in
               [pc : {"new", "scan", "send", "fail", "closed", "gone"}, line : 0..Lines]
        BY <2>1
      <4>3. scanner' = [scanner EXCEPT ![s] = [scanner[s] EXCEPT !.pc = pc]]
        BY <4>1 DEF StdioInv, StdioShape
      <4> QED
        BY <4>2, <4>3 DEF StdioInv, StdioShape
    <3> QED
      BY <3>2, <2>3 DEF StdioInv, StdioShape, Stdio!Scan
  <2> QED
    BY <2>2, <2>3
<1>2. /\ scanner[s].pc = "scan" /\ loop[s] # "new" /\ loop[1] # "new"
      /\ \A t \in Stdio!Starts \ {s} : scanner'[t] = scanner[t]
      /\ scanner'[s].pc \in {"send", "fail", "closed"}
  BY DEF StdioInv, StdioShape, Stands, Stdio!Scan
<1>3. /\ Printed' = Printed
      /\ \A t \in Stdio!Starts \ {s} : Waiting(t)' = Waiting(t)
  BY <1>2 DEF Printed, Waiting, Stdio!Scan
<1>4. CASE read < Lines
  <2>1. /\ read' = read + 1 /\ read + 1 \in 1..Lines /\ read \in Nat
        /\ scanner'[s] = [pc |-> "send", line |-> read + 1]
    BY <1>4 DEF StdioOptions, StdioInv, StdioShape, Stdio!Scan
  <2>2. Waiting(s)' = Waiting(s) \cup {read + 1}
    BY <2>1, <1>2 DEF Waiting, Stdio!Scan
  <2>3. OnePlace'
    <3>1. read + 1 \notin Printed /\ \A t \in Stdio!Starts : read + 1 \notin Waiting(t)
      BY <2>1 DEF StdioInv, OnePlace
    <3> QED
      BY <3>1, <2>1, <2>2, <1>3 DEF StdioInv, OnePlace, Stdio!Scan
  <2>4. InOrder'
    <3>1. ASSUME NEW t \in Stdio!Starts, NEW i \in DOMAIN scanChan[t]
          PROVE  scanChan[t][i] <= read /\ scanChan[t][i] \in 0..Lines
      <4>1. scanChan[t] \in Seq(0..Lines)
        BY DEF StdioInv, StdioShape
      <4>2. scanChan[t][i] \in 0..Lines
        BY <4>1, SeqElement
      <4> QED
        BY <4>2 DEF StdioInv, InOrder
    <3> QED
      BY <3>1, <2>1, <1>2 DEF StdioInv, InOrder, Stdio!Scan
  <2>5. OneLoop'
    <3>1. \A m \in Printed : m \in 1..read
      BY DEF StdioInv, OnePlace
    <3> QED
      BY <3>1, <2>1, <2>2, <1>3 DEF StdioInv, OneLoop, Stdio!Scan
  <2>6. Stands'
    <3>1. \A t \in Stdio!Starts : scanner[t].pc # "closed"
      BY <1>4, <2>1 DEF StdioOptions, StdioInv, Stands
    <3> QED
      BY <3>1, <2>1, <1>2 DEF StdioInv, Stands, Stdio!Scan
  <2>7. Whole'
    <3>1. CASE s = 1
      BY <3>1, <2>1, <2>2, <1>2, <1>3 DEF StdioInv, Whole, Stdio!Scan
    <3>2. CASE s # 1
      BY <3>2, <1>2 DEF Whole, Stdio!Scan
    <3> QED
      BY <3>1, <3>2
  <2> QED
    BY <1>1, <2>3, <2>4, <2>5, <2>6, <2>7 DEF StdioInv
<1>5. CASE ~(read < Lines)
  <2>1. /\ read' = read /\ read = Lines
        /\ scanner'[s].pc \in {"fail", "closed"}
    BY <1>5 DEF StdioOptions, StdioInv, StdioShape, Stdio!Scan
  <2>2. Waiting(s)' = Waiting(s)
    BY <2>1, <1>2 DEF Waiting, Stdio!Scan
  <2>3. UNCHANGED <<kind, output, overlapped, loop, scanChan>>
    BY DEF Stdio!Scan
  <2>4. OnePlace' /\ OneLoop'
    BY <2>1, <2>2, <2>3, <1>3, NothingTaken
  <2>5. InOrder' /\ Stands'
    BY <2>1, <2>3, <1>2 DEF StdioInv, InOrder, Stands
  <2>6. Whole'
    BY <2>1, <2>2, <2>3, <1>2, <1>3, StartsAreNumbers DEF StdioInv, Whole
  <2> QED
    BY <1>1, <2>4, <2>5, <2>6 DEF StdioInv
<1> QED
  BY <1>4, <1>5

LEMMA SendLineKept ==
    ASSUME StdioOptions, StdioInv, NEW s \in Stdio!Starts, Stdio!SendLine(s)
    PROVE  StdioInv'
<1>1. /\ UNCHANGED <<kind, read, output, overlapped, loop>> /\ scanner[s].pc = "send"
      /\ scanner[s].line \in 1..Lines /\ loop[s] # "new" /\ loop[s] # "eof" /\ loop[1] # "new"
      /\ scanner'[s].pc \in {"scan", "gone"}
      /\ \A t \in Stdio!Starts \ {s} : scanner'[t] = scanner[t] /\ scanChan'[t] = scanChan[t]
  BY DEF StdioInv, StdioShape, InOrder, Stands, Stdio!SendLine
<1>2. Printed' = Printed /\ \A t \in Stdio!Starts \ {s} : Waiting(t)' = Waiting(t)
  BY <1>1 DEF Printed, Waiting
<1>3. CASE /\ Len(scanChan[s]) < ScanBuffer
           /\ scanChan' = [scanChan EXCEPT ![s] = Append(@, scanner[s].line)]
           /\ scanner' = [scanner EXCEPT ![s] = [pc |-> "scan", line |-> 0]]
  <2> DEFINE q == scanChan[s]
  <2>0. q \in Seq(0..Lines) /\ Len(q) \in Nat /\ scanner'[s].pc = "scan"
    BY <1>3 DEF StdioInv, StdioShape
  <2>1. /\ scanChan'[s] = Append(q, scanner[s].line)
        /\ DOMAIN scanChan'[s] = DOMAIN q \cup {Len(q) + 1}
        /\ \A i \in DOMAIN q : scanChan'[s][i] = q[i] /\ i \in Nat /\ i < Len(q) + 1
        /\ scanChan'[s][Len(q) + 1] = scanner[s].line
        /\ Len(scanChan'[s]) = Len(q) + 1
    BY <1>1, <1>3, <2>0 DEF StdioInv, StdioShape
  <2>2. Waiting(s)' = Waiting(s)
    BY <1>1, <2>0, <2>1 DEF Waiting
  <2>3. StdioShape'
    BY <1>1, <1>3, <2>0, <2>1 DEF StdioOptions, StdioInv, StdioShape, Stdio!SendLine
  <2>4. OnePlace' /\ OneLoop'
    BY <1>1, <1>2, <2>2, NothingTaken
  <2>5. InOrder'
    <3>1. scanner[s].line <= read /\ \A i \in DOMAIN q : q[i] < scanner[s].line
      BY <1>1 DEF StdioInv, OnePlace, InOrder, Waiting
    <3>2. /\ \A i, j \in DOMAIN scanChan'[s] :
                i < j /\ scanChan'[s][i] # Stdio!Failed /\ scanChan'[s][j] # Stdio!Failed
                   => scanChan'[s][i] < scanChan'[s][j]
          /\ \A i \in DOMAIN scanChan'[s] : scanChan'[s][i] <= read
      BY <3>1, <1>1, <2>0, <2>1 DEF StdioInv, InOrder
    <3> QED
      BY <3>2, <1>1, <2>0 DEF StdioInv, InOrder
  <2>6. Stands'
    BY <1>1, <2>0 DEF StdioInv, Stands
  <2>7. Whole'
    BY <1>1, <1>2, <2>0, <2>2, StartsAreNumbers DEF StdioInv, Whole
  <2> QED
    BY <2>3, <2>4, <2>5, <2>6, <2>7 DEF StdioInv
<1>4. CASE /\ scanner' = [scanner EXCEPT ![s] = [pc |-> "gone", line |-> 0]]
           /\ UNCHANGED scanChan
  <2>1. scanner'[s].pc = "gone"
    BY <1>4 DEF StdioInv, StdioShape
  <2>2. Waiting(s)' \subseteq Waiting(s)
    BY <1>4, <2>1 DEF Waiting
  <2>3. StdioShape'
    BY <1>1, <1>4 DEF StdioOptions, StdioInv, StdioShape, Stdio!SendLine
  <2>4. OnePlace' /\ OneLoop'
    BY <1>1, <1>2, <2>2, NothingTaken
  <2>5. InOrder' /\ Stands'
    BY <1>1, <1>4, <2>1 DEF StdioInv, InOrder, Stands
  <2>6. Whole'
    BY <1>1, <2>1, StartsAreNumbers DEF StdioInv, Whole
  <2> QED
    BY <2>3, <2>4, <2>5, <2>6 DEF StdioInv
<1> QED
  BY <1>3, <1>4 DEF Stdio!SendLine

LEMMA SendErrorKept ==
    ASSUME StdioOptions, StdioInv, NEW s \in Stdio!Starts, Stdio!SendError(s)
    PROVE  StdioInv'
<1> DEFINE q == scanChan[s]
<1>1. /\ UNCHANGED <<kind, read, output, overlapped, loop>> /\ scanner[s].pc = "fail"
      /\ loop[s] # "new" /\ loop[s] # "eof" /\ loop[1] # "new"
      /\ scanner'[s].pc = "gone" /\ scanner'[s].line \in 0..Lines
      /\ \A t \in Stdio!Starts \ {s} : scanner'[t] = scanner[t] /\ scanChan'[t] = scanChan[t]
  BY DEF StdioInv, StdioShape, InOrder, Stands, Stdio!SendError
<1>2. q \in Seq(0..Lines) /\ Len(q) \in Nat /\ read \in Nat
  BY DEF StdioInv, StdioShape
<1>3. /\ scanChan'[s] = Append(q, Stdio!Failed)
      /\ DOMAIN scanChan'[s] = DOMAIN q \cup {Len(q) + 1}
      /\ \A i \in DOMAIN q : scanChan'[s][i] = q[i] /\ i \in Nat /\ i < Len(q) + 1
      /\ scanChan'[s][Len(q) + 1] = Stdio!Failed
      /\ Len(scanChan'[s]) = Len(q) + 1
  BY <1>2 DEF StdioInv, StdioShape, Stdio!SendError, Stdio!Failed
<1>4. Printed' = Printed /\ \A t \in Stdio!Starts : Waiting(t)' \subseteq Waiting(t)
  <2>1. \A n \in 1..Lines : n # Stdio!Failed
    BY DEF Stdio!Failed
  <2>2. Waiting(s)' \subseteq Waiting(s)
    BY <2>1, <1>1, <1>3 DEF Waiting
  <2> QED
    BY <2>2, <1>1 DEF Printed, Waiting
<1>5. StdioShape'
  BY <1>1, <1>2, <1>3 DEF StdioOptions, StdioInv, StdioShape, Stdio!SendError, Stdio!Failed
<1>6. OnePlace' /\ OneLoop'
  BY <1>1, <1>4, NothingTaken
<1>7. InOrder'
  <2>1. /\ \A i, j \in DOMAIN scanChan'[s] :
              i < j /\ scanChan'[s][i] # Stdio!Failed /\ scanChan'[s][j] # Stdio!Failed
                 => scanChan'[s][i] < scanChan'[s][j]
        /\ \A i \in DOMAIN scanChan'[s] : scanChan'[s][i] <= read
    BY <1>1, <1>2, <1>3 DEF StdioInv, InOrder, Stdio!Failed
  <2> QED
    BY <2>1, <1>1 DEF StdioInv, InOrder
<1>8. Stands'
  BY <1>1 DEF StdioInv, Stands
<1>9. Whole'
  BY <1>1, StartsAreNumbers DEF StdioInv, Whole
<1> QED
  BY <1>5, <1>6, <1>7, <1>8, <1>9 DEF StdioInv

LEMMA HandleLineKept ==
    ASSUME StdioOptions, StdioInv, NEW s \in Stdio!Starts, Stdio!HandleLine(s)
    PROVE  StdioInv'
<1> DEFINE q == scanChan[s]
           n == Head(scanChan[s])
<1>1. /\ UNCHANGED <<kind, read, overlapped, scanner, cancelled>> /\ loop[s] = "select"
      /\ loop[1] # "new" /\ scanChan' = [scanChan EXCEPT ![s] = Tail(@)]
      /\ q # <<>> /\ n # Stdio!Failed
  BY DEF StdioInv, Stands, Stdio!HandleLine
<1>2. /\ q \in Seq(0..Lines) /\ Len(q) \in Nat \ {0} /\ q[1] = n /\ n \in 1..Lines /\ 1 \in DOMAIN q
      /\ Tail(q) \in Seq(0..Lines) /\ Len(Tail(q)) = Len(q) - 1
      /\ \A i \in DOMAIN Tail(q) : i \in Nat \ {0} /\ i + 1 \in DOMAIN q /\ Tail(q)[i] = q[i + 1]
      /\ \A i \in DOMAIN q \ {1} : i \in Nat /\ i - 1 \in DOMAIN Tail(q) /\ Tail(q)[i - 1] = q[i]
  <2>1. q \in Seq(0..Lines) /\ q # <<>> /\ n = Head(q) /\ n # 0
    BY <1>1 DEF StdioInv, StdioShape, Stdio!Failed
  <2>2. \A k \in 0..Lines : k # 0 => k \in 1..Lines
    BY DEF StdioOptions
  <2> DEFINE S == 0..Lines
  <2>3. q \in Seq(S) /\ q # <<>> /\ n = Head(q)
    BY <2>1
  <2> HIDE DEF q, n, S
  <2>4. /\ Len(q) \in Nat \ {0} /\ 1 \in DOMAIN q /\ n = q[1] /\ q[1] \in S
        /\ Tail(q) \in Seq(S) /\ Len(Tail(q)) = Len(q) - 1
        /\ \A i \in DOMAIN Tail(q) : i \in Nat \ {0} /\ i + 1 \in DOMAIN q /\ Tail(q)[i] = q[i + 1]
        /\ \A i \in DOMAIN q \ {1} : i \in Nat /\ i - 1 \in DOMAIN Tail(q) /\ Tail(q)[i - 1] = q[i]
    BY <2>3, TailFacts
  <2>5. n \in 1..Lines
    BY <2>1, <2>2, <2>4 DEF S
  <2> QED
    BY <2>1, <2>4, <2>5 DEF S
<1>3. scanChan'[s] = Tail(q) /\ \A t \in Stdio!Starts \ {s} : scanChan'[t] = scanChan[t]
  BY <1>1 DEF StdioInv, StdioShape
<1>4. /\ n \in Waiting(s) /\ n \in 1..read /\ n \notin Printed
      /\ \A t \in Stdio!Starts \ {s} : n \notin Waiting(t)
  <2>1. n \in Waiting(s)
    BY <1>2 DEF Waiting
  <2> QED
    BY <2>1 DEF StdioInv, OnePlace
<1>5. /\ Waiting(s) = Waiting(s)' \cup {n}
      /\ \A m \in Waiting(s)' : n < m
      /\ \A t \in Stdio!Starts \ {s} : Waiting(t)' = Waiting(t)
  <2>1. \A i \in DOMAIN Tail(q) : Tail(q)[i] # Stdio!Failed => n < Tail(q)[i]
    BY <1>1, <1>2 DEF StdioInv, InOrder
  <2>2. scanner[s].pc = "send" => n < scanner[s].line
    BY <1>2 DEF StdioInv, InOrder
  <2>3. \A m \in 1..Lines : m # Stdio!Failed
    BY DEF Stdio!Failed
  <2>4. Waiting(s)' = {m \in 1..Lines : \/ scanner[s].pc = "send" /\ scanner[s].line = m
                                        \/ \E i \in DOMAIN Tail(q) : Tail(q)[i] = m}
    BY <1>1, <1>3 DEF Waiting
  <2>5. \A m \in Waiting(s)' : n < m
    BY <2>1, <2>2, <2>3, <2>4
  <2>6. Waiting(s) = Waiting(s)' \cup {n}
    <3>1. Waiting(s) = {m \in 1..Lines : \/ scanner[s].pc = "send" /\ scanner[s].line = m
                                        \/ \E i \in DOMAIN q : q[i] = m}
      BY DEF Waiting
    <3> HIDE DEF q, n
    <3>2. \A m : (\E i \in DOMAIN q : q[i] = m) <=> (m = n \/ \E i \in DOMAIN Tail(q) : Tail(q)[i] = m)
      BY <1>2
    <3> QED
      BY <2>4, <3>1, <3>2, <1>2
  <2>7. \A t \in Stdio!Starts \ {s} : Waiting(t)' = Waiting(t)
    BY <1>1, <1>3 DEF Waiting
  <2> QED
    BY <2>5, <2>6, <2>7
<1> HIDE DEF q, n
<1>6. InOrder'
  <2>1. /\ \A i, j \in DOMAIN Tail(q) :
              i < j /\ Tail(q)[i] # Stdio!Failed /\ Tail(q)[j] # Stdio!Failed
                 => Tail(q)[i] < Tail(q)[j]
        /\ \A i \in DOMAIN Tail(q) :
              /\ Tail(q)[i] <= read
              /\ scanner[s].pc = "send" => Tail(q)[i] < scanner[s].line
    <3>1. /\ \A i, j \in DOMAIN q :
                i < j /\ q[i] # Stdio!Failed /\ q[j] # Stdio!Failed => q[i] < q[j]
          /\ \A i \in DOMAIN q :
                /\ q[i] <= read
                /\ scanner[s].pc = "send" => q[i] < scanner[s].line
      BY DEF StdioInv, InOrder, q
    <3> QED
      BY <3>1, <1>2
  <2> QED
    BY <2>1, <1>1, <1>3 DEF StdioInv, InOrder
<1>7. Stands'
  <2>1. loop'[s] # "new" /\ loop'[s] # "eof" /\ loop'[1] # "new"
        /\ \A t \in Stdio!Starts \ {s} : loop'[t] = loop[t]
    BY <1>1, StartsAreNumbers DEF StdioInv, StdioShape, Stdio!HandleLine, Stdio!Return
  <2> QED
    BY <2>1, <1>1, <1>3 DEF StdioInv, Stands
<1>8. CASE /\ kind.line[n] \in Stdio!Answered /\ output' = Append(output, n)
           /\ UNCHANGED <<loop, running>>
  <2>1. /\ output \in Seq(1..Lines) /\ Len(output) \in Nat
        /\ DOMAIN output' = DOMAIN output \cup {Len(output) + 1}
        /\ \A i \in DOMAIN output : output'[i] = output[i] /\ i \in Nat /\ i < Len(output) + 1
        /\ output'[Len(output) + 1] = n
    BY <1>8 DEF StdioInv, StdioShape
  <2>2. Printed' = Printed \cup {n}
    BY <2>1 DEF Printed
  <2>3. StdioShape'
    <3>1. output' \in Seq(1..Lines)
      BY <1>2, <1>8, <2>1
    <3>2. scanChan' \in [Stdio!Starts -> Seq(0..Lines)]
      BY <1>1, <1>2 DEF StdioInv, StdioShape, q
    <3>3. \A t \in Stdio!Starts : Len(scanChan'[t]) <= ScanBuffer
      <4>1. Len(q) <= ScanBuffer
        BY DEF StdioInv, StdioShape, q
      <4>2. Len(Tail(q)) <= ScanBuffer
        BY <4>1, <1>2 DEF StdioOptions
      <4> QED
        BY <4>2, <1>3 DEF StdioInv, StdioShape
    <3> QED
      BY <3>1, <3>2, <3>3, <1>1, <1>8 DEF StdioInv, StdioShape
  <2>4. OnePlace'
    <3>1. Waiting(s)' \subseteq Waiting(s) /\ n \notin Waiting(s)'
      <4>1. \A m \in Waiting(s)' : m \in 1..Lines
        BY DEF Waiting
      <4> QED
        BY <4>1, <1>2, <1>5
    <3>2. \A i \in DOMAIN output : output[i] # n
      BY <1>4 DEF Printed
    <3>3. /\ \A i, j \in DOMAIN output' : i # j => output'[i] # output'[j]
          /\ \A i \in DOMAIN output' : kind'.line[output'[i]] \in Stdio!Answered
      BY <3>2, <1>1, <1>8, <2>1 DEF StdioInv, OnePlace
    <3>4. Printed' \subseteq 1..read'
      BY <1>1, <1>4, <2>2 DEF StdioInv, OnePlace
    <3>5. \A t \in Stdio!Starts :
             /\ Waiting(t)' \subseteq 1..read' /\ Waiting(t)' \cap Printed' = {}
             /\ \A u \in Stdio!Starts \ {t} : Waiting(t)' \cap Waiting(u)' = {}
      BY <3>1, <1>1, <1>4, <1>5, <2>2 DEF StdioInv, OnePlace
    <3> QED
      BY <3>3, <3>4, <3>5 DEF OnePlace
  <2>5. OneLoop'
    <3> SUFFICES ASSUME ~overlapped
                 PROVE  /\ \A t, u \in Stdio!Starts : loop[t] = "select" /\ loop[u] = "select" => t = u
                        /\ \A t \in Stdio!Starts : loop[t] = "select" =>
                              \A m \in Waiting(t)', k \in Printed' : k < m
                        /\ \A i, j \in DOMAIN output' : i < j => output'[i] < output'[j]
      BY <1>1, <1>8 DEF OneLoop
    <3>1. \A t \in Stdio!Starts : loop[t] = "select" => t = s
      BY <1>1 DEF StdioInv, OneLoop
    <3>2. \A k \in Printed : k < n /\ \A m \in Waiting(s)' : k < m
      BY <1>1, <1>4, <1>5 DEF StdioInv, OneLoop
    <3>3. \A m \in Waiting(s)', k \in Printed' : k < m
      BY <3>2, <1>5, <2>2
    <3>4. \A i \in DOMAIN output : output[i] < n
      BY <3>2 DEF Printed
    <3>5. \A i, j \in DOMAIN output' : i < j => output'[i] < output'[j]
      BY <3>4, <2>1 DEF StdioInv, OneLoop
    <3> QED
      BY <3>1, <3>3, <3>5
  <2>6. Whole'
    BY <1>1, <1>5, <1>8, <2>2 DEF StdioInv, Whole
  <2> QED
    BY <1>6, <1>7, <2>3, <2>4, <2>5, <2>6 DEF StdioInv
<1>9. CASE output' = output
  <2>1. StdioShape'
    <3>1. loop' \in [Stdio!Starts -> {"new", "select", "eof", "error", "cancelled"}] /\ running' \in BOOLEAN
      BY DEF StdioInv, StdioShape, Stdio!HandleLine, Stdio!Return
    <3>2. scanChan' \in [Stdio!Starts -> Seq(0..Lines)]
      BY <1>1, <1>2 DEF StdioInv, StdioShape, q
    <3>3. \A t \in Stdio!Starts : Len(scanChan'[t]) <= ScanBuffer
      <4>1. Len(q) <= ScanBuffer
        BY DEF StdioInv, StdioShape, q
      <4>2. Len(Tail(q)) <= ScanBuffer
        BY <4>1, <1>2 DEF StdioOptions
      <4> QED
        BY <4>2, <1>3 DEF StdioInv, StdioShape
    <3> QED
      BY <3>1, <3>2, <3>3, <1>1, <1>9 DEF StdioInv, StdioShape
  <2>2. \A t \in Stdio!Starts : loop'[t] = "select" => loop[t] = "select"
    BY DEF StdioInv, StdioShape, Stdio!HandleLine, Stdio!Return
  <2>3. OnePlace' /\ OneLoop'
    BY <1>1, <1>5, <1>9, <2>2, NothingTaken
  <2>4. Printed' = Printed
    BY <1>9 DEF Printed
  <2>5. Whole'
    <3>1. (kind.line[n] \notin Stdio!Answered /\ loop' = loop) \/ loop'[s] = "error"
      BY <1>2, <1>9 DEF StdioInv, StdioShape, Stdio!HandleLine, Stdio!Return, n
    <3>2. CASE loop'[s] = "error"
      BY <3>2 DEF Whole
    <3>3. CASE kind.line[n] \notin Stdio!Answered /\ loop' = loop
      BY <3>3, <1>1, <1>5, <2>4 DEF StdioInv, Whole
    <3> QED
      BY <3>1, <3>2, <3>3
  <2> QED
    BY <1>6, <1>7, <2>1, <2>3, <2>5 DEF StdioInv
<1> QED
  BY <1>8, <1>9 DEF Stdio!HandleLine, n

LEMMA LoopEnds ==
    ASSUME StdioOptions, StdioInv, NEW s \in Stdio!Starts,
           Stdio!InputFails(s) \/ Stdio!InputEnds(s) \/ Stdio!ContextDone(s)
    PROVE  StdioInv'
<1> DEFINE q == scanChan[s]
<1>1. /\ UNCHANGED <<kind, read, output, overlapped, scanner, cancelled>> /\ loop[s] = "select"
      /\ loop[1] # "new" /\ running' = FALSE
      /\ \E why \in {"error", "eof", "cancelled"} :
            /\ loop' = [loop EXCEPT ![s] = why]
            /\ why = "eof" => scanner[s].pc = "closed" /\ scanChan'[s] = <<>>
      /\ \/ scanChan' = scanChan
         \/ /\ q # <<>> /\ Head(q) = Stdio!Failed
            /\ scanChan' = [scanChan EXCEPT ![s] = Tail(@)] /\ loop' = [loop EXCEPT ![s] = "error"]
  BY DEF StdioInv, Stands, Stdio!InputFails, Stdio!InputEnds, Stdio!ContextDone, Stdio!Return
<1>2. /\ q \in Seq(0..Lines) /\ Len(q) \in Nat
      /\ q # <<>> =>
            /\ Tail(q) \in Seq(0..Lines) /\ Len(Tail(q)) = Len(q) - 1
            /\ \A i \in DOMAIN Tail(q) : i + 1 \in DOMAIN q /\ Tail(q)[i] = q[i + 1] /\ i \in Nat \ {0}
  <2>1. q \in Seq(0..Lines)
    BY DEF StdioInv, StdioShape
  <2> HIDE DEF q
  <2>2. Len(q) \in Nat
    BY <2>1, SeqElement
  <2> QED
    BY <2>1, <2>2, TailFacts
<1>3. StdioShape'
  <2>1. loop' \in [Stdio!Starts -> {"new", "select", "eof", "error", "cancelled"}]
    BY <1>1 DEF StdioInv, StdioShape
  <2>2. scanChan' \in [Stdio!Starts -> Seq(0..Lines)]
    BY <1>1, <1>2 DEF StdioInv, StdioShape
  <2>3. \A t \in Stdio!Starts : Len(scanChan'[t]) <= ScanBuffer
    <3>1. /\ scanChan' = scanChan \/ (q # <<>> /\ scanChan'[s] = Tail(q))
          /\ \A t \in Stdio!Starts \ {s} : scanChan'[t] = scanChan[t]
      BY <1>1 DEF StdioInv, StdioShape
    <3>2. Len(q) <= ScanBuffer /\ (q # <<>> => Len(Tail(q)) <= ScanBuffer)
      BY <1>2 DEF StdioOptions, StdioInv, StdioShape
    <3> QED
      BY <3>1, <3>2 DEF StdioInv, StdioShape
  <2> QED
    BY <2>1, <2>2, <2>3, <1>1 DEF StdioInv, StdioShape
<1>4. /\ scanChan' = scanChan \/ (scanChan'[s] = Tail(q) /\ q # <<>>)
      /\ \A t \in Stdio!Starts \ {s} : scanChan'[t] = scanChan[t] /\ loop'[t] = loop[t]
      /\ loop'[s] \notin {"new", "select"}
      /\ loop'[s] = "eof" => scanner[s].pc = "closed" /\ scanChan'[s] = <<>>
  <2>1. PICK why \in {"error", "eof", "cancelled"} :
          /\ loop' = [loop EXCEPT ![s] = why]
          /\ why = "eof" => scanner[s].pc = "closed" /\ scanChan'[s] = <<>>
    BY <1>1
  <2>2. loop'[s] = why /\ \A t \in Stdio!Starts \ {s} : loop'[t] = loop[t]
    BY <2>1 DEF StdioInv, StdioShape
  <2>3. /\ scanChan' = scanChan \/ (scanChan'[s] = Tail(q) /\ q # <<>>)
        /\ \A t \in Stdio!Starts \ {s} : scanChan'[t] = scanChan[t]
    BY <1>1 DEF StdioInv, StdioShape
  <2> QED
    BY <2>1, <2>2, <2>3
<1>5. Printed' = Printed /\ \A t \in Stdio!Starts : Waiting(t)' \subseteq Waiting(t)
  <2>1. \A i \in DOMAIN scanChan'[s] : \E j \in DOMAIN q : q[j] = scanChan'[s][i]
    BY <1>2, <1>4
  <2>2. Waiting(s)' \subseteq Waiting(s)
    BY <2>1, <1>1 DEF Waiting
  <2> QED
    BY <2>2, <1>1, <1>4 DEF Printed, Waiting
<1>6. OnePlace' /\ OneLoop'
  BY <1>1, <1>4, <1>5, NothingTaken
<1>7. InOrder'
  <2>1. CASE scanChan' = scanChan
    BY <2>1, <1>1 DEF StdioInv, InOrder
  <2>2. CASE scanChan'[s] = Tail(q) /\ q # <<>>
    <3>1. /\ \A i, j \in DOMAIN q :
                i < j /\ q[i] # Stdio!Failed /\ q[j] # Stdio!Failed => q[i] < q[j]
          /\ \A i \in DOMAIN q :
                /\ q[i] <= read
                /\ scanner[s].pc = "send" => q[i] < scanner[s].line
      BY DEF StdioInv, InOrder
    <3> HIDE DEF q
    <3>2. /\ \A i, j \in DOMAIN Tail(q) :
                i < j /\ Tail(q)[i] # Stdio!Failed /\ Tail(q)[j] # Stdio!Failed
                   => Tail(q)[i] < Tail(q)[j]
          /\ \A i \in DOMAIN Tail(q) :
                /\ Tail(q)[i] <= read
                /\ scanner[s].pc = "send" => Tail(q)[i] < scanner[s].line
      BY <3>1, <1>2, <2>2
    <3> QED
      BY <3>2, <1>1, <1>4, <2>2 DEF StdioInv, InOrder
  <2> QED
    BY <1>4, <2>1, <2>2
<1>8. Stands'
  <2>1. loop'[1] # "new"
    BY <1>1, <1>4, StartsAreNumbers
  <2> QED
    BY <2>1, <1>1, <1>4 DEF StdioInv, Stands
<1>9. Whole'
  <2>1. CASE s # 1 \/ loop'[s] # "eof"
    BY <2>1, <1>4 DEF Whole
  <2>2. CASE s = 1 /\ loop'[s] = "eof"
    <3>1. scanChan' = scanChan
      BY <2>2, <1>1 DEF StdioInv, StdioShape
    <3>2. Waiting(1)' = Waiting(1)
      BY <3>1, <1>1 DEF Waiting
    <3> QED
      BY <3>2, <2>2, <1>1, <1>4, <1>5 DEF StdioInv, Whole
  <2> QED
    BY <2>1, <2>2
<1> QED
  BY <1>3, <1>6, <1>7, <1>8, <1>9 DEF StdioInv

LEMMA StdioInvariance ==
    ASSUME StdioOptions
    PROVE  Stdio!Init /\ [][Stdio!Next]_(Stdio!vars) => []StdioInv
<1>1. Stdio!Init => StdioInv
  BY StdioBegins
<1>2. StdioInv /\ [Stdio!Next]_(Stdio!vars) => StdioInv'
  <2> SUFFICES ASSUME StdioInv, [Stdio!Next]_(Stdio!vars) PROVE StdioInv'
    OBVIOUS
  <2>1. CASE Stdio!Next
    BY <2>1, StdioStops, StartKept, ScanKept, SendLineKept, SendErrorKept, HandleLineKept, LoopEnds
       DEF Stdio!Next
  <2>2. CASE UNCHANGED Stdio!vars
    <3>1. UNCHANGED <<kind, read, running, loop, scanner, scanChan, cancelled, output, overlapped>>
      BY <2>2 DEF Stdio!vars
    <3>2. Printed' = Printed /\ \A s \in Stdio!Starts : Waiting(s)' = Waiting(s)
      BY <3>1 DEF Printed, Waiting
    <3>3. StdioShape' /\ InOrder' /\ Stands'
      BY <3>1 DEF StdioInv, StdioShape, InOrder, Stands
    <3>4. OnePlace' /\ OneLoop'
      BY <3>1, <3>2, NothingTaken
    <3>5. Whole'
      BY <3>1, <3>2, StartsAreNumbers DEF StdioInv, Whole
    <3> QED
      BY <3>3, <3>4, <3>5 DEF StdioInv
  <2> QED
    BY <2>1, <2>2
<1> QED
  BY <1>1, <1>2, PTL

LEMMA LinesAnsweredWithoutFairness ==
    ASSUME StdioOptions
    PROVE  Stdio!Init /\ [][Stdio!Next]_(Stdio!vars) => []Stdio!LinesAnswered
<1>1. StdioInv => Stdio!LinesAnswered
  <2> SUFFICES ASSUME StdioInv PROVE Stdio!LinesAnswered
    OBVIOUS
  <2>1. Stdio!Range(output) = Printed
    BY DEF Stdio!Range, Printed
  <2>2. Stdio!TypeOK
    <3>1. Stdio!Range(output) \subseteq 1..Lines
      <4>1. output \in Seq(1..Lines)
        BY DEF StdioInv, StdioShape
      <4>2. \A i \in DOMAIN output : output[i] \in 1..Lines
        BY <4>1, SeqElement
      <4> QED
        BY <4>2, <2>1 DEF Printed
    <3> QED
      BY <3>1 DEF StdioInv, StdioShape, Stdio!TypeOK
  <2>3. Stdio!AnswersInOrder
    BY DEF StdioInv, OnePlace, OneLoop, Stdio!AnswersInOrder
  <2>4. Stdio!EverythingAnswered
    <3> SUFFICES ASSUME loop[1] = "eof", \A s \in Stdio!Starts \ {1} : loop[s] = "new"
                 PROVE  {n \in 1..Lines : kind.line[n] \in Stdio!Answered} = Printed
      BY <2>1 DEF Stdio!EverythingAnswered
    <3>1. read = Lines /\ scanner[1].pc = "closed" /\ Waiting(1) = {}
      BY StartsAreNumbers DEF StdioInv, Stands, Waiting
    <3>2. {n \in 1..Lines : kind.line[n] \in Stdio!Answered} \subseteq Printed
      BY <3>1 DEF StdioInv, Whole
    <3>3. Printed \subseteq {n \in 1..Lines : kind.line[n] \in Stdio!Answered}
      BY <3>1 DEF StdioInv, OnePlace, Printed
    <3> QED
      BY <3>2, <3>3
  <2> QED
    BY <2>2, <2>3, <2>4 DEF Stdio!LinesAnswered
<1>2. Stdio!Init /\ [][Stdio!Next]_(Stdio!vars) => []StdioInv
  BY StdioInvariance
<1> QED
  BY <1>1, <1>2, PTL

(* No line is answered twice and, while one loop runs at a time, none before *)
(* an earlier one; a Start that was the only one and saw the end of the      *)
(* input has answered every line that asks for it (transport/stdio.go).      *)
THEOREM LinesAnsweredOnce ==
    ASSUME StdioOptions
    PROVE  Stdio!Spec => []Stdio!LinesAnswered
  BY LinesAnsweredWithoutFairness, PTL DEF Stdio!Spec

-----------------------------------------------------------------------------
(***************************************************************************)
(* The REST transport, for every set of requests and of clients.  The      *)
(* limiter holds at least the requests it let pass within the last window, *)
(* so that counting what is left of them counts the window (Windowed); and *)
(* windows that are over do not grow, as nothing passes in the past.       *)
(***************************************************************************)
CONSTANTS Requests, Clients, RateLimit, Window, MaxClock, MaxHandlers
VARIABLES hasKey, generation, admissions, now, requests

REST == INSTANCE RESTTransport WITH handler <- generation

RESTOptions ==
    /\ Clients # {} /\ RateLimit \in Int /\ Window \in Nat
    /\ MaxClock \in Nat /\ MaxHandlers \in Nat

Stages == {"new", "limit", "auth", "mux", "handler", "done"}
Statuses == {0, 200, 400, 401, 404, 405, 429, 500}
Ticks == 0..MaxClock
Generations == 0..MaxHandlers
RESTRequest == [pc : Stages, client : Clients, key : BOOLEAN, at : Ticks,
                since : Generations, by : Generations, status : Statuses]

RESTShape ==
    /\ hasKey \in BOOLEAN /\ running \in BOOLEAN
    /\ generation \in Generations /\ now \in Ticks
    /\ admissions \in [Clients -> SUBSET Requests]
    /\ requests \in [Requests -> RESTRequest]

\* A request that is past the key had it, none has met a handler older than
\* what it found, and its answer is the last thing it gets.
Guarded ==
    \A r \in Requests :
        /\ requests[r].at <= now /\ requests[r].since <= generation
        /\ requests[r].pc \in {"mux", "handler"} => (hasKey => requests[r].key)
        /\ requests[r].by # 0 => /\ hasKey => requests[r].key
                                 /\ requests[r].since <= requests[r].by
        /\ requests[r].pc # "done" => requests[r].by = 0 /\ requests[r].status = 0

\* What the limiter has kept of the requests it let pass.
Windowed ==
    RateLimit > 0 =>
        \A c \in Clients :
            /\ IsFiniteSet(REST!Passed(c))
            /\ admissions[c] \subseteq REST!Passed(c)
            /\ \A r \in REST!Passed(c) : requests[r].at > now - Window => r \in admissions[c]

RESTInv == RESTShape /\ Guarded /\ Windowed /\ REST!WindowHolds

LEMMA SameCardinalityREST == ASSUME NEW S PROVE REST!Cardinality(S) = Cardinality(S)
  BY DEF REST!Cardinality, Cardinality

\* What a step may make of a request.
Becomes(q, pc, at, by, status, new) ==
    /\ new \in RESTRequest
    /\ new.pc = pc /\ new.at = at /\ new.by = by /\ new.status = status
    /\ new.client = q.client /\ new.key = q.key /\ new.since = q.since

\* A new request, and the request that has arrived.
LEMMA NotYet ==
    ASSUME RESTOptions
    PROVE  /\ REST!NotArrived \in RESTRequest /\ REST!NotArrived.pc = "new"
           /\ REST!NotArrived.status = 0 /\ REST!NotArrived.at = 0
           /\ REST!NotArrived.since = 0 /\ REST!NotArrived.by = 0
           /\ \A c \in Clients, key \in BOOLEAN, g \in Generations :
                 LET a == REST!Arrived(c, key, g)
                 IN /\ a \in RESTRequest /\ a.pc = (IF RateLimit > 0 THEN "limit" ELSE "auth")
                    /\ a.status = 0 /\ a.at = 0 /\ a.since = g /\ a.by = 0
<1> DEFINE n == REST!NotArrived
<1>1. (CHOOSE c \in Clients : TRUE) \in Clients
  BY DEF RESTOptions
<1>2. "new" \in Stages /\ "limit" \in Stages /\ "auth" \in Stages /\ FALSE \in BOOLEAN
      /\ 0 \in Ticks /\ 0 \in Generations /\ 0 \in Statuses
  BY DEF RESTOptions, Stages, Ticks, Generations, Statuses
<1>3. /\ n \in RESTRequest /\ n.pc = "new" /\ n.status = 0 /\ n.at = 0 /\ n.since = 0 /\ n.by = 0
  BY <1>1, <1>2 DEF REST!NotArrived, RESTRequest
<1>4. ASSUME NEW c \in Clients, NEW key \in BOOLEAN, NEW g \in Generations
      PROVE  LET a == REST!Arrived(c, key, g)
             IN /\ a \in RESTRequest /\ a.pc = (IF RateLimit > 0 THEN "limit" ELSE "auth")
                /\ a.status = 0 /\ a.at = 0 /\ a.since = g /\ a.by = 0
  <2> HIDE DEF n
  <2>1. PICK pc \in Stages : pc = (IF RateLimit > 0 THEN "limit" ELSE "auth")
    BY <1>2
  <2>2. REST!Arrived(c, key, g) = [n EXCEPT !.pc = pc, !.client = c, !.key = key, !.since = g]
    BY <2>1 DEF n, REST!Arrived
  <2>3. LET a == [n EXCEPT !.pc = pc, !.client = c, !.key = key, !.since = g]
        IN /\ a \in RESTRequest /\ a.pc = pc
           /\ a.status = 0 /\ a.at = 0 /\ a.since = g /\ a.by = 0
    BY <1>3 DEF RESTRequest
  <2> QED
    BY <2>1, <2>2, <2>3
<1> QED
  BY <1>3, <1>4

LEMMA RESTNumbers ==
    ASSUME RESTOptions, RESTInv
    PROVE  /\ now \in Nat /\ generation \in Nat
           /\ requests \in [Requests -> RESTRequest]
           /\ \A r \in Requests : /\ requests[r] \in RESTRequest /\ requests[r].client \in Clients
                                 /\ requests[r].at \in Nat /\ requests[r].since \in Nat
                                 /\ requests[r].by \in Nat
                                 /\ requests[r].at <= now /\ requests[r].since <= generation
<1>1. Ticks \subseteq Nat /\ Generations \subseteq Nat
  BY DEF RESTOptions, Ticks, Generations
<1>2. requests \in [Requests -> RESTRequest] /\ now \in Ticks /\ generation \in Generations
  BY DEF RESTInv, RESTShape
<1>3. \A r \in Requests : /\ requests[r].client \in Clients /\ requests[r].at \in Ticks
                        /\ requests[r].since \in Generations /\ requests[r].by \in Generations
  BY <1>2 DEF RESTRequest
<1> QED
  BY <1>1, <1>2, <1>3 DEF RESTInv, Guarded

LEMMA RESTBegins == ASSUME RESTOptions, REST!Init PROVE RESTInv
<1>1. REST!NotArrived \in RESTRequest /\ REST!NotArrived.pc = "new" /\ REST!NotArrived.status = 0
      /\ REST!NotArrived.at = 0 /\ REST!NotArrived.since = 0 /\ REST!NotArrived.by = 0
  BY NotYet
<1>2. requests \in [Requests -> RESTRequest] /\ \A r \in Requests : requests[r] = REST!NotArrived
  BY <1>1 DEF REST!Init
<1>3. RESTShape
  <2>1. generation \in Generations /\ now \in Ticks
    BY DEF RESTOptions, REST!Init, Generations, Ticks
  <2> QED
    BY <1>2, <2>1 DEF REST!Init, RESTShape
<1>4. Guarded
  BY <1>1, <1>2 DEF RESTOptions, REST!Init, Guarded
<1>5. \A c \in Clients : REST!Of(c) = {} /\ REST!Passed(c) = {}
  BY <1>1 DEF REST!Init, REST!Of, REST!Passed
<1>6. Windowed
  BY <1>5, FS_EmptySet DEF REST!Init, Windowed
<1>7. REST!WindowHolds
  <2>1. \A c \in Clients, t \in 0..now : REST!WithinWindow(c, t) = {}
    BY <1>5 DEF REST!WithinWindow
  <2> QED
    BY <1>5, <2>1, FS_EmptySet, SameCardinalityREST DEF RESTOptions, REST!WindowHolds
<1> QED
  BY <1>3, <1>4, <1>6, <1>7 DEF RESTInv

\* Steps that let nothing pass and refuse nothing by the limit.
LEMMA WindowsStay ==
    ASSUME RESTInv, UNCHANGED <<admissions, now>>, RateLimit > 0,
           \A c \in Clients : /\ REST!Passed(c)' = REST!Passed(c)
                              /\ \A r \in REST!Passed(c) : requests'[r].at = requests[r].at
                              /\ \A r \in REST!Of(c)' : requests'[r].status = 429 =>
                                    /\ r \in REST!Of(c) /\ requests[r].status = 429
                                    /\ requests'[r].at = requests[r].at
    PROVE  Windowed' /\ REST!WindowHolds'
<1>1. Windowed'
  BY DEF RESTInv, Windowed
<1>2. ASSUME NEW c \in Clients, NEW t
      PROVE  REST!WithinWindow(c, t)' = REST!WithinWindow(c, t)
  BY DEF REST!WithinWindow
<1>3. \A c \in Clients : \A t \in 0..now' : REST!Cardinality(REST!WithinWindow(c, t)') <= RateLimit
  BY <1>2 DEF RESTInv, REST!WindowHolds
<1>4. ASSUME NEW c \in Clients, NEW r \in REST!Of(c)', requests'[r].status = 429
      PROVE  REST!Cardinality(REST!WithinWindow(c, requests[r].at)') >= RateLimit
             /\ requests'[r].at = requests[r].at
  BY <1>2, <1>4 DEF RESTInv, REST!WindowHolds
<1>5. REST!WindowHolds'
  BY <1>3, <1>4 DEF REST!WindowHolds
<1> QED
  BY <1>1, <1>5

LEMMA RESTStopKeeps ==
    ASSUME RESTOptions, RESTInv, REST!Start \/ REST!Stop
    PROVE  RESTInv'
<1>1. UNCHANGED <<hasKey, admissions, now, requests>>
  BY DEF REST!Start, REST!Stop
<1>2. RESTShape' /\ generation' >= generation
  <2>1. CASE REST!Start
    <3>1. generation \in Nat /\ generation < MaxHandlers /\ generation' = generation + 1 /\ running' \in BOOLEAN
      BY <2>1, RESTNumbers DEF REST!Start
    <3>2. generation' \in Generations /\ generation' >= generation
      BY <3>1 DEF RESTOptions, Generations
    <3> QED
      BY <3>1, <3>2, <1>1 DEF RESTInv, RESTShape
  <2>2. CASE REST!Stop
    <3>1. running' = FALSE /\ generation' = generation /\ generation \in Nat
      BY <2>2, RESTNumbers DEF REST!Stop
    <3>2. generation' >= generation
      BY <3>1
    <3> QED
      BY <1>1, <3>1, <3>2 DEF RESTInv, RESTShape
  <2> QED
    BY <2>1, <2>2
<1>3. Guarded'
  <2>1. generation \in Nat /\ generation' \in Nat
    BY <1>2, RESTNumbers DEF RESTOptions, RESTShape, Generations
  <2>2. \A r \in Requests : requests[r].since <= generation'
    BY <2>1, <1>2, RESTNumbers
  <2> QED
    BY <2>2, <1>1 DEF RESTInv, Guarded
<1>4. \A c \in Clients : REST!Passed(c)' = REST!Passed(c) /\ REST!Of(c)' = REST!Of(c)
  BY <1>1 DEF REST!Passed, REST!Of
<1>5. Windowed' /\ REST!WindowHolds'
  BY <1>1, <1>4, WindowsStay DEF Windowed, REST!WindowHolds
<1> QED
  BY <1>2, <1>3, <1>5 DEF RESTInv

LEMMA RESTTickKeeps ==
    ASSUME RESTOptions, RESTInv, REST!Tick
    PROVE  RESTInv'
<1>1. UNCHANGED <<hasKey, running, generation, admissions, requests>> /\ now' = now + 1 /\ now \in Nat
      /\ now' \in Ticks
  BY RESTNumbers DEF RESTOptions, Ticks, REST!Tick
<1>2. RESTShape'
  BY <1>1 DEF RESTInv, RESTShape
<1>3. \A r \in Requests : requests[r].at \in Nat /\ requests[r].at <= now
  BY RESTNumbers
<1>4. Guarded'
  BY <1>1, <1>3 DEF RESTInv, Guarded
<1>5. \A c \in Clients : /\ REST!Passed(c)' = REST!Passed(c) /\ REST!Of(c)' = REST!Of(c)
                         /\ REST!Passed(c) \subseteq Requests
  BY <1>1 DEF REST!Passed, REST!Of
<1>6. Windowed'
  BY <1>1, <1>3, <1>5 DEF RESTOptions, RESTInv, Windowed
<1>7. REST!WindowHolds'
  <2> SUFFICES ASSUME RateLimit > 0, NEW c \in Clients
               PROVE  /\ \A t \in 0..now' : REST!Cardinality(REST!WithinWindow(c, t)') <= RateLimit
                      /\ \A r \in REST!Of(c) : requests[r].status = 429 =>
                            REST!Cardinality(REST!WithinWindow(c, requests[r].at)') >= RateLimit
    BY <1>1, <1>5 DEF REST!WindowHolds
  <2>1. ASSUME NEW t PROVE REST!WithinWindow(c, t)' = REST!WithinWindow(c, t)
    BY <1>1, <1>5 DEF REST!WithinWindow
  <2>2. REST!Cardinality(REST!WithinWindow(c, now')) <= RateLimit
    <3>1. REST!WithinWindow(c, now') \subseteq REST!WithinWindow(c, now)
      BY <1>1, <1>3, <1>5 DEF RESTOptions, REST!WithinWindow
    <3>2. IsFiniteSet(REST!WithinWindow(c, now))
      BY FS_Subset DEF RESTInv, Windowed, REST!WithinWindow
    <3>3. now \in 0..now
      BY <1>1
    <3>4. REST!Cardinality(REST!WithinWindow(c, now)) <= RateLimit
      BY <3>3 DEF RESTInv, REST!WindowHolds
    <3>5. /\ Cardinality(REST!WithinWindow(c, now')) <= Cardinality(REST!WithinWindow(c, now))
          /\ Cardinality(REST!WithinWindow(c, now')) \in Nat /\ Cardinality(REST!WithinWindow(c, now)) \in Nat
      BY <3>1, <3>2, FS_Subset, FS_CardinalityType
    <3> QED
      BY <3>4, <3>5, SameCardinalityREST DEF RESTOptions
  <2>3. \A t \in 0..now' : REST!Cardinality(REST!WithinWindow(c, t)') <= RateLimit
    <3>1. \A t \in 0..now' : t \in 0..now \/ t = now'
      BY <1>1
    <3> QED
      BY <3>1, <2>1, <2>2 DEF RESTInv, REST!WindowHolds
  <2>4. \A r \in REST!Of(c) : requests[r].status = 429 =>
           REST!Cardinality(REST!WithinWindow(c, requests[r].at)') >= RateLimit
    BY <1>1, <2>1 DEF RESTInv, REST!WindowHolds
  <2> QED
    BY <2>3, <2>4
<1> QED
  BY <1>2, <1>4, <1>6, <1>7 DEF RESTInv

LEMMA ArriveKeeps ==
    ASSUME RESTOptions, RESTInv, NEW r \in Requests, NEW c \in Clients, NEW key \in BOOLEAN,
           REST!Arrive(r, c, key) \/ REST!ServeHTTP(r, c, key)
    PROVE  RESTInv'
<1>1. /\ UNCHANGED <<hasKey, running, admissions, now>> /\ requests[r].pc = "new"
      /\ generation' \in Generations /\ generation' >= generation /\ generation' \in Nat
      /\ requests' = [requests EXCEPT ![r] = REST!Arrived(c, key, generation')]
  <2>1. generation \in Nat /\ generation \in Generations
    BY RESTNumbers DEF RESTInv, RESTShape
  <2>2. CASE REST!Arrive(r, c, key)
    BY <2>1, <2>2 DEF REST!Arrive
  <2>3. CASE REST!ServeHTTP(r, c, key)
    <3>1. generation' = generation + 1 /\ generation < MaxHandlers
      BY <2>3 DEF REST!ServeHTTP
    <3>2. generation' \in Generations
      BY <2>1, <3>1 DEF RESTOptions, Generations
    <3> QED
      BY <2>1, <2>3, <3>1, <3>2 DEF REST!ServeHTTP
  <2> QED
    BY <2>2, <2>3
<1>2. LET a == REST!Arrived(c, key, generation')
      IN /\ a \in RESTRequest /\ a.pc = (IF RateLimit > 0 THEN "limit" ELSE "auth") /\ a.status = 0
         /\ a.at = 0 /\ a.since = generation' /\ a.by = 0
  <2>1. PICK g \in Generations : g = generation'
    BY <1>1
  <2> QED
    BY <2>1, NotYet
<1> DEFINE a == REST!Arrived(c, key, generation')
<1> HIDE DEF a
<1>3. /\ RESTShape' /\ requests'[r] = a
      /\ \A q \in Requests \ {r} : requests'[q] = requests[q]
  BY <1>1, <1>2 DEF a, RESTInv, RESTShape
<1>4. Guarded'
  <2>1. now \in Nat /\ generation \in Nat
    BY RESTNumbers
  <2>2. \A q \in Requests \ {r} : requests[q].since <= generation'
    BY <2>1, <1>1, RESTNumbers
  <2>3. a.at <= now /\ a.since <= generation' /\ a.by = 0 /\ a.status = 0
        /\ a.pc # "mux" /\ a.pc # "handler"
    BY <1>1, <1>2, <2>1 DEF a
  <2> QED
    BY <2>2, <2>3, <1>1, <1>3 DEF RESTInv, Guarded
<1>5. ASSUME RateLimit > 0 PROVE Windowed' /\ REST!WindowHolds'
  <2>1. \A d \in Clients : /\ REST!Passed(d)' = REST!Passed(d)
                           /\ \A q \in REST!Passed(d) : requests'[q].at = requests[q].at
    BY <1>1, <1>2, <1>3, <1>5 DEF a, REST!Passed, REST!Of
  <2>2. \A d \in Clients : \A q \in REST!Of(d)' : requests'[q].status = 429 =>
           q \in REST!Of(d) /\ requests[q].status = 429 /\ requests'[q].at = requests[q].at
    BY <1>1, <1>2, <1>3 DEF a, REST!Of
  <2> QED
    BY <1>1, <1>5, <2>1, <2>2, WindowsStay
<1>6. Windowed' /\ REST!WindowHolds'
  BY <1>5 DEF Windowed, REST!WindowHolds
<1> QED
  BY <1>3, <1>4, <1>6 DEF RESTInv

\* The steps of a request that is past the limit.
LEMMA PassedKeeps ==
    ASSUME RESTOptions, RESTInv, NEW r \in Requests,
           REST!Authenticate(r) \/ REST!Dispatch(r) \/ REST!CallHandler(r)
    PROVE  RESTInv'
<1>1. UNCHANGED <<hasKey, running, generation, admissions, now>>
  BY DEF REST!Authenticate, REST!Dispatch, REST!CallHandler
<1>2. requests[r] \in RESTRequest /\ requests \in [Requests -> RESTRequest]
      /\ 0 \in Generations /\ generation \in Generations
      /\ \A status \in {0, 200, 400, 401, 404, 405, 500} : status \in Statuses
      /\ "mux" \in Stages /\ "handler" \in Stages /\ "done" \in Stages
  BY DEF RESTOptions, RESTInv, RESTShape, Generations, Stages, Statuses
<1>3. requests[r].pc \in {"auth", "mux", "handler"} /\ requests[r].by = 0 /\ requests[r].status = 0
  <2>1. requests[r].pc \in {"auth", "mux", "handler"}
    BY DEF REST!Authenticate, REST!Dispatch, REST!CallHandler
  <2> QED
    BY <2>1 DEF RESTInv, Guarded
<1>4. \A q \in Requests \ {r} : requests'[q] = requests[q]
  BY <1>2 DEF REST!Authenticate, REST!Dispatch, REST!CallHandler, REST!Answer
<1>5. PICK pc \in {"mux", "handler", "done"}, by \in {0, generation},
           status \in {0, 200, 400, 401, 404, 405, 500} :
        /\ Becomes(requests[r], pc, requests[r].at, by, status, requests'[r])
        /\ requests' \in [Requests -> RESTRequest]
        /\ pc = "mux" => (hasKey => requests[r].key)
        /\ pc = "handler" => requests[r].pc = "mux"
        /\ by # 0 => requests[r].pc = "handler"
        /\ pc # "done" => by = 0 /\ status = 0
  <2>1. ASSUME NEW pc \in Stages, NEW status \in Statuses,
               requests' = [requests EXCEPT ![r].pc = pc, ![r].status = status]
        PROVE  /\ Becomes(requests[r], pc, requests[r].at, 0, status, requests'[r])
               /\ requests' \in [Requests -> RESTRequest]
    <3> DEFINE q == requests[r]
               new == [q EXCEPT !.pc = pc, !.status = status]
    <3>1. q \in RESTRequest /\ q.by = 0 /\ q.status = 0 /\ generation \in Generations
      BY <1>2, <1>3
    <3>2. requests' = [requests EXCEPT ![r] = new]
      BY <1>2, <2>1
    <3>3. Becomes(q, pc, q.at, 0, status, new)
      <4> HIDE DEF q
      <4> QED
        BY <3>1 DEF Becomes, RESTRequest
    <3>4. new \in RESTRequest
      BY <3>3 DEF Becomes
    <3>5. requests'[r] = new
      <4> HIDE DEF new
      <4> QED
        BY <1>2, <3>2
    <3> HIDE DEF new
    <3> QED
      BY <1>2, <3>2, <3>3, <3>4, <3>5
  <2>2. ASSUME NEW pc \in Stages, NEW status \in Statuses,
               requests' = [requests EXCEPT ![r].pc = pc]
        PROVE  /\ Becomes(requests[r], pc, requests[r].at, 0, 0, requests'[r])
               /\ requests' \in [Requests -> RESTRequest]
    <3> DEFINE q == requests[r]
               new == [q EXCEPT !.pc = pc]
    <3>1. q \in RESTRequest /\ q.by = 0 /\ q.status = 0 /\ generation \in Generations
      BY <1>2, <1>3
    <3>2. requests' = [requests EXCEPT ![r] = new]
      BY <1>2, <2>2
    <3>3. Becomes(q, pc, q.at, 0, 0, new)
      <4> HIDE DEF q
      <4> QED
        BY <3>1 DEF Becomes, RESTRequest
    <3>4. new \in RESTRequest
      BY <3>3 DEF Becomes
    <3>5. requests'[r] = new
      <4> HIDE DEF new
      <4> QED
        BY <1>2, <3>2
    <3> HIDE DEF new
    <3> QED
      BY <1>2, <3>2, <3>3, <3>4, <3>5
  <2>3. ASSUME NEW pc \in Stages, NEW status \in Statuses,
               requests' = [requests EXCEPT ![r].pc = pc, ![r].by = generation, ![r].status = status]
        PROVE  /\ Becomes(requests[r], pc, requests[r].at, generation, status, requests'[r])
               /\ requests' \in [Requests -> RESTRequest]
    <3> DEFINE q == requests[r]
               new == [q EXCEPT !.pc = pc, !.by = generation, !.status = status]
    <3>1. q \in RESTRequest /\ q.by = 0 /\ q.status = 0 /\ generation \in Generations
      BY <1>2, <1>3
    <3>2. requests' = [requests EXCEPT ![r] = new]
      BY <1>2, <2>3
    <3>3. Becomes(q, pc, q.at, generation, status, new)
      <4> HIDE DEF q
      <4> QED
        BY <3>1 DEF Becomes, RESTRequest
    <3>4. new \in RESTRequest
      BY <3>3 DEF Becomes
    <3>5. requests'[r] = new
      <4> HIDE DEF new
      <4> QED
        BY <1>2, <3>2
    <3> HIDE DEF new
    <3> QED
      BY <1>2, <3>2, <3>3, <3>4, <3>5
  <2>4. "mux" \in Stages /\ "handler" \in Stages /\ "done" \in Stages
        /\ 0 \in Statuses /\ 200 \in Statuses /\ 400 \in Statuses /\ 401 \in Statuses
        /\ 404 \in Statuses /\ 405 \in Statuses /\ 500 \in Statuses
    BY DEF Stages, Statuses
  <2>5. CASE REST!Authenticate(r)
    <3>1. \/ requests' = [requests EXCEPT ![r].pc = "done", ![r].status = 401]
          \/ requests' = [requests EXCEPT ![r].pc = "mux"] /\ (hasKey => requests[r].key)
      BY <2>5 DEF REST!Authenticate, REST!Answer
    <3>2. CASE requests' = [requests EXCEPT ![r].pc = "done", ![r].status = 401]
      <4>1. Becomes(requests[r], "done", requests[r].at, 0, 401, requests'[r])
            /\ requests' \in [Requests -> RESTRequest]
        BY <2>1, <2>4, <3>2
      <4> QED
        BY <4>1
    <3>3. CASE requests' = [requests EXCEPT ![r].pc = "mux"] /\ (hasKey => requests[r].key)
      <4>1. Becomes(requests[r], "mux", requests[r].at, 0, 0, requests'[r])
            /\ requests' \in [Requests -> RESTRequest]
        BY <2>2, <2>4, <3>3
      <4> QED
        BY <3>3, <4>1
    <3> QED
      BY <3>1, <3>2, <3>3
  <2>6. CASE REST!Dispatch(r)
    <3>1. REST!Refusals \subseteq {0, 400, 405}
      BY DEF REST!Refusals, REST!Refused
    <3>2. /\ requests[r].pc = "mux"
          /\ \/ \E status \in {200, 400, 404, 405} :
                   requests' = [requests EXCEPT ![r].pc = "done", ![r].status = status]
             \/ requests' = [requests EXCEPT ![r].pc = "handler"]
      BY <2>6, <3>1 DEF REST!Dispatch, REST!Answer
    <3>3. ASSUME NEW status \in Statuses,
                 requests' = [requests EXCEPT ![r].pc = "done", ![r].status = status]
          PROVE  /\ Becomes(requests[r], "done", requests[r].at, 0, status, requests'[r])
                 /\ requests' \in [Requests -> RESTRequest]
      BY <2>1, <2>4, <3>3
    <3>4. ASSUME requests' = [requests EXCEPT ![r].pc = "handler"]
          PROVE  /\ Becomes(requests[r], "handler", requests[r].at, 0, 0, requests'[r])
                 /\ requests' \in [Requests -> RESTRequest]
      BY <2>2, <2>4, <3>4
    <3> QED
      BY <2>4, <3>2, <3>3, <3>4
  <2>7. CASE REST!CallHandler(r)
    <3>1. \A code \in REST!Codes : REST!StatusOf(code) \in {400, 404, 500}
      BY DEF REST!StatusOf, REST!Codes
    <3>2. {200, REST!Recovered} \cup {REST!StatusOf(code) : code \in REST!Codes} \subseteq {200, 400, 404, 500}
      BY <3>1 DEF REST!Recovered
    <3>3. PICK status \in {200, REST!Recovered} \cup {REST!StatusOf(code) : code \in REST!Codes} :
            requests' = [requests EXCEPT ![r].pc = "done", ![r].by = generation, ![r].status = status]
      BY <2>7 DEF REST!CallHandler
    <3>4. status \in {200, 400, 404, 500}
      BY <3>2
    <3>5. status \in Statuses
      BY <3>4 DEF Statuses
    <3>6. /\ Becomes(requests[r], "done", requests[r].at, generation, status, requests'[r])
          /\ requests' \in [Requests -> RESTRequest]
      BY <2>3, <2>4, <3>3, <3>5
    <3>7. requests[r].pc = "handler"
      BY <2>7 DEF REST!CallHandler
    <3> QED
      BY <3>4, <3>6, <3>7
  <2> QED
    BY <2>5, <2>6, <2>7
<1>6. /\ requests'[r].pc = pc /\ requests'[r].by = by
      /\ requests'[r].status = status /\ requests'[r].client = requests[r].client
      /\ requests'[r].key = requests[r].key /\ requests'[r].at = requests[r].at
      /\ requests'[r].since = requests[r].since
  BY <1>5 DEF Becomes
<1>7. RESTShape'
  BY <1>1, <1>5 DEF RESTInv, RESTShape
<1>8. Guarded'
  BY <1>1, <1>3, <1>4, <1>5, <1>6 DEF RESTInv, Guarded
<1>9. ASSUME RateLimit > 0 PROVE Windowed' /\ REST!WindowHolds'
  <2>1. \A d \in Clients : /\ REST!Passed(d)' = REST!Passed(d)
                           /\ \A q \in REST!Passed(d) : requests'[q].at = requests[q].at
    BY <1>3, <1>4, <1>5, <1>6 DEF REST!Passed, REST!Of
  <2>2. \A d \in Clients : \A q \in REST!Of(d)' : requests'[q].status = 429 =>
           q \in REST!Of(d) /\ requests[q].status = 429 /\ requests'[q].at = requests[q].at
    BY <1>3, <1>4, <1>5, <1>6 DEF REST!Of
  <2> QED
    BY <1>1, <1>9, <2>1, <2>2, WindowsStay
<1>10. Windowed' /\ REST!WindowHolds'
  BY <1>9 DEF Windowed, REST!WindowHolds
<1> QED
  BY <1>7, <1>8, <1>10 DEF RESTInv

LEMMA LimitKeeps ==
    ASSUME RESTOptions, RESTInv, NEW r \in Requests, REST!RateLimitStep(r)
    PROVE  RESTInv'
<1>0. PICK c \in Clients : c = requests[r].client
  BY RESTNumbers
<1>1. /\ UNCHANGED <<hasKey, running, generation, now>> /\ requests[r].pc = "limit"
      /\ requests[r] \in RESTRequest /\ requests[r].client = c /\ now \in Nat /\ now \in Ticks
      /\ requests[r].by = 0 /\ requests[r].status = 0
      /\ requests \in [Requests -> RESTRequest] /\ admissions \in [Clients -> SUBSET Requests]
      /\ "auth" \in Stages /\ "done" \in Stages /\ 429 \in Statuses
  <2>1. UNCHANGED <<hasKey, running, generation, now>> /\ requests[r].pc = "limit"
    BY DEF REST!RateLimitStep
  <2>2. requests[r].by = 0 /\ requests[r].status = 0
    BY <2>1 DEF RESTInv, Guarded
  <2> QED
    BY <1>0, <2>1, <2>2, RESTNumbers DEF RESTInv, RESTShape, Stages, Statuses
<1>2. REST!Recent(c) \subseteq admissions[c]
  BY DEF REST!Recent
<1>3. CASE REST!Allow(c)
  <2>1. /\ admissions' = [admissions EXCEPT ![c] = REST!Recent(c) \cup {r}]
        /\ requests' = [requests EXCEPT ![r].pc = "auth", ![r].at = now]
    BY <1>0, <1>3 DEF REST!RateLimitStep
  <2>2. requests'[r] = [requests[r] EXCEPT !.pc = "auth", !.at = now]
        /\ \A q \in Requests \ {r} : requests'[q] = requests[q]
    BY <1>1, <2>1
  <2>3. /\ requests'[r] \in RESTRequest /\ requests'[r].pc = "auth" /\ requests'[r].at = now
        /\ requests'[r].status = 0 /\ requests'[r].by = 0 /\ requests'[r].client = c
        /\ requests'[r].since = requests[r].since /\ requests'[r].key = requests[r].key
    <3>1. PICK by \in Generations, status \in Statuses : by = requests[r].by /\ status = requests[r].status
      BY <1>1 DEF RESTRequest
    <3>2. Becomes(requests[r], "auth", now, 0, 0, requests'[r])
      BY <1>1, <2>2, <3>1 DEF Becomes, RESTRequest
    <3> QED
      BY <1>1, <3>2 DEF Becomes
  <2>4. RESTShape'
    BY <1>1, <1>2, <2>1, <2>2, <2>3 DEF RESTInv, RESTShape
  <2>5. Guarded'
    <3>1. requests'[r].at <= now /\ requests'[r].since <= generation
      BY <1>1, <2>3, RESTNumbers
    <3> QED
      <4>1. \A q \in Requests \ {r} : requests'[q] = requests[q]
        BY <2>2
      <4>2. requests'[r].by = 0 /\ requests'[r].pc \notin {"mux", "handler"}
            /\ (requests'[r].pc # "done" => requests'[r].status = 0)
        BY <2>3
      <4> QED
        BY <1>1, <3>1, <4>1, <4>2 DEF RESTInv, Guarded
  <2>6. /\ admissions'[c] = REST!Recent(c) \cup {r}
        /\ \A d \in Clients \ {c} : admissions'[d] = admissions[d]
    BY <1>1, <2>1 DEF RESTInv, RESTShape
  <2>7. /\ REST!Passed(c)' = REST!Passed(c) \cup {r} /\ r \notin REST!Passed(c)
        /\ \A d \in Clients \ {c} : REST!Passed(d)' = REST!Passed(d) /\ r \notin REST!Passed(d)
        /\ \A d \in Clients : REST!Passed(d) \subseteq Requests
    <3>1. \A q \in Requests : q # r => requests'[q] = requests[q]
      BY <2>2
    <3>2. r \in REST!Of(c) /\ r \in REST!Of(c)' /\ \A d \in Clients \ {c} : r \notin REST!Of(d) /\ r \notin REST!Of(d)'
      BY <1>1, <2>3 DEF REST!Of
    <3>3. \A d \in Clients : \A q \in Requests : q # r => (q \in REST!Passed(d)' <=> q \in REST!Passed(d))
      BY <3>1 DEF REST!Passed, REST!Of
    <3>4. r \in REST!Passed(c)' /\ r \notin REST!Passed(c)
      BY <1>1, <2>3, <3>2 DEF REST!Passed
    <3>5. \A d \in Clients \ {c} : r \notin REST!Passed(d) /\ r \notin REST!Passed(d)'
      BY <3>2 DEF REST!Passed
    <3>6. \A d \in Clients : REST!Passed(d) \subseteq Requests /\ REST!Passed(d)' \subseteq Requests
      BY DEF REST!Passed, REST!Of
    <3> QED
      <4>1. REST!Passed(c)' = REST!Passed(c) \cup {r}
        BY <3>3, <3>4, <3>6, <1>1
      <4>2. \A d \in Clients \ {c} : REST!Passed(d)' = REST!Passed(d)
        BY <3>3, <3>5, <3>6
      <4> QED
        BY <3>4, <3>5, <3>6, <4>1, <4>2
  <2>8. Windowed'
    <3>1. ASSUME NEW d \in Clients, IsFiniteSet(REST!Passed(d)) PROVE IsFiniteSet(REST!Passed(d)')
      <4>1. REST!Passed(d)' = REST!Passed(d) \/ REST!Passed(d)' = REST!Passed(d) \cup {r}
        <5>1. CASE d = c
          BY <2>7, <5>1
        <5>2. CASE d # c
          BY <2>7, <5>2
        <5> QED
          BY <5>1, <5>2
      <4>2. IsFiniteSet(REST!Passed(d) \cup {r})
        BY <3>1, FS_AddElement
      <4> QED
        BY <3>1, <4>1, <4>2
    <3>2. ASSUME RateLimit > 0, NEW d \in Clients
          PROVE  /\ admissions'[d] \subseteq REST!Passed(d)'
                 /\ \A q \in REST!Passed(d)' : requests'[q].at > now' - Window => q \in admissions'[d]
      <4>1. CASE d = c
        BY <1>1, <1>2, <2>2, <2>6, <2>7, <3>2, <4>1 DEF RESTInv, Windowed, REST!Recent
      <4>2. CASE d # c
        BY <1>1, <2>2, <2>6, <2>7, <3>2, <4>2 DEF RESTInv, Windowed
      <4> QED
        BY <4>1, <4>2
    <3> QED
      BY <3>1, <3>2 DEF RESTInv, Windowed
  <2>9. REST!WindowHolds'
    <3> SUFFICES ASSUME RateLimit > 0, NEW d \in Clients
                 PROVE  /\ \A t \in 0..now : REST!Cardinality(REST!WithinWindow(d, t)') <= RateLimit
                        /\ \A q \in REST!Of(d)' : \A t : requests'[q].status = 429 /\ t = requests'[q].at =>
                              REST!Cardinality(REST!WithinWindow(d, t)') >= RateLimit
      BY <1>1 DEF REST!WindowHolds
    <3>0. IsFiniteSet(REST!Passed(d)) /\ IsFiniteSet(REST!Passed(d)')
      BY <2>8 DEF RESTInv, Windowed
    <3>1. ASSUME NEW t \in 0..now PROVE REST!Cardinality(REST!WithinWindow(d, t)') <= RateLimit
      <4>1. CASE d # c \/ t # now
        <5>1. REST!WithinWindow(d, t)' = REST!WithinWindow(d, t)
          <6>1. \A q \in REST!Passed(d) : q # r /\ requests'[q] = requests[q]
            BY <2>2, <2>7
          <6>2. REST!Passed(d)' = REST!Passed(d) \/ (d = c /\ t # now /\ REST!Passed(d)' = REST!Passed(d) \cup {r})
            BY <2>7, <4>1
          <6>3. t # now => ~(requests'[r].at <= t)
            BY <1>1, <2>3
          <6> QED
            BY <6>1, <6>2, <6>3 DEF REST!WithinWindow
        <5> QED
          BY <5>1 DEF RESTInv, REST!WindowHolds
      <4>2. CASE d = c /\ t = now
        <5>1. IsFiniteSet(REST!Recent(c)) /\ Cardinality(REST!Recent(c)) \in Nat
          BY <1>2, <3>0, <4>2, FS_Subset, FS_CardinalityType DEF RESTInv, Windowed
        <5>2. REST!WithinWindow(c, now)' \subseteq REST!Recent(c) \cup {r}
          BY <1>1, <2>2, <2>7 DEF RESTInv, Windowed, REST!WithinWindow, REST!Recent
        <5>3. /\ IsFiniteSet(REST!Recent(c) \cup {r})
              /\ Cardinality(REST!Recent(c) \cup {r}) <= Cardinality(REST!Recent(c)) + 1
              /\ Cardinality(REST!Recent(c) \cup {r}) \in Nat
          <6>1. /\ IsFiniteSet(REST!Recent(c) \cup {r})
                /\ Cardinality(REST!Recent(c) \cup {r}) =
                     (IF r \in REST!Recent(c) THEN Cardinality(REST!Recent(c)) ELSE Cardinality(REST!Recent(c)) + 1)
            BY <5>1, FS_AddElement
          <6>2. Cardinality(REST!Recent(c) \cup {r}) \in Nat
            BY <6>1, FS_CardinalityType
          <6> QED
            BY <5>1, <6>1, <6>2
        <5>4. /\ Cardinality(REST!WithinWindow(c, now)') <= Cardinality(REST!Recent(c) \cup {r})
              /\ Cardinality(REST!WithinWindow(c, now)') \in Nat
          BY <5>2, <5>3, FS_Subset, FS_CardinalityType
        <5>5. Cardinality(REST!Recent(c)) < RateLimit
          BY <1>3, SameCardinalityREST DEF REST!Allow
        <5>6. Cardinality(REST!WithinWindow(c, now)') <= RateLimit
          BY <5>1, <5>3, <5>4, <5>5 DEF RESTOptions
        <5>7. REST!WithinWindow(d, t)' = REST!WithinWindow(c, now)'
          BY <1>1, <4>2 DEF REST!WithinWindow
        <5> QED
          BY <5>6, <5>7, SameCardinalityREST
      <4> QED
        BY <4>1, <4>2
    <3>2. ASSUME NEW q \in REST!Of(d)', NEW t, requests'[q].status = 429, t = requests'[q].at
          PROVE  REST!Cardinality(REST!WithinWindow(d, t)') >= RateLimit
      <4>1. q \in REST!Of(d) /\ requests[q].status = 429 /\ t = requests[q].at
        <5>1. q # r /\ q \in Requests
          BY <2>3, <3>2 DEF REST!Of
        <5> QED
          BY <2>2, <3>2, <5>1 DEF REST!Of
      <4>2. REST!Cardinality(REST!WithinWindow(d, t)) >= RateLimit
        BY <4>1 DEF RESTInv, REST!WindowHolds
      <4>3. REST!WithinWindow(d, t) \subseteq REST!WithinWindow(d, t)'
        BY <2>2, <2>7 DEF REST!WithinWindow
      <4>4. IsFiniteSet(REST!WithinWindow(d, t)')
        BY <3>0, FS_Subset DEF REST!WithinWindow
      <4>5. /\ Cardinality(REST!WithinWindow(d, t)) <= Cardinality(REST!WithinWindow(d, t)')
            /\ Cardinality(REST!WithinWindow(d, t)) \in Nat /\ Cardinality(REST!WithinWindow(d, t)') \in Nat
        BY <4>3, <4>4, FS_Subset, FS_CardinalityType
      <4> QED
        BY <4>2, <4>5, SameCardinalityREST DEF RESTOptions
    <3> QED
      BY <3>1, <3>2
  <2> QED
    BY <2>4, <2>5, <2>8, <2>9 DEF RESTInv
<1>4. CASE ~REST!Allow(c)
  <2>1. /\ admissions' = [admissions EXCEPT ![c] = REST!Recent(c)]
        /\ requests' = [requests EXCEPT ![r].pc = "done", ![r].at = now, ![r].status = 429]
    BY <1>0, <1>4 DEF REST!RateLimitStep
  <2>2. requests'[r] = [requests[r] EXCEPT !.pc = "done", !.at = now, !.status = 429]
        /\ \A q \in Requests \ {r} : requests'[q] = requests[q]
    BY <1>1, <2>1
  <2>3. /\ requests'[r] \in RESTRequest /\ requests'[r].pc = "done" /\ requests'[r].at = now
        /\ requests'[r].status = 429 /\ requests'[r].by = 0 /\ requests'[r].client = c
        /\ requests'[r].since = requests[r].since /\ requests'[r].key = requests[r].key
    <3> DEFINE q == requests[r]
    <3>1. q \in RESTRequest /\ q.by = 0
      BY <1>1
    <3>2. PICK status \in Statuses : status = 429
      BY <1>1
    <3>3. Becomes(q, "done", now, 0, status, [q EXCEPT !.pc = "done", !.at = now, !.status = status])
      <4>1. now \in Ticks /\ "done" \in Stages
        BY <1>1
      <4> HIDE DEF q
      <4> QED
        BY <3>1, <4>1 DEF Becomes, RESTRequest
    <3>4. Becomes(requests[r], "done", now, 0, 429, requests'[r])
      BY <2>2, <3>2, <3>3
    <3> QED
      BY <1>1, <3>4 DEF Becomes
  <2>4. RESTShape'
    BY <1>1, <1>2, <2>1, <2>2, <2>3 DEF RESTInv, RESTShape
  <2>5. Guarded'
    <3>1. requests'[r].at <= now /\ requests'[r].since <= generation
      BY <1>1, <2>3, RESTNumbers
    <3> QED
      <4>1. \A q \in Requests \ {r} : requests'[q] = requests[q]
        BY <2>2
      <4>2. requests'[r].by = 0 /\ requests'[r].pc \notin {"mux", "handler"}
            /\ (requests'[r].pc # "done" => requests'[r].status = 0)
        BY <2>3
      <4> QED
        BY <1>1, <3>1, <4>1, <4>2 DEF RESTInv, Guarded
  <2>6. /\ admissions'[c] = REST!Recent(c)
        /\ \A d \in Clients \ {c} : admissions'[d] = admissions[d]
    BY <1>1, <2>1 DEF RESTInv, RESTShape
  <2>7. \A d \in Clients : /\ REST!Passed(d)' = REST!Passed(d) /\ r \notin REST!Passed(d)
                           /\ REST!Passed(d) \subseteq Requests
    <3>1. \A q \in Requests : q # r => requests'[q] = requests[q]
      BY <2>2
    <3>2. \A d \in Clients : r \notin REST!Passed(d) /\ r \notin REST!Passed(d)'
      BY <1>1, <2>3 DEF REST!Passed
    <3>3. \A d \in Clients : \A q \in Requests : q # r => (q \in REST!Passed(d)' <=> q \in REST!Passed(d))
      BY <3>1 DEF REST!Passed, REST!Of
    <3>4. \A d \in Clients : REST!Passed(d) \subseteq Requests /\ REST!Passed(d)' \subseteq Requests
      BY DEF REST!Passed, REST!Of
    <3> QED
      BY <3>2, <3>3, <3>4
  <2>8. Windowed'
    <3>1. ASSUME RateLimit > 0, NEW d \in Clients
          PROVE  /\ admissions'[d] \subseteq REST!Passed(d)'
                 /\ \A q \in REST!Passed(d)' : requests'[q].at > now' - Window => q \in admissions'[d]
      <4>1. CASE d = c
        BY <1>1, <1>2, <2>2, <2>6, <2>7, <3>1, <4>1 DEF RESTInv, Windowed, REST!Recent
      <4>2. CASE d # c
        BY <1>1, <2>2, <2>6, <2>7, <3>1, <4>2 DEF RESTInv, Windowed
      <4> QED
        BY <4>1, <4>2
    <3> QED
      BY <2>7, <3>1 DEF RESTInv, Windowed
  <2>9. REST!WindowHolds'
    <3> SUFFICES ASSUME RateLimit > 0, NEW d \in Clients
                 PROVE  /\ \A t \in 0..now : REST!Cardinality(REST!WithinWindow(d, t)') <= RateLimit
                        /\ \A q \in REST!Of(d)' : \A t : requests'[q].status = 429 /\ t = requests'[q].at =>
                              REST!Cardinality(REST!WithinWindow(d, t)') >= RateLimit
      BY <1>1 DEF REST!WindowHolds
    <3>1. \A t : REST!WithinWindow(d, t)' = REST!WithinWindow(d, t)
      BY <2>2, <2>7 DEF REST!WithinWindow
    <3>2. \A t \in 0..now : REST!Cardinality(REST!WithinWindow(d, t)') <= RateLimit
      BY <3>1 DEF RESTInv, REST!WindowHolds
    <3>3. ASSUME NEW q \in REST!Of(d)', NEW t, requests'[q].status = 429, t = requests'[q].at
          PROVE  REST!Cardinality(REST!WithinWindow(d, t)') >= RateLimit
      <4>1. CASE q # r
        <5>1. q \in REST!Of(d) /\ requests[q].status = 429 /\ t = requests[q].at
          BY <2>2, <3>3, <4>1 DEF REST!Of
        <5> QED
          BY <3>1, <5>1 DEF RESTInv, REST!WindowHolds
      <4>2. CASE q = r
        <5>1. d = c /\ t = now
          BY <2>3, <3>3, <4>2 DEF REST!Of
        <5>2. IsFiniteSet(REST!Passed(c))
          BY <5>1 DEF RESTInv, Windowed
        <5>3. IsFiniteSet(REST!WithinWindow(c, now)) /\ REST!Recent(c) \subseteq REST!WithinWindow(c, now)
          <6>1. \A p \in Requests : requests[p].at <= now
            BY DEF RESTInv, Guarded
          <6>2. REST!WithinWindow(c, now) \subseteq REST!Passed(c)
            BY DEF REST!WithinWindow
          <6>3. REST!Recent(c) \subseteq REST!WithinWindow(c, now)
            BY <1>1, <2>7, <6>1 DEF RESTInv, Windowed, REST!WithinWindow, REST!Recent
          <6> QED
            BY <5>2, <6>2, <6>3, FS_Subset
        <5>4. /\ Cardinality(REST!Recent(c)) <= Cardinality(REST!WithinWindow(c, now))
              /\ Cardinality(REST!Recent(c)) \in Nat /\ Cardinality(REST!WithinWindow(c, now)) \in Nat
          BY <5>3, FS_Subset, FS_CardinalityType
        <5>5. ~(Cardinality(REST!Recent(c)) < RateLimit)
          BY <1>4, SameCardinalityREST DEF REST!Allow
        <5>6. Cardinality(REST!WithinWindow(c, now)) >= RateLimit
          BY <5>4, <5>5 DEF RESTOptions
        <5> QED
          BY <3>1, <5>1, <5>6, SameCardinalityREST
      <4> QED
        BY <4>1, <4>2
    <3> QED
      BY <3>2, <3>3
  <2> QED
    BY <2>4, <2>5, <2>8, <2>9 DEF RESTInv
<1> QED
  BY <1>3, <1>4

LEMMA RESTInvariance == ASSUME RESTOptions PROVE REST!Spec => []RESTInv
<1>1. REST!Init => RESTInv
  BY RESTBegins
<1>2. RESTInv /\ [REST!Next]_(REST!vars) => RESTInv'
  <2> SUFFICES ASSUME RESTInv, [REST!Next]_(REST!vars) PROVE RESTInv'
    OBVIOUS
  <2>1. CASE REST!Next
    BY <2>1, RESTStopKeeps, RESTTickKeeps, ArriveKeeps, LimitKeeps, PassedKeeps DEF REST!Next
  <2>2. CASE UNCHANGED REST!vars
    BY <2>2 DEF REST!vars, RESTInv, RESTShape, Guarded, Windowed, REST!Passed, REST!Of,
                REST!WindowHolds, REST!WithinWindow
  <2> QED
    BY <2>1, <2>2
<1> QED
  BY <1>1, <1>2, PTL DEF REST!Spec

(* No client has more requests let pass in any window than the limit, none   *)
(* is refused that had not that many in the last one, and a request meets a  *)
(* handler only past the key, and none older than it found                   *)
(* (transport/rest.go).                                                      *)
THEOREM RESTHandled ==
    ASSUME RESTOptions
    PROVE  REST!Spec => []REST!RESTRequestsHandled
<1>1. RESTInv => REST!RESTRequestsHandled
  <2> SUFFICES ASSUME RESTInv PROVE REST!RESTRequestsHandled
    OBVIOUS
  <2>1. REST!TypeOK
    <3>1. hasKey \in BOOLEAN /\ running \in BOOLEAN /\ generation \in 0..MaxHandlers /\ now \in 0..MaxClock
      BY DEF RESTInv, RESTShape, Generations, Ticks
    <3>2. \A c \in Clients : admissions[c] \subseteq {r \in Requests : requests[r].at <= now}
      BY RESTNumbers DEF RESTInv, RESTShape
    <3>3. \A r \in Requests : requests[r].pc \in Stages /\ requests[r].status \in Statuses
      BY RESTNumbers DEF RESTRequest
    <3> QED
      BY <3>1, <3>2, <3>3 DEF REST!TypeOK, Stages, Statuses
  <2>2. REST!CalledHandlerIsCurrent
    BY DEF RESTInv, Guarded, REST!CalledHandlerIsCurrent
  <2> QED
    BY <2>1, <2>2 DEF RESTInv, REST!RESTRequestsHandled
<1>2. REST!Spec => []RESTInv
  BY RESTInvariance
<1> QED
  BY <1>1, <1>2, PTL
=============================================================================

----------------------------- MODULE AppLifecycle -----------------------------
(***************************************************************************)
(* The life of one process once its configuration is valid: internal/app   *)
(* wires the resources, runs the HTTP server (internal/httpserver) beside  *)
(* the worker, and closes everything; the metric flusher posts what        *)
(* internal/azuremonitor has collected.  Startup adds what comes before.   *)
(***************************************************************************)
EXTENDS Naturals, Sequences

CONSTANTS
  Handler,           \* hook requests
  Job,               \* messages the worker processes
  MaxFlushes,        \* bound: periodic flushes
  Faults             \* what may go wrong, see May

ASSUME LifecycleAssumption ==
  /\ Handler \cap Job = {}
  /\ MaxFlushes \in Nat

VARIABLES
  main,              \* where main is
  resources,         \* the closers of app.New in the order they are opened
  opened,            \* how many resources are open
  toClose, closed,   \* closers left to call, and called
  signal, canceled,  \* ctx.Done() of main, and cancel() was called
  listener, server, worker,
  errCh, completed,  \* runServerAndWorker
  err,               \* what the error tells of that Resolve, New or Run returns
  handler,           \* where each request is
  jobs,              \* messages the worker is done with
  flusher, stop, flushes, batch,   \* the periodicMetricFlusher
  points, delivered, \* observations in MetricRecorder.points, and posted
  dropped, failures  \* history: observations lost and errors met

mainVars == <<main, resources, opened, toClose, closed, completed, err>>
ctxVars == <<signal, canceled>>
serverVars == <<listener, server, handler>>
workVars == <<worker, jobs>>
flusherVars == <<flusher, stop, flushes>>
metricVars == <<points, batch, delivered, dropped>>
lifecycleVars == <<mainVars, ctxVars, serverVars, workVars, errCh, flusherVars, metricVars, failures>>

\* What may go wrong: "secrets", "wiring", "signal", "listen", "shutdown",
\* "worker", "close" and "flush".
May(fault) == fault \in Faults

Cancelled == signal \/ canceled
Serving == {h \in Handler : handler[h] = "serving"}
Opened == {resources[i] : i \in 1 .. opened}

\* The errors of the server and of the worker.
HalfError == {"listen", "shutdown", "worker"}

-----------------------------------------------------------------------------
\* app.New opens the next resource; the flusher starts its goroutine.
Open ==
  /\ main = "wiring" /\ opened < Len(resources)
  /\ opened' = opened + 1
  /\ flusher' = IF resources[opened'] = "flusher" THEN "waiting" ELSE flusher
  /\ UNCHANGED <<main, resources, toClose, closed, completed, err, ctxVars, serverVars, workVars, errCh,
                 stop, flushes, metricVars, failures>>

Bus == {"queue", "receiver", "dlq"}

\* How many closers come from newObservabilityRuntime.
Outer == IF resources # <<>> /\ resources[1] = "otel" THEN 2 ELSE 0

CloseOuterOnly ==
  IF opened < Len(resources) /\ resources[opened + 1] \in Bus THEN SubSeq(resources, 1, Outer)
  ELSE SubSeq(resources, 1, opened)

\* closeAfterWiringError: newServiceBusRuntime closes its own, New the others.
CloseOrder ==
  IF opened < Len(resources) /\ resources[opened + 1] \in Bus
  THEN SubSeq(resources, Outer + 1, opened) \o SubSeq(resources, 1, Outer)
  ELSE SubSeq(resources, 1, opened)

\* A constructor of app.New fails, also one after the last resource.
WiringFails ==
  /\ May("wiring") /\ main = "wiring"
  /\ main' = "closing" /\ toClose' = CloseOrder
  /\ err' = err \cup {"wiring"} /\ failures' = failures \cup {"wiring"}
  /\ UNCHANGED <<resources, opened, closed, completed, ctxVars, serverVars, workVars, errCh, flusherVars,
                 metricVars>>

\* App.Run starts the server and the worker.
Run ==
  /\ main = "wiring" /\ opened = Len(resources)
  /\ main' = "running"
  /\ listener' = "listening" /\ server' = "select" /\ worker' = "running"
  /\ UNCHANGED <<resources, opened, toClose, closed, completed, err, ctxVars, handler, jobs, errCh,
                 flusherVars, metricVars, failures>>

\* SIGTERM or an interrupt.
Signal ==
  /\ May("signal") /\ ~ signal /\ main # "exited"
  /\ signal' = TRUE
  /\ UNCHANGED <<mainVars, canceled, serverVars, workVars, errCh, flusherVars, metricVars, failures>>

-----------------------------------------------------------------------------
\* net/http accepts a request, and the request ends with its metric.
Accept(h) ==
  /\ listener = "listening" /\ handler[h] = "new"
  /\ handler' = [handler EXCEPT ![h] = "serving"]
  /\ UNCHANGED <<mainVars, ctxVars, listener, server, workVars, errCh, flusherVars, metricVars,
                 failures>>

Finish(h) ==
  /\ main # "exited" /\ handler[h] = "serving"
  /\ handler' = [handler EXCEPT ![h] = "done"]
  /\ points' = points \cup {h}
  /\ UNCHANGED <<mainVars, ctxVars, listener, server, workVars, errCh, flusherVars, batch,
                 delivered, dropped, failures>>

\* ListenAndServe returns an error of its own.
ListenerFails ==
  /\ May("listen") /\ listener = "listening"
  /\ listener' = "failed"
  /\ failures' = failures \cup {"listen"}
  /\ UNCHANGED <<mainVars, ctxVars, server, handler, workVars, errCh, flusherVars, metricVars>>

\* Server.Run: ctx is done; Shutdown closes the listener first.
Shutdown ==
  /\ server = "select" /\ Cancelled
  /\ server' = "shutdown"
  /\ listener' = IF listener = "listening" THEN "closed" ELSE listener
  /\ UNCHANGED <<mainVars, ctxVars, handler, workVars, errCh, flusherVars, metricVars, failures>>

ShutdownAtOnce ==
  /\ server = "shutdown"
  /\ server' = "returned"
  /\ errCh' = Append(errCh, IF listener = "failed" THEN "listen" ELSE "nil")
  /\ UNCHANGED <<mainVars, ctxVars, listener, handler, workVars, flusherVars, metricVars, failures>>

\* Shutdown waits, without a limit, for the requests; then Run returns its
\* error or else the listener's.
ShutdownReturns ==
  /\ server = "shutdown" /\ Serving = {}
  /\ server' = "returned"
  /\ \/ /\ May("shutdown")
        /\ errCh' = Append(errCh, "shutdown") /\ failures' = failures \cup {"shutdown"}
     \/ /\ errCh' = Append(errCh, IF listener = "failed" THEN "listen" ELSE "nil")
        /\ UNCHANGED failures
  /\ UNCHANGED <<mainVars, ctxVars, listener, handler, workVars, flusherVars, metricVars>>

ServerFailsThenShutsDown ==
  /\ server = "select" /\ listener = "failed"
  /\ server' = "shutdown"
  /\ errCh' = Append(errCh, "listen")
  /\ UNCHANGED <<mainVars, ctxVars, listener, handler, workVars, flusherVars, metricVars, failures>>

\* Server.Run: the listener's error comes first; requests are not waited for.
ServerFails ==
  /\ server = "select" /\ listener = "failed"
  /\ server' = "returned"
  /\ errCh' = Append(errCh, "listen")
  /\ UNCHANGED <<mainVars, ctxVars, listener, handler, workVars, flusherVars, metricVars, failures>>

\* The worker ends a message with its metric.
Process(j) ==
  /\ worker = "running" /\ j \notin jobs
  /\ jobs' = jobs \cup {j}
  /\ points' = points \cup {j}
  /\ UNCHANGED <<mainVars, ctxVars, serverVars, worker, errCh, flusherVars, batch, delivered,
                 dropped, failures>>

\* Worker.Run sees the cancellation, or returns an error.
WorkerReturns ==
  /\ worker = "running" /\ Cancelled
  /\ worker' = "returned"
  /\ errCh' = Append(errCh, "nil")
  /\ UNCHANGED <<mainVars, ctxVars, serverVars, jobs, flusherVars, metricVars, failures>>

WorkerFails ==
  /\ May("worker") /\ worker = "running"
  /\ worker' = "returned"
  /\ errCh' = Append(errCh, "worker") /\ failures' = failures \cup {"worker"}
  /\ UNCHANGED <<mainVars, ctxVars, serverVars, jobs, flusherVars, metricVars>>

-----------------------------------------------------------------------------
CollectFirst ==
  /\ main = "running" /\ errCh # <<>>
  /\ errCh' = Tail(errCh)
  /\ canceled' = TRUE
  /\ err' = IF Head(errCh) # "nil" /\ completed = 0 THEN {Head(errCh)} ELSE err
  /\ completed' = completed + 1
  /\ main' = IF completed' = 2 THEN "closing" ELSE main
  /\ toClose' = IF completed' = 2 THEN resources ELSE toClose
  /\ UNCHANGED <<resources, opened, closed, signal, serverVars, workVars, flusherVars, metricVars, failures>>

CollectWithoutCancel ==
  /\ main = "running" /\ errCh # <<>>
  /\ errCh' = Tail(errCh)
  /\ err' = IF Head(errCh) # "nil" /\ err = {} THEN {Head(errCh)} ELSE err
  /\ completed' = completed + 1
  /\ main' = IF completed' = 2 THEN "closing" ELSE main
  /\ toClose' = IF completed' = 2 THEN resources ELSE toClose
  /\ UNCHANGED <<resources, opened, closed, ctxVars, serverVars, workVars, flusherVars, metricVars, failures>>

\* runServerAndWorker: each result cancels the other half, and the first error
\* is kept; after both, App.Run closes the resources.
Collect ==
  /\ main = "running" /\ errCh # <<>>
  /\ errCh' = Tail(errCh)
  /\ canceled' = TRUE
  /\ err' = IF Head(errCh) # "nil" /\ err = {} THEN {Head(errCh)} ELSE err
  /\ completed' = completed + 1
  /\ main' = IF completed' = 2 THEN "closing" ELSE main
  /\ toClose' = IF completed' = 2 THEN resources ELSE toClose
  /\ UNCHANGED <<resources, opened, closed, signal, serverVars, workVars, flusherVars, metricVars, failures>>

\* closeAppResources: an error does not stop the loop and is joined to the rest.
CloseNext ==
  /\ main = "closing" /\ toClose # <<>> /\ Head(toClose) # "flusher"
  /\ closed' = closed \cup {Head(toClose)}
  /\ toClose' = Tail(toClose)
  /\ \/ UNCHANGED <<err, failures>>
     \/ May("close") /\ err' = err \cup {Head(toClose)} /\ failures' = failures \cup {Head(toClose)}
  /\ UNCHANGED <<main, resources, opened, completed, ctxVars, serverVars, workVars, errCh, flusherVars,
                 metricVars>>

\* periodicMetricFlusher.Close: stop the goroutine, wait for it, flush.
CloseFlusher ==
  /\ main = "closing" /\ toClose # <<>> /\ Head(toClose) = "flusher"
  /\ stop' = TRUE
  /\ main' = "awaiting"
  /\ UNCHANGED <<resources, opened, toClose, closed, completed, err, ctxVars, serverVars, workVars, errCh,
                 flusher, flushes, metricVars, failures>>

LastFlushSkipped ==
  /\ main = "awaiting" /\ flusher = "done"
  /\ main' = "flushing"
  /\ UNCHANGED <<resources, opened, toClose, closed, completed, err, ctxVars, serverVars, workVars, errCh,
                 flusherVars, metricVars, failures>>

LastFlush ==
  /\ main = "awaiting" /\ flusher = "done"
  /\ main' = "flushing"
  /\ batch' = points /\ points' = {}
  /\ UNCHANGED <<resources, opened, toClose, closed, completed, err, ctxVars, serverVars, workVars, errCh,
                 flusherVars, delivered, dropped, failures>>

\* MetricRecorder.Flush after the swap: the payloads are posted one by one,
\* and the first error gives up the rest.
Post(failed) ==
  /\ batch' = {}
  /\ \/ ~ failed /\ delivered' = delivered \cup batch /\ UNCHANGED dropped
     \/ /\ failed /\ May("flush") /\ batch # {}
        /\ \E posted \in SUBSET batch :
             /\ posted # batch
             /\ delivered' = delivered \cup posted
             /\ dropped' = dropped \cup (batch \ posted)

LastPost ==
  /\ main = "flushing"
  /\ \E failed \in BOOLEAN :
       /\ Post(failed)
       /\ err' = IF failed THEN err \cup {"flusher"} ELSE err
       /\ failures' = IF failed THEN failures \cup {"flusher"} ELSE failures
  /\ main' = "closing"
  /\ closed' = closed \cup {"flusher"} /\ toClose' = Tail(toClose)
  /\ UNCHANGED <<resources, opened, completed, ctxVars, serverVars, workVars, errCh, flusherVars, points>>

\* The exit status: main takes an error of App.Run after a signal for part of
\* the shutdown.
ExitCode == IF err # {} /\ ("wiring" \in failures \/ ~ signal) THEN 1 ELSE 0

\* main returns; what still runs is gone.
Exit ==
  /\ main = "closing" /\ toClose = <<>>
  /\ main' = "exited"
  /\ UNCHANGED <<resources, opened, toClose, closed, completed, err, ctxVars, serverVars, workVars, errCh,
                 flusherVars, metricVars, failures>>

-----------------------------------------------------------------------------
\* The goroutine of the flusher: a tick swaps the points out and posts them
\* (an error is only logged), stop ends it.
Flush ==
  /\ flusher = "waiting" /\ flushes < MaxFlushes
  /\ flusher' = "flushing" /\ flushes' = flushes + 1
  /\ batch' = points /\ points' = {}
  /\ UNCHANGED <<mainVars, ctxVars, serverVars, workVars, errCh, stop, delivered, dropped, failures>>

FlushPosts ==
  /\ flusher = "flushing"
  /\ \E failed \in BOOLEAN : Post(failed)
  /\ flusher' = "waiting"
  /\ UNCHANGED <<mainVars, ctxVars, serverVars, workVars, errCh, stop, flushes, points, failures>>

FlusherStops ==
  /\ flusher = "waiting" /\ stop
  /\ flusher' = "done"
  /\ UNCHANGED <<mainVars, ctxVars, serverVars, workVars, errCh, stop, flushes, metricVars, failures>>

-----------------------------------------------------------------------------
LifecycleInit ==
  /\ main = "loading" /\ resources = <<>> /\ opened = 0 /\ toClose = <<>> /\ closed = {}
  /\ completed = 0 /\ err = {}
  /\ signal = FALSE /\ canceled = FALSE
  /\ listener = "off" /\ server = "off" /\ worker = "off"
  /\ handler = [h \in Handler |-> "new"] /\ jobs = {}
  /\ errCh = <<>>
  /\ flusher = "off" /\ stop = FALSE /\ flushes = 0
  /\ points = {} /\ batch = {} /\ delivered = {} /\ dropped = {} /\ failures = {}

Server == Shutdown \/ ShutdownReturns \/ ServerFails
Flusher == Flush \/ FlushPosts \/ FlusherStops
Alive == main # "exited"

-----------------------------------------------------------------------------
\* The types; at most one result of each half is ever in errCh, which has
\* room for two.
LifecycleTypeOK ==
  /\ main \in {"loading", "resolving", "loaded", "wiring", "running", "closing", "awaiting",
               "flushing", "exited"}
  /\ opened \in 0 .. Len(resources)
  /\ closed \subseteq Opened
  /\ listener \in {"off", "listening", "closed", "failed"}
  /\ server \in {"off", "select", "shutdown", "returned"}
  /\ worker \in {"off", "running", "returned"}
  /\ completed + Len(errCh) <= 2 /\ \A i \in DOMAIN errCh : errCh[i] \in HalfError \cup {"nil"}
  /\ handler \in [Handler -> {"new", "serving", "done"}]
  /\ flusher \in {"off", "waiting", "flushing", "done"}
  /\ points \cup batch \cup delivered \cup dropped \subseteq Handler \cup Job
  /\ {signal, canceled, stop} \subseteq BOOLEAN /\ err \subseteq failures

\* No resource is closed under the server, the worker or a request that uses
\* it; only a failed listener leaves requests behind (Server.Run).
ClosedAfterUse ==
  closed # {} => /\ server \in {"off", "returned"}
                 /\ worker \in {"off", "returned"}
                 /\ Serving = {} \/ listener = "failed"

\* Whether wiring fails halfway (in app.New or inside newServiceBusRuntime)
\* or the process stops, everything opened is closed.
NothingLeaks ==
  main = "exited" => closed = Opened /\ flusher \in {"off", "done"}

\* What the returned error tells of: every failure of loading, of wiring and of
\* each closer, whichever others failed; and, if the server or the worker
\* failed, one of their errors (runServerAndWorker keeps the first, and
\* Server.Run an error of Shutdown rather than the listener's).  Periodic flush
\* errors are only logged.  Without a signal the process then exits with 1.
ErrorsReported ==
  main = "exited" =>
    /\ err \ HalfError = failures \ HalfError
    /\ IF failures \cap HalfError = {} THEN err \cap HalfError = {}
       ELSE \E e \in failures \cap HalfError : err \cap HalfError = {e}
    /\ failures # {} /\ ~ signal => ExitCode = 1

\* Every metric recorded by a request or the worker is posted or lost with a
\* failed flush: Close stops the flusher, flushes what is left, and nothing
\* records after that unless the listener failed.
MetricsFlushed ==
  main = "exited" /\ listener # "failed" /\ flusher = "done" =>
    delivered \cup dropped = {h \in Handler : handler[h] = "done"} \cup jobs

\* After a signal, or once either half has returned, the process ends, unless
\* Shutdown waits for ever for a request that does not end (nothing limits a
\* request or the wait).
Stops ==
  signal \/ server = "returned" \/ worker = "returned" ~>
    \/ main = "exited"
    \/ [](server = "shutdown" /\ Serving # {})

=============================================================================

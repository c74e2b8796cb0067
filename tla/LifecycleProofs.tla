--------------------------- MODULE LifecycleProofs ---------------------------
(***************************************************************************)
(* The life of the process is safe with every configuration, every number  *)
(* of requests and messages, and every combination of faults.              *)
(***************************************************************************)
EXTENDS StartupProofs

Resource == {"otel", "flusher", "queue", "receiver", "dlq", "redis"}

\* The types of what LifecycleTypeOK leaves out.
Types ==
  /\ LifecycleTypeOK
  /\ resources \in Seq(Resource) /\ toClose \in Seq(Resource)
  /\ errCh \in Seq(HalfError \cup {"nil"}) /\ completed \in 0 .. 2
  /\ jobs \subseteq Job

\* What is open, closed and left to close in each phase of main, and the part
\* of the flusher in it.
Phases ==
  /\ main \in Early => resources = <<>> /\ opened = 0
  /\ main \notin Ending => closed = {} /\ toClose = <<>>
  /\ main = "running" => opened = Len(resources)
  /\ main \in Ending => closed \cup Elements(toClose) = Opened
  /\ main \in {"awaiting", "flushing"} => toClose # <<>> /\ Head(toClose) = "flusher"
  /\ main = "exited" => toClose = <<>>
  /\ Outer <= Len(resources) /\ \A i \in 1 .. Outer : resources[i] \notin Bus
  /\ \A i \in 1 .. Len(resources) : resources[i] = "flusher" => i = 2
  /\ flusher # "off" => "flusher" \in Opened
  /\ "flusher" \in closed \/ main = "flushing" => flusher = "done"

Returned == (IF server = "returned" THEN 1 ELSE 0) + (IF worker = "returned" THEN 1 ELSE 0)

\* The server and the worker: runServerAndWorker collects one result of each.
Halves ==
  /\ main \in Early \cup {"wiring"} =>
       server = "off" /\ worker = "off" /\ listener = "off" /\ errCh = <<>> /\ completed = 0
  /\ main = "running" =>
       completed < 2 /\ completed + Len(errCh) = Returned /\ server # "off" /\ worker # "off"
  /\ main \in Ending =>
       server \in {"off", "returned"} /\ worker \in {"off", "returned"} /\ errCh = <<>>
  /\ server = "off" <=> listener = "off"
  /\ server \in {"shutdown", "returned"} => listener # "listening"
  /\ server = "off" \/ server = "returned" => Serving = {} \/ listener = "failed"

\* The error of main tells of every failure but those of the halves, and of one
\* of these at most.  If a half failed, main has its error, an error waits in
\* errCh, or the server is about to report its listener's.
Errors ==
  /\ err \ HalfError = failures \ HalfError
  /\ err \cap HalfError \subseteq failures /\ \A d, e \in err \cap HalfError : d = e
  /\ Elements(errCh) \ {"nil"} \subseteq failures
  /\ listener = "failed" => "listen" \in failures
  /\ failures \cap HalfError # {} =>
       \/ err \cap HalfError # {}
       \/ Elements(errCh) \ {"nil"} # {}
       \/ listener = "failed" /\ server \in {"select", "shutdown"}
  /\ main \in Early \cup {"wiring"} => err = {}
  /\ main = "running" => err \subseteq HalfError

\* Where the metrics are; only one of the two flushes is under way.
Metrics ==
  /\ points \cup batch \cup delivered \cup dropped = {h \in Handler : handler[h] = "done"} \cup jobs
  /\ batch # {} => flusher = "flushing" \/ main = "flushing"
  /\ (main = "flushing" \/ "flusher" \in closed) /\ listener # "failed" => points = {}

LifecycleInv == Types /\ Phases /\ Halves /\ Errors /\ Metrics

\* The closers of newObservabilityRuntime come first and are none of Service Bus;
\* there is one flusher.
LEMMA ClosersShape ==
  ASSUME NEW c
  PROVE  /\ Closers(c) \in Seq(Resource)
         /\ \A i \in 1 .. Len(Closers(c)) : Closers(c)[i] = "flusher" => i = 2
         /\ Closers(c) # <<>> /\ Closers(c)[1] = "otel" =>
              Len(Closers(c)) >= 2 /\ \A i \in 1 .. 2 : Closers(c)[i] \notin Bus
<1> DEFINE first == IF AzureMonitor(c) THEN <<"otel", "flusher">> ELSE <<>>
           bus == <<"queue", "receiver", "dlq">>
           last == IF Redis(c) THEN <<"redis">> ELSE <<>>
<1>1. first \in Seq(Resource) /\ bus \in Seq(Resource) /\ last \in Seq(Resource)
  <2>1. <<"otel", "flusher">> \in Seq(Resource)
    BY DEF Resource
  <2>2. <<>> \in Seq(Resource)
    BY DEF Resource
  <2>3. <<"redis">> \in Seq(Resource)
    BY DEF Resource
  <2>4. <<"queue", "receiver", "dlq">> \in Seq(Resource)
    BY DEF Resource
  <2> QED  BY <2>1, <2>2, <2>3, <2>4, Zenon
<1>9. Len(bus) = 3 /\ bus[1] = "queue"
  OBVIOUS
<1>2. \/ Len(first) = 2 /\ first[1] = "otel" /\ first[2] = "flusher"
      \/ Len(first) = 0
  OBVIOUS
<1> HIDE DEF first, bus, last
<1> DEFINE both == first \o bus
<1>3. /\ both \in Seq(Resource) /\ Len(both) = Len(first) + Len(bus)
      /\ \A i \in 1 .. Len(first) + Len(bus) : both[i] = IF i <= Len(first) THEN first[i] ELSE bus[i - Len(first)]
  BY <1>1, ConcatProperties
<1> HIDE DEF both
<1>10. both \in Seq(Resource) /\ last \in Seq(Resource)
  BY <1>1, <1>3
<1> DEFINE full == both \o last
<1>4. /\ full \in Seq(Resource) /\ Len(full) = Len(both) + Len(last)
      /\ \A i \in 1 .. Len(both) + Len(last) : full[i] = IF i <= Len(both) THEN both[i] ELSE last[i - Len(both)]
  BY <1>10, ConcatProperties
<1>5. Closers(c) = full
  BY DEF Closers, first, bus, last, both
<1> HIDE DEF full
<1>6. Len(last) \in Nat /\ Len(first) \in Nat
  BY <1>1
<1>11. /\ \A i \in 1 .. 3 : bus[i] # "flusher"
       /\ \A i \in 1 .. Len(last) : last[i] # "flusher"
       /\ \A i \in 1 .. Len(first) : first[i] = "flusher" => i = 2
  BY DEF bus, last, first
<1>12. \A i \in 1 .. Len(both) : both[i] = "flusher" => i = 2
  BY <1>3, <1>6, <1>9, <1>11
<1>13. \A i \in 1 .. Len(full) : full[i] = "flusher" => i = 2
  <2> SUFFICES ASSUME NEW i \in 1 .. Len(full), full[i] = "flusher" PROVE i = 2
    OBVIOUS
  <2>1. Len(both) \in Nat
    BY <1>10
  <2>2. CASE i <= Len(both)
    BY <2>2, <2>1, <1>4, <1>6, <1>12
  <2>3. CASE ~ (i <= Len(both))
    <3>1. i - Len(both) \in 1 .. Len(last) /\ full[i] = last[i - Len(both)]
      BY <2>3, <2>1, <1>4, <1>6
    <3> QED  BY <3>1, <1>11
  <2> QED  BY <2>2, <2>3
<1>7. CASE Len(first) = 2
  <2>1. both[1] = "otel" /\ both[2] = "flusher" /\ Len(both) = 5
    BY <1>2, <1>3, <1>7, <1>9
  <2>2. Closers(c)[1] = "otel" /\ Closers(c)[2] = "flusher" /\ Len(Closers(c)) >= 2
    BY <2>1, <1>4, <1>5, <1>6
  <2>3. \A i \in 1 .. 2 : Closers(c)[i] \notin Bus
    BY <2>2 DEF Bus
  <2> QED  BY <2>2, <2>3, <1>4, <1>5, <1>13
<1>8. CASE Len(first) = 0
  <2>1. both[1] = "queue" /\ Len(both) = 3
    BY <1>9, <1>3, <1>8
  <2>2. Closers(c)[1] = "queue"
    BY <2>1, <1>4, <1>5, <1>6
  <2> QED  BY <2>2, <1>4, <1>5, <1>13
<1> QED  BY <1>2, <1>5, <1>7, <1>8, <1>13

\* closeAfterWiringError gets every resource that is open, wherever New fails.
LEMMA CloseOrderCloses ==
  ASSUME Types, Phases
  PROVE  CloseOrder \in Seq(Resource) /\ Elements(CloseOrder) = Opened
<1>1. /\ opened \in Nat /\ opened <= Len(resources) /\ Len(resources) \in Nat
      /\ \A i \in 1 .. Len(resources) : resources[i] \in Resource
  BY DEF Types, LifecycleTypeOK
<1> DEFINE all == SubSeq(resources, 1, opened)
           inner == SubSeq(resources, Outer + 1, opened)
           outer == SubSeq(resources, 1, Outer)
<1>2. /\ all \in Seq(Resource) /\ Len(all) = opened
      /\ \A i \in 1 .. opened : all[i] = resources[i]
  <2>1. \A i \in 1 .. opened : resources[i] \in Resource
    BY <1>1
  <2>2. /\ all \in Seq(Resource) /\ Len(all) = IF 1 <= opened THEN opened - 1 + 1 ELSE 0
        /\ \A i \in 1 .. opened - 1 + 1 : all[i] = resources[1 + i - 1]
    BY <2>1, <1>1, SubSeqProperties
  <2> HIDE DEF all
  <2> QED  BY <2>2, <1>1
<1>3. CASE opened < Len(resources) /\ resources[opened + 1] \in Bus
  <2>1. Outer \in Nat /\ Outer <= opened
    BY <1>1, <1>3 DEF Phases, Outer
  <2>2. /\ inner \in Seq(Resource) /\ Len(inner) = opened - Outer
        /\ \A i \in 1 .. opened - Outer : inner[i] = resources[Outer + i]
    <3>1. \A i \in Outer + 1 .. opened : resources[i] \in Resource
      BY <1>1, <2>1
    <3>2. /\ inner \in Seq(Resource)
          /\ Len(inner) = IF Outer + 1 <= opened THEN opened - (Outer + 1) + 1 ELSE 0
          /\ \A i \in 1 .. opened - (Outer + 1) + 1 : inner[i] = resources[(Outer + 1) + i - 1]
      BY <3>1, <2>1, <1>1, SubSeqProperties
    <3> HIDE DEF inner
    <3> QED  BY <3>2, <2>1, <1>1
  <2>3. /\ outer \in Seq(Resource) /\ Len(outer) = Outer
        /\ \A i \in 1 .. Outer : outer[i] = resources[i]
    <3>1. \A i \in 1 .. Outer : resources[i] \in Resource
      BY <1>1, <2>1
    <3>2. /\ outer \in Seq(Resource) /\ Len(outer) = IF 1 <= Outer THEN Outer - 1 + 1 ELSE 0
          /\ \A i \in 1 .. Outer - 1 + 1 : outer[i] = resources[1 + i - 1]
      BY <3>1, <2>1, SubSeqProperties
    <3> HIDE DEF outer
    <3> QED  BY <3>2, <2>1
  <2> HIDE DEF inner, outer
  <2> DEFINE s == inner \o outer
  <2>4. /\ s \in Seq(Resource) /\ Len(s) = opened
        /\ \A i \in 1 .. opened : s[i] =
             IF i <= opened - Outer THEN inner[i] ELSE outer[i - (opened - Outer)]
    BY <2>1, <2>2, <2>3, <1>1, ConcatProperties
  <2>5. CloseOrder = s
    BY <1>3, Zenon DEF CloseOrder, inner, outer
  <2> HIDE DEF s
  <2>6. DOMAIN s = 1 .. opened
    BY <2>4
  <2>7. \A i \in 1 .. opened : \E j \in 1 .. opened : s[i] = resources[j]
    <3> TAKE i \in 1 .. opened
    <3>1. CASE i <= opened - Outer
      <4>1. Outer + i \in 1 .. opened /\ i \in 1 .. opened - Outer
        BY <3>1, <2>1, <1>1
      <4>2. s[i] = inner[i] /\ inner[i] = resources[Outer + i]
        BY <4>1, <3>1, <2>2, <2>4
      <4> QED  BY <4>1, <4>2, Zenon
    <3>2. CASE i > opened - Outer
      <4>1. i - (opened - Outer) \in 1 .. Outer /\ i - (opened - Outer) \in 1 .. opened
        BY <3>2, <2>1, <1>1
      <4>2. s[i] = outer[i - (opened - Outer)]
        BY <3>2, <2>1, <2>4, <1>1
      <4> QED  BY <4>1, <4>2, <2>3
    <3> QED  BY <3>1, <3>2, <2>1, <1>1
  <2>8. \A j \in 1 .. opened : \E i \in 1 .. opened : s[i] = resources[j]
    <3> TAKE j \in 1 .. opened
    <3>1. CASE j <= Outer
      <4> DEFINE k == j + (opened - Outer)
      <4>1. k \in 1 .. opened /\ ~ (k <= opened - Outer) /\ k - (opened - Outer) = j /\ j \in 1 .. Outer
        BY <3>1, <2>1, <1>1
      <4> HIDE DEF k
      <4>2. s[k] = resources[j]
        BY <4>1, <2>3, <2>4
      <4> QED  BY <4>1, <4>2
    <3>2. CASE j > Outer
      <4> DEFINE k == j - Outer
      <4>1. k \in 1 .. opened /\ k <= opened - Outer /\ Outer + k = j /\ k \in 1 .. opened - Outer
        BY <3>2, <2>1, <1>1
      <4> HIDE DEF k
      <4>2. s[k] = resources[j]
        BY <4>1, <2>2, <2>4
      <4> QED  BY <4>1, <4>2
    <3> QED  BY <3>1, <3>2, <2>1, <1>1
  <2>9. Elements(s) = Opened
    <3>1. \A x : x \in Elements(s) <=> \E i \in 1 .. opened : x = s[i]
      BY <2>6, Zenon DEF Elements
    <3>2. \A x : x \in Opened <=> \E i \in 1 .. opened : x = resources[i]
      BY Zenon DEF Opened
    <3> QED  BY <3>1, <3>2, <2>7, <2>8, Zenon
  <2> QED  BY <2>4, <2>5, <2>9
<1>4. CASE ~ (opened < Len(resources) /\ resources[opened + 1] \in Bus)
  <2>1. CloseOrder = all
    BY <1>4, Zenon DEF CloseOrder
  <2> HIDE DEF all
  <2> QED  BY <1>2, <2>1 DEF Elements, Opened
<1> QED  BY <1>3, <1>4

-----------------------------------------------------------------------------
\* main up to the wiring, with what else may change.
Loading == Resolve \/ GetRequiredSecret \/ New

\* Resolve and the validation of New go on, or end with an error and nothing
\* to close.
LEMMA LoadSteps ==
  ASSUME Loading
  PROVE  /\ main \in Early /\ main' \in Early \cup {"wiring", "closing"}
         /\ resources' = IF main' = "wiring" THEN Closers(cfg) ELSE resources
         /\ main' = "closing" => \E x \in {"load", "wiring"} : err' = err \cup {x} /\ failures' = failures \cup {x}
         /\ main' # "closing" => UNCHANGED <<err, failures>>
         /\ UNCHANGED <<opened, toClose, closed, completed, ctxVars, serverVars, workVars, errCh,
                        flusherVars, metricVars>>
<1>1. CASE Resolve
  BY <1>1, Zenon DEF Resolve, ResolveFails, Early
<1>2. CASE GetRequiredSecret
  BY <1>2, Zenon DEF GetRequiredSecret, ResolveFails, Early
<1>3. CASE New
  BY <1>3 DEF New, Early
<1> QED  BY <1>1, <1>2, <1>3, Zenon DEF Loading

\* The phases of main, closed and left to close, are kept by every step.
LEMMA PhasesKept ==
  ASSUME LifecycleInv, Next
  PROVE  Phases'
<1> USE DEF LifecycleInv
<1>1. CASE Loading
  <2>1. CASE main' = "wiring"
    <3>1. resources' = Closers(cfg) /\ opened = 0 /\ opened' = opened /\ flusher' = flusher
      BY <1>1, <2>1, LoadSteps DEF Phases, flusherVars
    <3>2. Outer' <= Len(resources') /\ \A i \in 1 .. Outer' : resources'[i] \notin Bus
      BY <3>1, ClosersShape DEF Outer
    <3>3. Opened = {} /\ Opened' = {}
      BY <3>1 DEF Opened
    <3>4. flusher' = "off"
      BY <3>1, <3>3 DEF Phases
    <3>5. \A i \in 1 .. Len(resources') : resources'[i] = "flusher" => i = 2
      BY <3>1, ClosersShape
    <3> QED  BY <1>1, <2>1, <3>1, <3>2, <3>3, <3>4, <3>5, LoadSteps DEF Phases, Ending, Early
  <2>2. CASE main' # "wiring"
    <3>1. /\ UNCHANGED <<resources, opened, toClose, closed, flusher>>
          /\ main' \in Early \cup {"closing"} /\ main \in Early
      BY <1>1, <2>2, LoadSteps DEF flusherVars
    <3>2. /\ resources = <<>> /\ opened = 0 /\ closed = {} /\ toClose = <<>>
          /\ UNCHANGED <<Opened, Outer, Elements(toClose)>>
      BY <3>1 DEF Phases, Early, Ending, Opened, Outer, Elements
    <3>3. Opened = {} /\ Elements(toClose) = {}
      BY <3>2 DEF Opened, Elements
    <3> QED  BY <3>1, <3>2, <3>3 DEF Phases, Early, Ending
  <2> QED  BY <2>1, <2>2
<1>2. CASE Open
  <2>1. main = "wiring" /\ main' = main /\ resources' = resources /\ opened' = opened + 1 /\ opened < Len(resources)
    BY <1>2 DEF Open
  <2>2. UNCHANGED <<closed, toClose>> /\ opened \in Nat
    BY <1>2 DEF Open, Types, LifecycleTypeOK
  <2>3. Opened \subseteq Opened' /\ resources[opened'] \in Opened'
    BY <2>1, <2>2 DEF Opened
  <2>4. flusher' # "off" => "flusher" \in Opened'
    BY <1>2, <2>3 DEF Open, Phases
  <2>5. Outer' = Outer
    BY <2>1 DEF Outer
  <2> QED  BY <2>1, <2>2, <2>4, <2>5 DEF Phases, Early, Ending
<1>3. CASE WiringFails
  <2>1. /\ main = "wiring" /\ main' = "closing" /\ toClose' = CloseOrder
        /\ UNCHANGED <<resources, opened, closed, flusher>>
    BY <1>3 DEF WiringFails, flusherVars
  <2>2. closed = {}
    BY <2>1 DEF Phases, Ending
  <2>3. Elements(toClose') = Opened
    BY <2>1, CloseOrderCloses
  <2>4. UNCHANGED <<Opened, Outer>> /\ Elements(toClose)' = Elements(toClose')
    BY <2>1 DEF Opened, Outer, Elements
  <2> QED  BY <2>1, <2>2, <2>3, <2>4 DEF Phases, Early, Ending
<1>4. CASE Run
  <2>1. /\ main = "wiring" /\ main' = "running" /\ opened = Len(resources)
        /\ UNCHANGED <<resources, opened, toClose, closed, flusher>>
    BY <1>4 DEF Run, flusherVars
  <2>2. UNCHANGED <<Opened, Outer>>
    BY <2>1 DEF Opened, Outer
  <2> QED  BY <2>1, <2>2 DEF Phases, Early, Ending
<1>5. CASE Collect
  <2>1. /\ main = "running" /\ UNCHANGED <<resources, opened, closed, flusher>>
        /\ \/ main' = "running" /\ toClose' = toClose
           \/ main' = "closing" /\ toClose' = resources
    BY <1>5 DEF Collect, flusherVars
  <2>2. UNCHANGED <<Opened, Outer>> /\ Elements(toClose)' = Elements(toClose')
    BY <2>1 DEF Opened, Outer, Elements
  <2>3. closed = {} /\ opened = Len(resources)
    BY <2>1 DEF Phases, Ending
  <2>4. Elements(resources) = Opened
    BY <2>3 DEF Types, Elements, Opened
  <2> QED  BY <2>1, <2>2, <2>3, <2>4 DEF Phases, Early, Ending
<1>6. CASE CloseNext
  <2>1. /\ main = "closing" /\ main' = main /\ toClose # <<>> /\ Head(toClose) # "flusher"
        /\ closed' = closed \cup {Head(toClose)} /\ toClose' = Tail(toClose)
        /\ UNCHANGED <<resources, opened, flusher>>
    BY <1>6 DEF CloseNext, flusherVars
  <2>2. UNCHANGED <<Opened, Outer>> /\ Elements(toClose)' = Elements(Tail(toClose))
    BY <2>1 DEF Opened, Outer, Elements
  <2>3. Elements(toClose) = {Head(toClose)} \cup Elements(Tail(toClose))
    BY <2>1, ElementsHead DEF Types
  <2> QED  BY <2>1, <2>2, <2>3 DEF Phases, Early, Ending
<1>7. CASE CloseFlusher \/ LastFlush
  <2>1. /\ main \in {"closing", "awaiting"} /\ toClose # <<>> /\ Head(toClose) = "flusher"
        /\ main' \in {"awaiting", "flushing"} /\ (main' = "flushing" => flusher = "done")
        /\ UNCHANGED <<resources, opened, toClose, closed, flusher>>
    BY <1>7 DEF CloseFlusher, LastFlush, flusherVars, Phases
  <2>2. UNCHANGED <<Opened, Outer, Elements(toClose)>>
    BY <2>1 DEF Opened, Outer, Elements
  <2> QED  BY <2>1, <2>2 DEF Phases, Early, Ending
<1>8. CASE LastPost
  <2>1. /\ main = "flushing" /\ main' = "closing"
        /\ closed' = closed \cup {"flusher"} /\ toClose' = Tail(toClose)
        /\ UNCHANGED <<resources, opened, flusher>>
    BY <1>8 DEF LastPost, flusherVars
  <2>2. toClose # <<>> /\ Head(toClose) = "flusher" /\ flusher = "done"
    BY <2>1 DEF Phases
  <2>3. UNCHANGED <<Opened, Outer>> /\ Elements(toClose)' = Elements(Tail(toClose))
    BY <2>1 DEF Opened, Outer, Elements
  <2>4. Elements(toClose) = {Head(toClose)} \cup Elements(Tail(toClose))
    BY <2>2, ElementsHead DEF Types
  <2> QED  BY <2>1, <2>2, <2>3, <2>4 DEF Phases, Early, Ending
<1>9. CASE Exit
  <2>1. /\ main = "closing" /\ toClose = <<>> /\ main' = "exited"
        /\ UNCHANGED <<resources, opened, toClose, closed, flusher>>
    BY <1>9 DEF Exit, flusherVars
  <2>2. UNCHANGED <<Opened, Outer, Elements(toClose)>>
    BY <2>1 DEF Opened, Outer, Elements
  <2> QED  BY <2>1, <2>2 DEF Phases, Early, Ending
<1>10. CASE Others
  <2>1. UNCHANGED <<main, resources, opened, toClose, closed>>
    BY <1>10, OtherSteps DEF mainVars
  <2>2. UNCHANGED <<Opened, Outer, Elements(toClose)>>
    BY <2>1 DEF Opened, Outer, Elements
  <2>3. flusher # "done" \/ flusher' = "done"
    BY <1>10, OtherSteps DEF Flusher, Flush, FlushPosts, FlusherStops
  <2>4. flusher # "off" \/ flusher' = "off"
    BY <1>10, OtherSteps DEF Flusher, Flush, FlushPosts, FlusherStops
  <2> QED  BY <2>1, <2>2, <2>3, <2>4 DEF Phases
<1> QED  BY <1>1, <1>2, <1>3, <1>4, <1>5, <1>6, <1>7, <1>8, <1>9, <1>10 DEF Next, Main, Wire, Loading

\* A half that has not returned runs under runServerAndWorker.
LEMMA HalvesRun ==
  ASSUME Types, Halves, server \in {"select", "shutdown"} \/ worker = "running"
  PROVE  main = "running"
BY DEF Types, LifecycleTypeOK, Halves, Early, Ending

\* Each half is started once, reports once and is collected once; closing
\* starts when both have returned.
LEMMA HalvesKept ==
  ASSUME LifecycleInv, Next
  PROVE  Halves'
<1> USE DEF LifecycleInv
<1> DEFINE halves == <<server, worker, listener, errCh, completed, handler>>
<1>1. CASE Loading
  <2>1. UNCHANGED halves /\ main \in Early /\ main' \in Early \cup {"wiring", "closing"}
    BY <1>1, LoadSteps DEF serverVars, workVars
  <2>2. UNCHANGED Serving
    BY <2>1 DEF Serving
  <2> QED  BY <2>1, <2>2 DEF Halves, Early, Ending
<1>2. CASE Open \/ WiringFails
  <2>1. UNCHANGED halves /\ main = "wiring" /\ main' \in {"wiring", "closing"}
    BY <1>2 DEF Open, WiringFails, serverVars, workVars
  <2>2. UNCHANGED Serving
    BY <2>1 DEF Serving
  <2> QED  BY <2>1, <2>2 DEF Halves, Early, Ending
<1>3. CASE Run
  <2>1. /\ main = "wiring" /\ main' = "running" /\ UNCHANGED <<errCh, completed, handler>>
        /\ listener' = "listening" /\ server' = "select" /\ worker' = "running"
    BY <1>3 DEF Run
  <2>2. errCh = <<>> /\ completed = 0
    BY <2>1 DEF Halves
  <2>3. Returned' = 0 /\ Len(errCh') = 0
    BY <2>1, <2>2 DEF Returned
  <2> QED  BY <2>1, <2>2, <2>3 DEF Halves, Early, Ending
<1>4. CASE Collect
  <2>1. /\ main = "running" /\ errCh # <<>> /\ errCh' = Tail(errCh) /\ completed' = completed + 1
        /\ main' = IF completed' = 2 THEN "closing" ELSE main
        /\ UNCHANGED <<server, worker, listener, handler>>
    BY <1>4 DEF Collect, serverVars, workVars
  <2>2. UNCHANGED <<Serving, Returned>>
    BY <2>1 DEF Serving, Returned
  <2>3. /\ Tail(errCh) \in Seq(HalfError \cup {"nil"})
        /\ Len(Tail(errCh)) = Len(errCh) - 1 /\ Len(errCh) > 0 /\ Len(errCh) \in Nat
    BY <2>1, ElementsHead DEF Types
  <2>4. completed < 2 /\ completed \in Nat /\ completed + Len(errCh) = Returned
    BY <2>1 DEF Halves, Types
  <2>5. CASE completed' = 2
    <3>1. Returned = 2 /\ Len(Tail(errCh)) = 0
      BY <2>1, <2>3, <2>4, <2>5 DEF Returned
    <3>2. server = "returned" /\ worker = "returned" /\ errCh' = <<>>
      BY <3>1, <2>1, <2>3 DEF Returned
    <3> QED  BY <3>2, <2>1, <2>2, <2>5 DEF Halves, Early, Ending
  <2>6. CASE completed' # 2
    BY <2>6, <2>1, <2>2, <2>3, <2>4 DEF Halves, Early, Ending
  <2> QED  BY <2>5, <2>6
<1>5. CASE CloseNext \/ CloseFlusher \/ LastFlush \/ LastPost \/ Exit
  <2>1. UNCHANGED halves /\ main \in Ending /\ main' \in Ending
    BY <1>5 DEF CloseNext, CloseFlusher, LastFlush, LastPost, Exit, Ending, serverVars, workVars
  <2>2. UNCHANGED Serving
    BY <2>1 DEF Serving
  <2> QED  BY <2>1, <2>2 DEF Halves, Early, Ending
<1>6. CASE Signal \/ Flusher \/ \E j \in Job : Process(j)
  <2>1. UNCHANGED <<halves, main>>
    BY <1>6 DEF Signal, Flusher, Flush, FlushPosts, FlusherStops, Process, mainVars, serverVars, workVars
  <2>2. UNCHANGED <<Serving, Returned>>
    BY <2>1 DEF Serving, Returned
  <2> QED  BY <2>1, <2>2, SMTT(30) DEF Halves
<1>7. ASSUME NEW h \in Handler, Accept(h)
      PROVE  Halves'
  <2>1. listener = "listening" /\ UNCHANGED <<main, server, worker, listener, errCh, completed>>
    BY <1>7 DEF Accept, mainVars, workVars
  <2>2. server # "off" /\ server # "returned" /\ UNCHANGED Returned
    BY <2>1 DEF Halves, Returned
  <2> QED  BY <2>1, <2>2 DEF Halves
<1>8. ASSUME NEW h \in Handler, Finish(h)
      PROVE  Halves'
  <2>1. UNCHANGED <<main, server, worker, listener, errCh, completed>>
    BY <1>8 DEF Finish, mainVars, workVars
  <2>2. Serving' \subseteq Serving /\ UNCHANGED Returned
    BY <1>8, <2>1 DEF Finish, Serving, Types, LifecycleTypeOK, Returned
  <2> QED  BY <2>1, <2>2 DEF Halves
<1>9. CASE ListenerFails \/ Shutdown
  <2>1. /\ server = "select" /\ server' \in {"select", "shutdown"} /\ listener # "off" /\ listener' # "off"
        /\ server' = "shutdown" => listener' # "listening"
        /\ UNCHANGED <<main, worker, errCh, completed>>
    BY <1>9 DEF ListenerFails, Shutdown, mainVars, workVars, Halves, Types, LifecycleTypeOK
  <2>2. main = "running" /\ UNCHANGED Returned
    BY <2>1, HalvesRun DEF Returned
  <2> QED  BY <2>1, <2>2 DEF Halves, Early, Ending
<1>10. CASE ShutdownReturns \/ ServerFails \/ WorkerReturns \/ WorkerFails
  <2>1. PICK result \in HalfError \cup {"nil"} : errCh' = Append(errCh, result)
    BY <1>10, Zenon DEF ShutdownReturns, ServerFails, WorkerReturns, WorkerFails, HalfError
  <2>2. Len(errCh') = Len(errCh) + 1 /\ Len(errCh) \in Nat
    BY <2>1, ElementsAppend DEF Types
  <2>3. /\ UNCHANGED <<main, listener, completed, handler>>
        /\ \/ server \in {"select", "shutdown"} /\ server' = "returned" /\ worker' = worker
              /\ listener # "listening" /\ (Serving = {} \/ listener = "failed")
           \/ worker = "running" /\ worker' = "returned" /\ server' = server
    BY <1>10 DEF ShutdownReturns, ServerFails, WorkerReturns, WorkerFails, mainVars, serverVars, workVars, Halves
  <2>4. main = "running" /\ UNCHANGED Serving
    BY <2>3, HalvesRun DEF Serving
  <2>5. Returned' = Returned + 1 /\ Returned \in Nat
    BY <2>3 DEF Returned
  <2>6. completed \in Nat /\ completed < 2 /\ completed' + Len(errCh') = Returned'
    BY <2>2, <2>3, <2>4, <2>5 DEF Halves, Types
  <2> QED  BY <2>3, <2>4, <2>6 DEF Halves, Early, Ending
<1> QED
  BY <1>1, <1>2, <1>3, <1>4, <1>5, <1>6, <1>7, <1>8, <1>9, <1>10 DEF Next, Main, Wire, Others, Server, Loading

\* A failure that is not one of the halves goes into the error of main at once.
LEMMA ErrorJoined ==
  ASSUME Errors, NEW x, x \notin HalfError, err' = err \cup {x}, failures' = failures \cup {x},
         UNCHANGED <<errCh, listener, server>>, main' \in Ending
  PROVE  Errors'
<1>1. UNCHANGED Elements(errCh)
  BY DEF Elements
<1>2. err' \cap HalfError = err \cap HalfError /\ failures' \cap HalfError = failures \cap HalfError
  OBVIOUS
<1> QED  BY <1>1, <1>2 DEF Errors, Early, Ending

\* A step without a failure that leaves errCh and the server alone.
LEMMA ErrorsUntouched ==
  ASSUME Errors, UNCHANGED <<err, failures, errCh, listener, server>>,
         main' = main \/ main' \in Ending \/ (main \in Early /\ main' \in Early \cup {"wiring"})
  PROVE  Errors'
<1>1. UNCHANGED Elements(errCh)
  BY DEF Elements
<1> QED  BY <1>1 DEF Errors, Early, Ending

\* No error is lost but the second half's: none in errCh, in a listener that
\* failed beside a shutdown, or in closeAppResources, and none is made up.
LEMMA ErrorsKept ==
  ASSUME LifecycleInv, Next
  PROVE  Errors'
<1> USE DEF LifecycleInv
<1>0. UNCHANGED errCh => UNCHANGED Elements(errCh)
  BY DEF Elements
<1>1. CASE Loading
  <2>1. UNCHANGED <<errCh, listener, server>> /\ main \in Early
    BY <1>1, LoadSteps DEF serverVars
  <2>2. CASE main' = "closing"
    <3>1. PICK x \in {"load", "wiring"} : err' = err \cup {x} /\ failures' = failures \cup {x}
      BY <1>1, <2>2, LoadSteps
    <3>2. x \notin HalfError /\ main' \in Ending
      BY <2>2 DEF HalfError, Ending
    <3> QED  BY <2>1, <3>1, <3>2, ErrorJoined
  <2>3. CASE main' # "closing"
    <3>1. UNCHANGED <<err, failures>> /\ main' \in Early \cup {"wiring"}
      BY <1>1, <2>3, LoadSteps
    <3> QED  BY <3>1, <2>1, ErrorsUntouched
  <2> QED  BY <2>2, <2>3
<1>2. CASE WiringFails
  <2>1. /\ err' = err \cup {"wiring"} /\ failures' = failures \cup {"wiring"}
        /\ UNCHANGED <<errCh, listener, server>> /\ main' = "closing"
    BY <1>2 DEF WiringFails, serverVars
  <2>2. "wiring" \notin HalfError /\ main' \in Ending
    BY <2>1 DEF HalfError, Ending
  <2> QED  BY <2>1, <2>2, ErrorJoined
<1>3. CASE Open \/ CloseFlusher \/ LastFlush \/ Exit
  <2>1. UNCHANGED <<err, failures, errCh, listener, server>> /\ (main' = main \/ main' \in Ending)
    BY <1>3, Zenon DEF Open, CloseFlusher, LastFlush, Exit, serverVars, Ending
  <2> QED  BY <2>1, ErrorsUntouched
<1>4. CASE Run
  <2>1. /\ main = "wiring" /\ main' = "running" /\ listener' = "listening" /\ listener = "off"
        /\ UNCHANGED <<err, failures, errCh>>
    BY <1>4 DEF Run, Halves
  <2> QED  BY <2>1, <1>0 DEF Errors, Early
<1>5. CASE Collect
  <2>1. /\ main = "running" /\ main' \in {"running", "closing"} /\ errCh # <<>> /\ errCh' = Tail(errCh)
        /\ err' = IF Head(errCh) # "nil" /\ err = {} THEN {Head(errCh)} ELSE err
        /\ UNCHANGED <<failures, listener, server>>
    BY <1>5 DEF Collect, serverVars
  <2>2. Elements(errCh) = {Head(errCh)} \cup Elements(Tail(errCh)) /\ Head(errCh) \in HalfError \cup {"nil"}
    BY <2>1, ElementsHead DEF Types
  <2>3. Elements(errCh)' = Elements(Tail(errCh)) /\ err \subseteq HalfError
    BY <2>1 DEF Elements, Errors
  <2>4. CASE Head(errCh) # "nil" /\ err = {}
    <3>1. err' = {Head(errCh)} /\ Head(errCh) \in failures \cap HalfError
      BY <2>1, <2>2, <2>4 DEF Errors
    <3> QED  BY <2>1, <2>2, <2>3, <2>4, <3>1 DEF Errors, Early
  <2>5. CASE ~ (Head(errCh) # "nil" /\ err = {})
    <3>1. err' = err
      BY <2>1, <2>5
    <3>2. err \cap HalfError # {} \/ Elements(errCh)' \ {"nil"} = Elements(errCh) \ {"nil"}
      BY <2>2, <2>3, <2>5
    <3> QED  BY <2>1, <2>2, <2>3, <3>1, <3>2 DEF Errors, Early
  <2> QED  BY <2>4, <2>5
<1>6. CASE CloseNext \/ LastPost
  <2>1. UNCHANGED <<errCh, listener, server>> /\ main' \in Ending
    BY <1>6 DEF CloseNext, LastPost, serverVars, Ending
  <2>2. toClose # <<>> /\ Head(toClose) \in Resource
    BY <1>6, ElementsHead DEF CloseNext, LastPost, Phases, Types
  <2>3. \/ UNCHANGED <<err, failures>>
        \/ \E x \in Resource : err' = err \cup {x} /\ failures' = failures \cup {x}
    BY <1>6, <2>2, Zenon DEF CloseNext, LastPost, Resource
  <2>4. \A x \in Resource : x \notin HalfError
    BY DEF Resource, HalfError
  <2>5. CASE UNCHANGED <<err, failures>>
    BY <2>1, <2>5, ErrorsUntouched
  <2>6. CASE \E x \in Resource : err' = err \cup {x} /\ failures' = failures \cup {x}
    BY <2>1, <2>4, <2>6, ErrorJoined
  <2> QED  BY <2>3, <2>5, <2>6
<1>7. CASE Signal \/ Flusher \/ (\E h \in Handler : Accept(h) \/ Finish(h)) \/ \E j \in Job : Process(j)
  <2>1. UNCHANGED <<main, err, errCh, listener, server, failures>>
    BY <1>7, Zenon DEF Signal, Flusher, Flush, FlushPosts, FlusherStops, Accept, Finish, Process, mainVars,
                serverVars
  <2> QED  BY <2>1, ErrorsUntouched
<1>8. CASE ListenerFails
  <2>1. /\ server = "select" /\ server' = server /\ listener' = "failed" /\ failures' = failures \cup {"listen"}
        /\ UNCHANGED <<main, err, errCh>>
    BY <1>8 DEF ListenerFails, Halves, Types, LifecycleTypeOK, mainVars
  <2>2. "listen" \in HalfError
    BY DEF HalfError
  <2> QED  BY <2>1, <2>2, <1>0, SMTT(30) DEF Errors
<1>9. CASE Shutdown
  <2>1. /\ UNCHANGED <<main, err, failures, errCh>> /\ server = "select" /\ server' = "shutdown"
        /\ listener' = "failed" <=> listener = "failed"
    BY <1>9 DEF Shutdown, mainVars
  <2> QED  BY <2>1, <1>0 DEF Errors
<1>10. CASE ShutdownReturns \/ ServerFails \/ WorkerReturns \/ WorkerFails
  <2>1. PICK result \in HalfError \cup {"nil"} :
          /\ errCh' = Append(errCh, result)
          /\ \/ result = "nil" /\ UNCHANGED failures /\ (listener # "failed" \/ server' = server)
             \/ result = "listen" /\ UNCHANGED failures /\ listener = "failed"
             \/ result \in HalfError /\ failures' = failures \cup {result}
    <3>0. {"listen", "shutdown", "worker"} \subseteq HalfError
      BY DEF HalfError
    <3>1. CASE ShutdownReturns
      BY <3>0, <3>1, Zenon DEF ShutdownReturns
    <3>2. CASE ServerFails
      BY <3>0, <3>2, Zenon DEF ServerFails
    <3>3. CASE WorkerReturns
      BY <3>3, Zenon DEF WorkerReturns, serverVars
    <3>4. CASE WorkerFails
      BY <3>0, <3>4, Zenon DEF WorkerFails
    <3> QED  BY <1>10, <3>1, <3>2, <3>3, <3>4
  <2>2. Elements(errCh)' = Elements(errCh) \cup {result}
    <3>1. Elements(Append(errCh, result)) = Elements(errCh) \cup {result}
      BY ElementsAppend DEF Types
    <3>2. Elements(errCh)' = Elements(Append(errCh, result))
      BY <2>1, Zenon DEF Elements
    <3> QED  BY <3>1, <3>2, Zenon
  <2>3. UNCHANGED <<main, err, listener>>
    BY <1>10 DEF ShutdownReturns, ServerFails, WorkerReturns, WorkerFails, mainVars, serverVars
  <2>4. "nil" \notin HalfError
    BY DEF HalfError
  <2>5. CASE result = "nil"
    BY <2>1, <2>2, <2>3, <2>4, <2>5 DEF Errors
  <2>6. CASE result \in HalfError
    BY <2>1, <2>2, <2>3, <2>4, <2>6 DEF Errors
  <2> QED  BY <2>5, <2>6
<1> QED
  BY <1>1, <1>2, <1>3, <1>4, <1>5, <1>6, <1>7, <1>8, <1>9, <1>10
     DEF Next, Main, Wire, Others, Server, Loading

\* Every observation is in points, on its way, posted or lost with a failed
\* flush, and none is recorded behind the last flush.
LEMMA MetricsKept ==
  ASSUME LifecycleInv, Next
  PROVE  Metrics'
<1> USE DEF LifecycleInv
<1> DEFINE done == {h \in Handler : handler[h] = "done"}
           late == main = "flushing" \/ "flusher" \in closed
<1>0. late => main \in Ending
  BY DEF Phases, Ending
<1>1. CASE Loading
  <2>1. /\ main \in Early /\ main' \in Early \cup {"wiring", "closing"}
        /\ UNCHANGED <<handler, jobs, points, batch, delivered, dropped, flusher, closed, listener>>
    BY <1>1, LoadSteps DEF serverVars, workVars, metricVars, flusherVars
  <2> QED  BY <2>1 DEF Metrics, Early
<1>2. CASE Open
  <2>1. /\ main = "wiring" /\ opened < Len(resources) /\ opened' = opened + 1
        /\ flusher' = IF resources[opened'] = "flusher" THEN "waiting" ELSE flusher
        /\ UNCHANGED <<main, handler, jobs, points, batch, delivered, dropped, closed, listener>>
    BY <1>2 DEF Open, serverVars, workVars, metricVars
  <2>2. opened \in Nat /\ opened' \in 1 .. Len(resources) /\ Len(resources) \in Nat
    BY <2>1 DEF Types, LifecycleTypeOK
  <2>3. resources[opened'] = "flusher" => flusher = "off"
    BY <2>1, <2>2 DEF Phases, Opened
  <2> QED  BY <2>1, <2>3 DEF Metrics
<1>3. CASE WiringFails \/ Run \/ Collect \/ CloseFlusher \/ Exit
  <2>1. /\ main # "flushing" /\ main' # "flushing" /\ (main \notin Ending => closed = {})
        /\ UNCHANGED <<handler, jobs, points, batch, delivered, dropped, flusher, closed>>
    BY <1>3, Zenon DEF WiringFails, Run, Collect, CloseFlusher, Exit, serverVars, workVars, metricVars,
                flusherVars, Phases
  <2>2. UNCHANGED listener \/ closed = {}
    BY <1>3, <2>1, Zenon DEF WiringFails, Run, Collect, CloseFlusher, Exit, serverVars, Ending
  <2> QED  BY <2>1, <2>2, SMTT(30) DEF Metrics
<1>4. CASE CloseNext
  <2>1. /\ main # "flushing" /\ main' = main /\ closed' = closed \cup {Head(toClose)} /\ Head(toClose) # "flusher"
        /\ UNCHANGED <<handler, jobs, points, batch, delivered, dropped, flusher, listener>>
    BY <1>4 DEF CloseNext, serverVars, workVars, metricVars, flusherVars
  <2> QED  BY <2>1 DEF Metrics
<1>5. CASE LastFlush
  <2>1. /\ main = "awaiting" /\ flusher = "done" /\ main' = "flushing" /\ batch' = points /\ points' = {}
        /\ UNCHANGED <<handler, jobs, delivered, dropped, flusher, closed, listener>>
    BY <1>5 DEF LastFlush, serverVars, workVars, flusherVars
  <2>2. batch = {}
    BY <2>1 DEF Metrics
  <2> QED  BY <2>1, <2>2 DEF Metrics
<1>6. CASE LastPost \/ FlushPosts
  <2>1. /\ batch' = {} /\ delivered' \cup dropped' = delivered \cup dropped \cup batch
        /\ UNCHANGED <<handler, jobs, points, listener>>
    BY <1>6 DEF LastPost, FlushPosts, Post, serverVars, workVars
  <2>2. \/ late
        \/ UNCHANGED <<main, closed>>
    BY <1>6, SMTT(30) DEF LastPost, FlushPosts, mainVars
  <2> QED  BY <2>1, <2>2 DEF Metrics
<1>7. CASE Signal \/ ListenerFails \/ Server \/ WorkerReturns \/ WorkerFails \/ \E h \in Handler : Accept(h)
  <2>1. /\ UNCHANGED <<main, jobs, points, batch, delivered, dropped, flusher, closed>>
        /\ listener' # "failed" => listener # "failed"
    BY <1>7, Zenon DEF Signal, ListenerFails, Server, Shutdown, ShutdownReturns, ServerFails, WorkerReturns, WorkerFails,
                Accept, mainVars, serverVars, workVars, flusherVars, metricVars
  <2>2. done' = done
    BY <1>7, Zenon DEF Signal, ListenerFails, Server, Shutdown, ShutdownReturns, ServerFails, WorkerReturns, WorkerFails,
                Accept, serverVars, Types, LifecycleTypeOK
  <2> QED  BY <2>1, <2>2, SMTT(30) DEF Metrics
<1>8. ASSUME NEW h \in Handler, Finish(h)
      PROVE  Metrics'
  <2>1. /\ handler' = [handler EXCEPT ![h] = "done"] /\ points' = points \cup {h} /\ handler[h] = "serving"
        /\ UNCHANGED <<main, jobs, batch, delivered, dropped, flusher, closed, listener>>
    BY <1>8, SMTT(30) DEF Finish, mainVars, workVars, flusherVars
  <2>2. done' = done \cup {h}
    BY <2>1 DEF Types, LifecycleTypeOK
  <2>3. h \in Serving
    BY <2>1 DEF Serving
  <2>4. late => listener = "failed"
    BY <2>3, <1>0 DEF Halves
  <2> QED  BY <2>1, <2>2, <2>4 DEF Metrics
<1>9. ASSUME NEW j \in Job, Process(j)
      PROVE  Metrics'
  <2>1. /\ worker = "running" /\ jobs' = jobs \cup {j} /\ points' = points \cup {j}
        /\ UNCHANGED <<main, handler, batch, delivered, dropped, flusher, closed, listener>>
    BY <1>9 DEF Process, mainVars, serverVars, flusherVars
  <2>2. main = "running"
    BY <2>1, HalvesRun
  <2>3. ~ late
    BY <2>2, <1>0 DEF Ending
  <2> QED  BY <2>1, <2>3 DEF Metrics
<1>10. CASE Flush \/ FlusherStops
  <2>1. /\ flusher = "waiting" /\ UNCHANGED <<main, handler, jobs, delivered, dropped, closed, listener>>
        /\ \/ flusher' = "flushing" /\ batch' = points /\ points' = {}
           \/ flusher' = "done" /\ UNCHANGED <<batch, points>>
    BY <1>10 DEF Flush, FlusherStops, mainVars, serverVars, workVars, metricVars
  <2>2. main # "flushing"
    BY <2>1 DEF Phases
  <2>3. batch = {}
    BY <2>1, <2>2 DEF Metrics
  <2> QED  BY <2>1, <2>3 DEF Metrics
<1> QED
  BY <1>1, <1>2, <1>3, <1>4, <1>5, <1>6, <1>7, <1>8, <1>9, <1>10
     DEF Next, Main, Wire, Others, Loading, Flusher

\* The types that do not follow from the rest of the invariant.
Basic ==
  /\ main \in Early \cup Ending \cup {"wiring", "running"}
  /\ resources \in Seq(Resource) /\ toClose \in Seq(Resource) /\ errCh \in Seq(HalfError \cup {"nil"})
  /\ opened \in 0 .. Len(resources) /\ completed \in 0 .. 2
  /\ listener \in {"off", "listening", "closed", "failed"}
  /\ server \in {"off", "select", "shutdown", "returned"}
  /\ worker \in {"off", "running", "returned"}
  /\ handler \in [Handler -> {"new", "serving", "done"}] /\ jobs \subseteq Job
  /\ flusher \in {"off", "waiting", "flushing", "done"}
  /\ {signal, canceled, stop} \subseteq BOOLEAN

\* Basic is kept by every step of the program.
LEMMA BasicKept ==
  ASSUME LifecycleInv, Basic, Next
  PROVE  Basic'
<1> USE DEF LifecycleInv
<1>1. CASE Loading
  <2>0. main \in Early /\ opened' = opened /\ resources' \in {resources, Closers(cfg)}
    BY <1>1, LoadSteps, SMTT(30)
  <2>4. opened' = 0 /\ resources' \in Seq(Resource)
    BY <2>0, ClosersShape, Zenon DEF Basic, Phases
  <2>1. resources' \in Seq(Resource) /\ opened' \in 0 .. Len(resources')
    BY <2>4
  <2>2. main' \in Early \cup Ending \cup {"wiring", "running"}
    BY <1>1, LoadSteps, Zenon DEF Basic, Ending
  <2>3. UNCHANGED <<toClose, completed, errCh, listener, server, worker, handler, jobs, flusher, signal, canceled, stop>>
    BY <1>1, LoadSteps DEF serverVars, workVars, flusherVars, ctxVars
  <2> QED  BY <2>1, <2>2, <2>3 DEF Basic
<1>2. CASE Open \/ Run
  <2>1. /\ opened' \in 0 .. Len(resources') /\ main' \in {"wiring", "running"}
        /\ flusher' \in {"off", "waiting", "flushing", "done"}
    BY <1>2 DEF Open, Run, Basic, flusherVars
  <2>2. /\ UNCHANGED <<resources, toClose, completed, errCh, handler, jobs, signal, canceled, stop>>
        /\ listener' \in {listener, "listening"} /\ server' \in {server, "select"} /\ worker' \in {worker, "running"}
    BY <1>2 DEF Open, Run, serverVars, workVars, flusherVars, ctxVars
  <2> QED  BY <2>1, <2>2 DEF Basic
<1>3. CASE WiringFails
  <2>1. toClose' \in Seq(Resource) /\ main' = "closing"
    BY <1>3, CloseOrderCloses DEF WiringFails
  <2>2. UNCHANGED <<resources, opened, completed, errCh, listener, server, worker, handler, jobs, flusher, signal, canceled, stop>>
    BY <1>3, SMTT(30) DEF WiringFails, serverVars, workVars, flusherVars, ctxVars
  <2> QED  BY <2>1, <2>2 DEF Basic, Ending
<1>4. CASE Collect
  <2>1. errCh # <<>> /\ errCh' = Tail(errCh) /\ completed' = completed + 1 /\ canceled' = TRUE
        /\ main' \in {main, "closing"} /\ toClose' \in {resources, toClose}
    BY <1>4 DEF Collect, Basic
  <2>2. errCh' \in Seq(HalfError \cup {"nil"})
    BY <2>1, ElementsHead, SMTT(30) DEF Basic
  <2>3. completed' \in 0 .. 2
    BY <1>4, <2>1 DEF Collect, Halves, Basic
  <2>4. UNCHANGED <<resources, opened, listener, server, worker, handler, jobs, flusher, signal, stop>>
    BY <1>4 DEF Collect, serverVars, workVars, flusherVars
  <2> QED  BY <2>1, <2>2, <2>3, <2>4, SMTT(30) DEF Basic, Ending
<1>5. CASE CloseNext \/ LastPost
  <2>1. toClose # <<>> /\ toClose' = Tail(toClose) /\ main' = "closing"
    BY <1>5 DEF CloseNext, LastPost, Phases
  <2>2. toClose' \in Seq(Resource)
    BY <2>1, ElementsHead DEF Basic
  <2>3. UNCHANGED <<resources, opened, completed, errCh, listener, server, worker, handler, jobs, flusher, signal, canceled, stop>>
    BY <1>5 DEF CloseNext, LastPost, serverVars, workVars, flusherVars, ctxVars
  <2> QED  BY <2>1, <2>2, <2>3, SMTT(30) DEF Basic, Ending
<1>6. CASE CloseFlusher \/ LastFlush \/ Exit
  <2>1. main' \in Ending /\ stop' \in {stop, TRUE}
    BY <1>6, Zenon DEF CloseFlusher, LastFlush, Exit, Ending, flusherVars
  <2>2. UNCHANGED <<resources, opened, toClose, completed, errCh, listener, server, worker, handler, jobs, flusher, signal, canceled>>
    BY <1>6 DEF CloseFlusher, LastFlush, Exit, serverVars, workVars, flusherVars, ctxVars
  <2> QED  BY <2>1, <2>2, Zenon DEF Basic
<1>7. CASE Others
  <2>1. UNCHANGED <<main, resources, opened, toClose, completed, stop>>
    BY <1>7, OtherSteps DEF mainVars
  <2>2. signal' \in {signal, TRUE} /\ canceled' = canceled
    BY <1>7, Zenon DEF Others, Signal, Accept, Finish, ListenerFails, Server, Shutdown, ShutdownReturns, ServerFails,
                Flusher, Flush, FlushPosts, FlusherStops, WorkerReturns, WorkerFails, Process, ctxVars
  <2>3. /\ listener' \in {"off", "listening", "closed", "failed"}
        /\ server' \in {"off", "select", "shutdown", "returned"} /\ worker' \in {"off", "running", "returned"}
    BY <1>7, Zenon DEF Others, Signal, Accept, Finish, ListenerFails, Server, Shutdown, ShutdownReturns, ServerFails,
                Flusher, Flush, FlushPosts, FlusherStops, WorkerReturns, WorkerFails, Process, serverVars, workVars, Basic
  <2>4. handler' \in [Handler -> {"new", "serving", "done"}] /\ jobs' \subseteq Job
    BY <1>7, Zenon DEF Others, Signal, Accept, Finish, ListenerFails, Server, Shutdown, ShutdownReturns, ServerFails,
                Flusher, Flush, FlushPosts, FlusherStops, WorkerReturns, WorkerFails, Process, serverVars, workVars, Basic
  <2>5. flusher' \in {"off", "waiting", "flushing", "done"}
    BY <1>7, OtherSteps, Zenon DEF Flusher, Flush, FlushPosts, FlusherStops, Basic
  <2>6. errCh' = errCh \/ \E result \in HalfError \cup {"nil"} : errCh' = Append(errCh, result)
    BY <1>7, Zenon DEF Others, Signal, Accept, Finish, ListenerFails, Server, Shutdown, ShutdownReturns, ServerFails,
                Flusher, Flush, FlushPosts, FlusherStops, WorkerReturns, WorkerFails, Process, HalfError
  <2>7. errCh' \in Seq(HalfError \cup {"nil"})
    <3>1. \A result \in HalfError \cup {"nil"} : Append(errCh, result) \in Seq(HalfError \cup {"nil"})
      BY ElementsAppend DEF Basic
    <3> QED  BY <2>6, <3>1, Zenon DEF Basic
  <2> QED  BY <2>1, <2>2, <2>3, <2>4, <2>5, <2>7, Zenon DEF Basic
<1> QED  BY <1>1, <1>2, <1>3, <1>4, <1>5, <1>6, <1>7, SMTT(30) DEF Next, Main, Wire, Loading

\* Basic and the rest of the invariant give the types.
LEMMA BasicTypes ==
  ASSUME Basic, Phases, Halves, Errors, Metrics
  PROVE  Types
<1>1. closed \subseteq Opened
  BY DEF Phases
<1>2. completed + Len(errCh) <= 2 /\ \A i \in DOMAIN errCh : errCh[i] \in HalfError \cup {"nil"}
  <2>1. completed \in 0 .. 2 /\ errCh \in Seq(HalfError \cup {"nil"}) /\ Returned \in 0 .. 2
    BY DEF Basic, Returned
  <2>2. errCh = <<>> \/ completed + Len(errCh) = Returned
    BY DEF Basic, Halves, Early, Ending
  <2> QED  BY <2>1, <2>2
<1>3. points \cup batch \cup delivered \cup dropped \subseteq Handler \cup Job
  BY DEF Metrics, Basic
<1>4. err \subseteq failures
  BY DEF Errors
<1> QED  BY <1>1, <1>2, <1>3, <1>4 DEF Types, LifecycleTypeOK, Basic, Early, Ending

\* The invariant of the life of the process, for every configuration, any number
\* of requests and messages, and every combination of faults.
THEOREM LifecycleInvariant == Spec => []LifecycleInv
<1> DEFINE Inv == Basic /\ Phases /\ Halves /\ Errors /\ Metrics
<1>0. Inv => LifecycleInv
  BY BasicTypes DEF LifecycleInv
<1>1. Init => Inv
  <2> SUFFICES ASSUME Init PROVE Inv
    OBVIOUS
  <2> USE DEF Init, LifecycleInit
  <2>1. /\ Elements(errCh) = {} /\ Elements(toClose) = {} /\ Opened = {} /\ Serving = {} /\ Outer = 0
        /\ {h \in Handler : handler[h] = "done"} = {}
    BY DEF Elements, Opened, Serving, Outer
  <2>2. Basic
    <3>1. resources \in Seq(Resource) /\ errCh \in Seq(HalfError \cup {"nil"}) /\ opened \in 0 .. Len(resources)
      OBVIOUS
    <3>2. toClose \in Seq(Resource)
      OBVIOUS
    <3>3. {signal, canceled, stop} \subseteq BOOLEAN
      BY Zenon
    <3>4. handler \in [Handler -> {"new", "serving", "done"}]
      OBVIOUS
    <3>5. completed \in 0 .. 2
      BY SMTT(30)
    <3> QED  BY <3>1, <3>2, <3>3, <3>4, <3>5, Zenon DEF Basic, Early
  <2>3. Phases /\ Halves /\ Errors /\ Metrics
    BY <2>1 DEF Phases, Halves, Errors, Metrics, Early, Ending
  <2> QED  BY <2>2, <2>3
<1>2. Inv /\ [Next]_processVars => Inv'
  <2> SUFFICES ASSUME Inv, [Next]_processVars PROVE Inv'
    OBVIOUS
  <2>1. CASE UNCHANGED processVars
    <3> USE <2>1 DEF processVars, lifecycleVars, mainVars, ctxVars, serverVars, workVars, flusherVars, metricVars
    <3>0. UNCHANGED <<Opened, Outer, Elements(toClose), Elements(errCh)>>
      BY Zenon DEF Opened, Outer, Elements
    <3>1. Phases' /\ Errors'
      BY <3>0 DEF Phases, Errors
    <3>3. Basic'
      BY Zenon DEF Basic
    <3>2. Halves' /\ Metrics'
      BY DEF Halves, Metrics, Returned, Serving
    <3> QED  BY <3>1, <3>2, <3>3, Zenon
  <2>2. CASE Next
    BY <1>0, <2>2, BasicKept, PhasesKept, HalvesKept, ErrorsKept, MetricsKept
  <2> QED  BY <2>1, <2>2
<1> QED  BY <1>0, <1>1, <1>2, PTL DEF Spec

\* The variables of main, of Run and of the recorder keep their types.
THEOREM LifecycleTypeCorrect == Spec => []LifecycleTypeOK
<1>1. LifecycleInv => LifecycleTypeOK
  BY DEF LifecycleInv, Types
<1> QED  BY <1>1, LifecycleInvariant, PTL

\* main closes a resource only after the server and the worker have returned and
\* the last request is answered; only a failed listener leaves requests behind.
THEOREM ClosedOnlyAfterUse == Spec => []ClosedAfterUse
<1>1. LifecycleInv => ClosedAfterUse
  BY DEF LifecycleInv, ClosedAfterUse, Phases, Halves
<1> QED  BY <1>1, LifecycleInvariant, PTL

\* When the process has exited, whatever it opened is closed: LifecycleInv says
\* so.
LEMMA ExitedIsClosed ==
  ASSUME LifecycleInv
  PROVE  NothingLeaks
<1>1. main = "exited" => toClose = <<>> /\ closed \cup Elements(toClose) = Opened
  BY DEF LifecycleInv, Phases, Ending
<1>2. Elements(<<>>) = {}
  BY DEF Elements
<1> QED  BY <1>1, <1>2, Zenon DEF LifecycleInv, NothingLeaks, Phases

\* However the process ends, also by a failure halfway through New, no resource
\* that was opened stays open and no flusher is left running.
THEOREM NothingIsLeaked == Spec => []NothingLeaks
  BY ExitedIsClosed, LifecycleInvariant, PTL

\* The error that New or Run returns tells of every failure of loading, wiring
\* and closing, and of one of those of the server and the worker, if either
\* failed; of nothing else.  main then exits with 1 unless a signal came.
THEOREM ErrorsAreReported == Spec => []ErrorsReported
<1>1. ASSUME LifecycleInv PROVE ErrorsReported
  <2> USE <1>1 DEF LifecycleInv
  <2> SUFFICES ASSUME main = "exited" PROVE ErrorsReported
    BY DEF ErrorsReported
  <2>1. errCh = <<>> /\ server \in {"off", "returned"}
    BY DEF Halves, Ending
  <2>2. Elements(errCh) = {}
    BY <2>1 DEF Elements
  <2>3. /\ err \ HalfError = failures \ HalfError
        /\ failures \cap HalfError = {} => err \cap HalfError = {}
        /\ failures \cap HalfError # {} => \E e \in failures \cap HalfError : err \cap HalfError = {e}
    BY <2>1, <2>2 DEF Errors
  <2>4. failures # {} => err # {}
    BY <2>3
  <2> QED  BY <2>3, <2>4, Zenon DEF ErrorsReported, ExitCode
<1> QED  BY <1>1, LifecycleInvariant, PTL

\* Unless the listener failed, every metric that requests and worker recorded is
\* posted, or lost with a failed flush, when the process exits.
THEOREM MetricsAreFlushed == Spec => []MetricsFlushed
<1>1. ASSUME LifecycleInv PROVE MetricsFlushed
  BY <1>1, ExitedIsClosed DEF LifecycleInv, MetricsFlushed, NothingLeaks, Metrics, Phases
<1> QED  BY <1>1, LifecycleInvariant, PTL

=============================================================================

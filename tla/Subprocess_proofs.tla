-------------------------- MODULE Subprocess_proofs --------------------------
(***************************************************************************)
(* What the result of one Terraform run says is true, and a run that is    *)
(* stopped stays quiet, for any child, descendants, limits and amount of   *)
(* output, and whichever goroutine is first; and a termination signal      *)
(* strands no process group, for any number of commands and signals.       *)
(***************************************************************************)
EXTENDS TerraformCommand, ProcessGroups, TLAPS

(* One run *)


CmdStates ==
    [pc : {"idle", "checked", "spawned", "select", "returned"}, opts : Settings \cup {Null},
     failure : Failures \cup {Null}, cancelled : BOOLEAN, streams : SUBSET Streams,
     wait : BOOLEAN, pumps : SUBSET Streams, armed : BOOLEAN, lateStart : BOOLEAN,
     captured : Nat, result : Results \cup {Null}]
Readers == [pc : {"reading", "done"}, count : Nat, err : {Null, "limit", "read"}]
Pumps   == [queue : Seq(Nat), finished : BOOLEAN, aborted : BOOLEAN,
            inflight : Nat \cup {Null}, done : BOOLEAN]

CommandType ==
    /\ cmd \in CmdStates
    /\ proc \in [Group -> {"none", "alive", "mute", "dead"}]
    /\ exit \in {Null, "ok", "error"}
    /\ written \in [Streams -> Nat]
    /\ reader \in [Streams -> Readers]
    /\ waiter \in {"none", "waiting", "reaped", "posted"}
    /\ pump \in [Streams -> Pumps]
    /\ host \in [Streams -> Seq(Nat)]
    /\ refused \subseteq Streams /\ late \in BOOLEAN /\ parent \in BOOLEAN

NobodyWrites == \A p \in Group : proc[p] # "alive"
NobodyLives  == \A p \in Group : proc[p] \in {"none", "dead"}

\* Nothing is gathered yet.
Whole ==
    /\ cmd.streams = Streams /\ cmd.wait /\ cmd.failure = Null /\ ~cmd.cancelled
    /\ ~cmd.lateStart

\* Without a child there is nothing to read, to write or to wait for.
Unstarted ==
    waiter = "none" =>
      /\ cmd.pc \in {"idle", "checked", "returned"} /\ Whole
      /\ cmd.pc = "checked" => cmd.opts \in Settings
      /\ \A p \in Group : proc[p] = "none"
      /\ exit = Null /\ refused = {}
      /\ \A s \in Streams : written[s] = 0 /\ reader[s] = Unread /\ pump[s] = Idle /\ host[s] = <<>>
      /\ IF cmd.pc = "returned"
         THEN /\ cmd.result \in {"cancelled", "refused", "timeout", "spawn"}
              /\ cmd.result = "cancelled" => parent
              /\ cmd.result = "timeout" => late
         ELSE cmd.result = Null

Started ==
    waiter # "none" =>
      /\ cmd.pc \in {"spawned", "select", "returned"} /\ cmd.opts \in Settings
      /\ proc[Child] # "none"
      /\ cmd.pc = "spawned" => Whole /\ cmd.pumps = Piped
      /\ cmd.pc # "returned" => cmd.result = Null

\* The child is waited for before anybody hears of it, and nobody survives that.
Processes ==
    /\ waiter = "reaped" => proc[Child] = "dead"
    /\ waiter = "posted" => NobodyLives
    /\ proc[Child] = "dead" => exit # Null

\* What a reader says of its stream.
ReadersTell ==
    \A s \in Streams :
      /\ reader[s].count <= written[s] /\ reader[s].count <= Limit[s]
      /\ reader[s].pc = "reading" => reader[s].err = Null
      /\ reader[s].err = "limit" => written[s] > Limit[s]
      /\ reader[s].pc = "done" /\ reader[s].err = Null
           => reader[s].count = written[s] /\ NobodyWrites

\* The output is on its way in order: what the host has, the write admitted,
\* the queue; complete unless the run was stopped or the host refused a chunk.
Admitted(s) == IF pump[s].inflight = Null THEN 0 ELSE 1

Ordered(s) ==
    /\ \A n \in 1..Len(host[s]) :
         /\ host[s][n] <= reader[s].count
         /\ pump[s].inflight # Null => host[s][n] < pump[s].inflight
         /\ \A m \in 1..Len(pump[s].queue) : host[s][n] < pump[s].queue[m]
    /\ pump[s].inflight # Null =>
         /\ pump[s].inflight <= reader[s].count
         /\ \A m \in 1..Len(pump[s].queue) : pump[s].inflight < pump[s].queue[m]
    /\ \A m \in 1..Len(pump[s].queue) :
         /\ pump[s].queue[m] <= reader[s].count
         /\ \A n \in 1..(m - 1) : pump[s].queue[n] < pump[s].queue[m]

Complete(s) ==
    /\ Len(host[s]) + Admitted(s) + Len(pump[s].queue) = reader[s].count
    /\ \A n \in 1..Len(host[s]) : host[s][n] = n
    /\ pump[s].inflight # Null => pump[s].inflight = Len(host[s]) + 1
    /\ \A m \in 1..Len(pump[s].queue) : pump[s].queue[m] = Len(host[s]) + Admitted(s) + m

PumpsTell ==
    waiter # "none" =>
      \A s \in Piped :
        /\ pump[s].finished => reader[s].pc = "done"
        /\ pump[s].aborted <=> cmd.failure # Null \/ cmd.cancelled
        /\ pump[s].done /\ ~pump[s].aborted
             => pump[s].finished /\ pump[s].queue = <<>> /\ pump[s].inflight = Null
        /\ ~pump[s].aborted /\ s \notin refused => Complete(s)

\* What the loop has gathered so far, and what it made of it.
Gathered ==
    /\ waiter # "none" =>
         /\ \A s \in Streams \ cmd.streams :
              /\ reader[s].pc = "done"
              /\ cmd.failure = Null /\ ~cmd.cancelled => reader[s].err = Null
              /\ s = "out" /\ reader[s].err = Null => cmd.captured = reader[s].count
         /\ \A s \in Piped \ cmd.pumps : pump[s].done
         /\ ~cmd.wait => waiter = "posted"
    /\ cmd.failure = "limit" => \E s \in Streams : reader[s].err = "limit"
    /\ cmd.failure = "timeout" => late
    /\ cmd.cancelled => parent
    /\ cmd.lateStart => cmd.failure # Null

Returned ==
    cmd.pc = "returned" /\ waiter # "none" =>
      /\ cmd.streams = {} /\ ~cmd.wait
      /\ cmd.failure = Null /\ ~cmd.cancelled => cmd.pumps = {}
      /\ cmd.result = Verdict(cmd.cancelled)

OutputInv == \A s \in Streams : Ordered(s)

CommandInv ==
    /\ CommandType /\ Unstarted /\ Started /\ Processes /\ ReadersTell
    /\ OutputInv /\ PumpsTell /\ Gathered /\ Returned

-----------------------------------------------------------------------------
(* Fields *)

LEMMA CmdFields ==
  ASSUME CommandType
  PROVE  /\ cmd.pc \in {"idle", "checked", "spawned", "select", "returned"}
         /\ cmd.opts \in Settings \cup {Null}
         /\ cmd.failure \in Failures \cup {Null} /\ cmd.cancelled \in BOOLEAN
         /\ cmd.streams \in SUBSET Streams /\ cmd.wait \in BOOLEAN
         /\ cmd.pumps \in SUBSET Streams /\ cmd.armed \in BOOLEAN
         /\ cmd.lateStart \in BOOLEAN /\ cmd.captured \in Nat
         /\ cmd.result \in Results \cup {Null}
  BY DEF CommandType, CmdStates

LEMMA StreamFields ==
  ASSUME CommandType, NEW s \in Streams
  PROVE  /\ reader[s] \in Readers
         /\ reader[s].pc \in {"reading", "done"} /\ reader[s].count \in Nat
         /\ reader[s].err \in {Null, "limit", "read"}
         /\ pump[s] \in Pumps
         /\ pump[s].queue \in Seq(Nat) /\ Len(pump[s].queue) \in Nat
         /\ pump[s].finished \in BOOLEAN /\ pump[s].aborted \in BOOLEAN
         /\ pump[s].inflight \in Nat \cup {Null} /\ pump[s].done \in BOOLEAN
         /\ host[s] \in Seq(Nat) /\ Len(host[s]) \in Nat
         /\ written[s] \in Nat /\ Limit[s] \in Nat \ {0}
  BY CommandAssumption DEF CommandType, Readers, Pumps

LEMMA ChunksAreNumbers ==
  ASSUME NEW q \in Seq(Nat)
  PROVE  \A n \in 1..Len(q) : q[n] \in Nat
  OBVIOUS

\* Null is none of the values it stands beside.
LEMMA NullApart ==
  /\ Null \notin Failures /\ Null \notin Results
  /\ Null \notin {"ok", "error"} /\ Null \notin {"limit", "read"}
  BY CommandAssumption DEF Failures, Results

LEMMA OptsFields ==
  ASSUME cmd.opts \in Settings
  PROVE  Piped \subseteq Streams /\ cmd.opts.timed \in BOOLEAN
  BY CommandAssumption DEF Piped

LEMMA AbortFields ==
  ASSUME NEW p \in Pumps
  PROVE  /\ Abort(p) \in Pumps /\ Abort(p).aborted
         /\ Abort(p).finished = p.finished /\ Abort(p).done = p.done
         /\ Abort(p).inflight = p.inflight
         /\ Abort(p).queue \in {p.queue, <<>>}
  <1>1. <<>> \in Seq(Nat)
    OBVIOUS
  <1> QED BY <1>1 DEF Abort, Pumps

LEMMA PumpedStreams ==
  ASSUME CommandInv, cmd.pc \in {"spawned", "select"}
  PROVE  waiter # "none" /\ cmd.opts \in Settings /\ Piped \subseteq Streams
  BY OptsFields DEF CommandInv, Unstarted, Started

-----------------------------------------------------------------------------
(* The loop *)

\* What stopping the run, or not stopping it, leaves as it was.
LEMMA StopKeeps ==
  ASSUME CommandInv, NEW stops \in BOOLEAN, StopWhen(stops)
  PROVE  /\ proc' \in [Group -> {"none", "alive", "mute", "dead"}]
         /\ exit' \in {Null, "ok", "error"}
         /\ pump' \in [Streams -> Pumps]
         /\ \A p \in Group : \/ proc'[p] = proc[p]
                             \/ proc[p] # "none" /\ proc'[p] = "dead"
         /\ exit # Null => exit' = exit
         /\ stops => exit' # Null
         /\ ~stops => proc' = proc /\ exit' = exit
         /\ \A s \in Streams :
              /\ pump'[s].finished = pump[s].finished /\ pump'[s].done = pump[s].done
              /\ pump'[s].inflight = pump[s].inflight
              /\ pump'[s] = pump[s] \/ pump'[s].queue \in {pump[s].queue, <<>>}
              /\ stops /\ s \in Piped => pump'[s].aborted
              /\ ~stops \/ s \notin Piped => pump'[s] = pump[s]
  <1> USE DEF CommandInv
  <1>1. /\ proc' \in [Group -> {"none", "alive", "mute", "dead"}]
        /\ exit' \in {Null, "ok", "error"}
        /\ \A p \in Group : \/ proc'[p] = proc[p]
                            \/ proc[p] # "none" /\ proc'[p] = "dead"
        /\ exit # Null => exit' = exit
        /\ stops => exit' # Null
        /\ ~stops => proc' = proc /\ exit' = exit
    BY NullApart DEF StopWhen, CommandType
  <1>2. pump' \in [Streams -> Pumps]
    BY AbortFields DEF StopWhen, CommandType
  <1>3. ASSUME NEW s \in Streams
        PROVE  /\ pump'[s].finished = pump[s].finished /\ pump'[s].done = pump[s].done
               /\ pump'[s].inflight = pump[s].inflight
               /\ pump'[s] = pump[s] \/ pump'[s].queue \in {pump[s].queue, <<>>}
               /\ stops /\ s \in Piped => pump'[s].aborted
               /\ ~stops \/ s \notin Piped => pump'[s] = pump[s]
    <2>1. pump'[s] = IF stops /\ s \in Piped THEN Abort(pump[s]) ELSE pump[s]
      BY DEF StopWhen
    <2>2. pump[s] \in Pumps
      BY StreamFields
    <2>3. CASE stops /\ s \in Piped
      BY <2>1, <2>2, <2>3, AbortFields
    <2>4. CASE ~(stops /\ s \in Piped)
      BY <2>1, <2>4
    <2> QED BY <2>3, <2>4
  <1> QED BY <1>1, <1>2, <1>3

\* A turn of the loop, and the steps before and behind it, disturb nothing but
\* what the loop knows itself.
LEMMA LoopKeeps ==
  ASSUME CommandInv, NEW stops \in BOOLEAN, StopWhen(stops),
         cmd.pc \in {"spawned", "select"}, cmd' \in CmdStates, cmd'.opts = cmd.opts,
         cmd'.pc \in {"select", "returned"},
         cmd'.pc # "returned" => cmd'.result = Null,
         cmd'.failure # Null \/ cmd'.cancelled <=> stops \/ cmd.failure # Null \/ cmd.cancelled,
         UNCHANGED <<written, reader, waiter, sinks, outside>>
  PROVE  /\ CommandType' /\ Unstarted' /\ Started' /\ Processes' /\ ReadersTell'
         /\ OutputInv' /\ PumpsTell'
         /\ waiter # "none" /\ Piped' = Piped /\ Piped \subseteq Streams
         /\ waiter = "posted" => exit' = exit
         /\ \A s \in Streams : pump'[s].done = pump[s].done
  <1>0. waiter # "none" /\ cmd.opts \in Settings /\ Piped' = Piped /\ Piped \subseteq Streams
    BY PumpedStreams DEF Piped
  <1>1. /\ proc' \in [Group -> {"none", "alive", "mute", "dead"}]
        /\ exit' \in {Null, "ok", "error"}
        /\ pump' \in [Streams -> Pumps]
        /\ \A p \in Group : \/ proc'[p] = proc[p]
                            \/ proc[p] # "none" /\ proc'[p] = "dead"
        /\ exit # Null => exit' = exit
        /\ stops => exit' # Null
        /\ ~stops => proc' = proc /\ exit' = exit
    BY StopKeeps
  <1>2. \A s \in Streams :
          /\ pump'[s].finished = pump[s].finished /\ pump'[s].done = pump[s].done
          /\ pump'[s].inflight = pump[s].inflight
          /\ pump'[s] = pump[s] \/ pump'[s].queue \in {pump[s].queue, <<>>}
          /\ stops /\ s \in Piped => pump'[s].aborted
          /\ ~stops \/ s \notin Piped => pump'[s] = pump[s]
    BY StopKeeps
  <1>3. CommandType'
    BY <1>1 DEF CommandInv, CommandType, sinks, outside
  <1>4. Unstarted'
    BY <1>0 DEF Unstarted
  <1>5. Started'
    BY <1>0, <1>1 DEF CommandInv, Started, Group
  <1>6. Processes' /\ (waiter = "posted" => exit' = exit)
    <2>1. Child \in Group
      BY DEF Group
    <2>2. waiter = "posted" => NobodyLives'
      BY <1>1 DEF CommandInv, Processes, NobodyLives
    <2>3. waiter = "reaped" => proc'[Child] = "dead"
      BY <1>1, <2>1 DEF CommandInv, Processes
    <2>4. proc'[Child] = "dead" => exit' # Null
      BY <1>1, <2>1 DEF CommandInv, Processes
    <2>5. waiter = "posted" => exit # Null
      BY <1>0, <2>1, CommandAssumption DEF CommandInv, Processes, NobodyLives, Started
    <2> QED BY <1>1, <2>2, <2>3, <2>4, <2>5 DEF Processes
  <1>7. ReadersTell'
    <2>1. NobodyWrites => NobodyWrites'
      BY <1>1 DEF NobodyWrites
    <2> QED BY <2>1 DEF CommandInv, ReadersTell
  <1>8. OutputInv'
    <2> SUFFICES ASSUME NEW s \in Streams PROVE Ordered(s)'
      BY DEF OutputInv
    <2>1. Ordered(s)
      BY DEF CommandInv, OutputInv
    <2>2. pump'[s].inflight = pump[s].inflight
          /\ pump'[s].queue \in {pump[s].queue, <<>>}
      BY <1>2
    <2>3. CASE pump'[s].queue = pump[s].queue
      BY <2>1, <2>2, <2>3 DEF Ordered, sinks
    <2>4. CASE pump'[s].queue = <<>>
      BY <2>1, <2>2, <2>4 DEF Ordered, sinks
    <2> QED BY <2>2, <2>3, <2>4
  <1>9. PumpsTell'
    <2> SUFFICES ASSUME NEW s \in Piped
                 PROVE  /\ pump'[s].finished => reader[s].pc = "done"
                        /\ pump'[s].aborted <=> cmd'.failure # Null \/ cmd'.cancelled
                        /\ pump'[s].done /\ ~pump'[s].aborted
                             => pump'[s].finished /\ pump'[s].queue = <<>> /\ pump'[s].inflight = Null
                        /\ ~pump'[s].aborted /\ s \notin refused => Complete(s)'
      BY <1>0 DEF PumpsTell, sinks
    <2>1. s \in Streams
      BY <1>0
    <2>2. /\ pump[s].finished => reader[s].pc = "done"
          /\ pump[s].aborted <=> cmd.failure # Null \/ cmd.cancelled
          /\ pump[s].done /\ ~pump[s].aborted
               => pump[s].finished /\ pump[s].queue = <<>> /\ pump[s].inflight = Null
          /\ ~pump[s].aborted /\ s \notin refused => Complete(s)
      BY <1>0 DEF CommandInv, PumpsTell
    <2>3. CASE stops
      BY <1>2, <2>1, <2>2, <2>3
    <2>4. CASE ~stops
      <3>1. pump'[s] = pump[s]
        BY <1>2, <2>1, <2>4
      <3>2. Complete(s) => Complete(s)'
        BY <3>1 DEF Complete, Admitted, sinks
      <3> QED BY <2>2, <2>4, <3>1, <3>2
    <2> QED BY <2>3, <2>4
  <1> QED BY <1>0, <1>2, <1>3, <1>4, <1>5, <1>6, <1>7, <1>8, <1>9

\* A turn of the loop, whatever the case of the select.
LEMMA TurnKeeps ==
  ASSUME CommandInv, NEW failure \in Failures \cup {Null}, NEW gathered \in CmdStates,
         cmd.pc = "select", Turn(failure, gathered),
         gathered.pc = "select", gathered.opts = cmd.opts, gathered.failure = cmd.failure,
         gathered.cancelled = cmd.cancelled, gathered.lateStart = cmd.lateStart,
         gathered.result = cmd.result,
         failure = "timeout" => late,
         failure = "limit" => \E s \in Streams : reader[s].err = "limit",
         \A s \in Streams \ gathered.streams :
           /\ reader[s].pc = "done"
           /\ reader[s].err # Null => reader[s].err = failure \/ s \notin cmd.streams
           /\ s = "out" /\ reader[s].err = Null => gathered.captured = reader[s].count,
         \A s \in Piped \ gathered.pumps : pump[s].done,
         ~gathered.wait => waiter = "posted",
         UNCHANGED <<written, reader, waiter, sinks, outside>>
  PROVE  CommandInv'
  <1> DEFINE cancelled == cmd.cancelled \/ parent
             fails == failure # Null /\ cmd.failure = Null /\ ~cancelled
             stops == fails \/ (cancelled /\ ~cmd.cancelled)
  <1>1. cmd' = [gathered EXCEPT !.cancelled = cancelled,
                                !.failure = IF fails THEN failure ELSE @]
        /\ StopWhen(stops)
    BY DEF Turn
  <1>2. CommandType /\ Gathered /\ Started /\ Unstarted
    BY DEF CommandInv
  <1>3. cancelled \in BOOLEAN /\ stops \in BOOLEAN
    BY <1>2, CmdFields DEF CommandType
  <1>4. /\ cmd'.pc = "select" /\ cmd'.opts = cmd.opts /\ cmd'.cancelled = cancelled
        /\ cmd'.failure = (IF fails THEN failure ELSE cmd.failure)
        /\ cmd'.streams = gathered.streams /\ cmd'.wait = gathered.wait
        /\ cmd'.pumps = gathered.pumps /\ cmd'.captured = gathered.captured
        /\ cmd'.lateStart = cmd.lateStart /\ cmd'.result = cmd.result
    BY <1>1 DEF CmdStates
  <1>5. cmd' \in CmdStates
    <2>1. (IF fails THEN failure ELSE gathered.failure) \in Failures \cup {Null}
      BY DEF CmdStates
    <2> QED BY <1>1, <1>3, <2>1, Zenon DEF CmdStates
  <1>6. cmd.result = Null
    BY <1>2, PumpedStreams DEF Started
  <1>7. cmd'.failure # Null \/ cmd'.cancelled <=> stops \/ cmd.failure # Null \/ cmd.cancelled
    BY <1>4
  <1> HIDE DEF stops
  <1>8. /\ CommandType' /\ Unstarted' /\ Started' /\ Processes' /\ ReadersTell'
        /\ OutputInv' /\ PumpsTell' /\ waiter # "none" /\ Piped' = Piped /\ Piped \subseteq Streams
        /\ \A s \in Streams : pump'[s].done = pump[s].done
    BY <1>1, <1>3, <1>4, <1>5, <1>6, <1>7, LoopKeeps
  <1>9. Gathered'
    <2>1. ASSUME NEW s \in Streams \ cmd'.streams
          PROVE  /\ reader'[s].pc = "done"
                 /\ cmd'.failure = Null /\ ~cmd'.cancelled => reader'[s].err = Null
                 /\ s = "out" /\ reader'[s].err = Null => cmd'.captured = reader'[s].count
      <3>1. ASSUME cmd'.failure = Null, ~cmd'.cancelled PROVE reader[s].err = Null
        <4>1. failure = Null /\ cmd.failure = Null /\ ~cmd.cancelled
          BY <1>4, <3>1
        <4>2. s \notin cmd.streams => reader[s].err = Null
          BY <1>2, <1>8, <4>1, <2>1 DEF Gathered
        <4> QED BY <1>4, <2>1, <4>1, <4>2
      <3> QED BY <1>4, <2>1, <3>1
    <2>2. \A s \in Piped' \ cmd'.pumps : pump'[s].done
      BY <1>4, <1>8
    <2>3. ~cmd'.wait => waiter' = "posted"
      BY <1>4
    <2>4. cmd'.failure = "limit" => \E s \in Streams : reader'[s].err = "limit"
      BY <1>2, <1>4 DEF Gathered
    <2>5. cmd'.failure = "timeout" => late'
      BY <1>2, <1>4 DEF Gathered, outside
    <2>6. cmd'.cancelled => parent'
      BY <1>2, <1>4 DEF Gathered, outside
    <2>7. cmd'.lateStart => cmd'.failure # Null
      BY <1>2, <1>4 DEF Gathered
    <2> QED BY <2>1, <2>2, <2>3, <2>4, <2>5, <2>6, <2>7 DEF Gathered
  <1>10. Returned'
    BY <1>4 DEF Returned
  <1> QED BY <1>8, <1>9, <1>10 DEF CommandInv

LEMMA KeepSelectStream ==
  ASSUME CommandInv, NEW s \in Streams, SelectStream(s)
  PROVE  CommandInv'
  <1> DEFINE gathered == [cmd EXCEPT !.streams = @ \ {s},
                            !.captured = IF s = "out" /\ reader[s].err = Null
                                         THEN reader[s].count ELSE @]
  <1>1. CommandType /\ Gathered /\ ReadersTell /\ waiter # "none"
    BY PumpedStreams DEF CommandInv, SelectStream
  <1>2. /\ cmd.pc = "select" /\ reader[s].pc = "done" /\ Turn(reader[s].err, gathered)
        /\ UNCHANGED <<written, reader, waiter, sinks, outside>>
    BY DEF SelectStream
  <1>3. reader[s].err \in Failures \cup {Null} /\ reader[s].err # "timeout"
    BY <1>1, StreamFields, NullApart, CommandAssumption DEF Failures, Results
  <1>4. gathered \in CmdStates
    <2>1. cmd.streams \ {s} \in SUBSET Streams
          /\ (IF s = "out" /\ reader[s].err = Null THEN reader[s].count ELSE cmd.captured) \in Nat
      BY <1>1, CmdFields, StreamFields
    <2> QED BY <1>1, <2>1, Zenon DEF CommandType, CmdStates
  <1>5. /\ gathered.pc = "select" /\ gathered.opts = cmd.opts /\ gathered.failure = cmd.failure
        /\ gathered.cancelled = cmd.cancelled /\ gathered.lateStart = cmd.lateStart
        /\ gathered.result = cmd.result /\ gathered.streams = cmd.streams \ {s}
        /\ gathered.captured = (IF s = "out" /\ reader[s].err = Null
                                THEN reader[s].count ELSE cmd.captured)
        /\ gathered.pumps = cmd.pumps /\ gathered.wait = cmd.wait
    BY <1>1, <1>2 DEF CommandType, CmdStates
  <1> HIDE DEF gathered
  <1>6. ASSUME NEW t \in Streams \ gathered.streams
        PROVE  /\ reader[t].pc = "done"
               /\ reader[t].err # Null => reader[t].err = reader[s].err \/ t \notin cmd.streams
               /\ t = "out" /\ reader[t].err = Null => gathered.captured = reader[t].count
    <2>1. CASE t = s
      BY <1>2, <1>5, <2>1
    <2>2. CASE t # s
      BY <1>1, <1>5, <1>6, <2>2 DEF Gathered
    <2> QED BY <2>1, <2>2
  <1>7. /\ \A t \in Piped \ gathered.pumps : pump[t].done
        /\ ~gathered.wait => waiter = "posted"
    BY <1>1, <1>5 DEF Gathered
  <1> QED BY <1>2, <1>3, <1>4, <1>5, <1>6, <1>7, TurnKeeps

LEMMA KeepSelectWait ==
  ASSUME CommandInv, SelectWait
  PROVE  CommandInv'
  <1> DEFINE gathered == [cmd EXCEPT !.wait = FALSE]
  <1>1. CommandType /\ Gathered /\ waiter # "none"
    BY PumpedStreams DEF CommandInv, SelectWait
  <1>2. /\ cmd.pc = "select" /\ waiter = "posted" /\ Turn(Null, gathered)
        /\ UNCHANGED <<written, reader, waiter, sinks, outside>>
    BY DEF SelectWait
  <1>3. gathered \in CmdStates
    BY <1>1, Zenon DEF CommandType, CmdStates
  <1>4. /\ gathered.pc = "select" /\ gathered.opts = cmd.opts /\ gathered.failure = cmd.failure
        /\ gathered.cancelled = cmd.cancelled /\ gathered.lateStart = cmd.lateStart
        /\ gathered.result = cmd.result /\ gathered.streams = cmd.streams
        /\ gathered.captured = cmd.captured /\ gathered.pumps = cmd.pumps
    BY <1>1, <1>2 DEF CommandType, CmdStates
  <1> HIDE DEF gathered
  <1>5. \A s \in Streams \ gathered.streams :
           /\ reader[s].pc = "done"
           /\ reader[s].err # Null => reader[s].err = Null \/ s \notin cmd.streams
           /\ s = "out" /\ reader[s].err = Null => gathered.captured = reader[s].count
    BY <1>1, <1>4 DEF Gathered
  <1>6. \A s \in Piped \ gathered.pumps : pump[s].done
    BY <1>1, <1>4 DEF Gathered
  <1>7. Null # "timeout" /\ Null # "limit"
    BY NullApart DEF Failures
  <1> QED BY <1>2, <1>3, <1>4, <1>5, <1>6, <1>7, TurnKeeps

LEMMA KeepSelectPumpDone ==
  ASSUME CommandInv, NEW s \in Streams, SelectPumpDone(s)
  PROVE  CommandInv'
  <1> DEFINE gathered == [cmd EXCEPT !.pumps = @ \ {s}]
  <1>1. CommandType /\ Gathered /\ waiter # "none"
    BY PumpedStreams DEF CommandInv, SelectPumpDone
  <1>2. /\ cmd.pc = "select" /\ pump[s].done /\ Turn(Null, gathered)
        /\ UNCHANGED <<written, reader, waiter, sinks, outside>>
    BY DEF SelectPumpDone
  <1>3. gathered \in CmdStates
    <2>1. cmd.pumps \ {s} \in SUBSET Streams
      BY <1>1, CmdFields
    <2> QED BY <1>1, <2>1, Zenon DEF CommandType, CmdStates
  <1>4. /\ gathered.pc = "select" /\ gathered.opts = cmd.opts /\ gathered.failure = cmd.failure
        /\ gathered.cancelled = cmd.cancelled /\ gathered.lateStart = cmd.lateStart
        /\ gathered.result = cmd.result /\ gathered.streams = cmd.streams
        /\ gathered.captured = cmd.captured /\ gathered.pumps = cmd.pumps \ {s}
        /\ gathered.wait = cmd.wait
    BY <1>1, <1>2 DEF CommandType, CmdStates
  <1> HIDE DEF gathered
  <1>5. \A t \in Streams \ gathered.streams :
           /\ reader[t].pc = "done"
           /\ reader[t].err # Null => reader[t].err = Null \/ t \notin cmd.streams
           /\ t = "out" /\ reader[t].err = Null => gathered.captured = reader[t].count
    BY <1>1, <1>4 DEF Gathered
  <1>6. /\ \A t \in Piped \ gathered.pumps : pump[t].done
        /\ ~gathered.wait => waiter = "posted"
    BY <1>1, <1>2, <1>4 DEF Gathered
  <1>7. Null # "timeout" /\ Null # "limit"
    BY NullApart DEF Failures
  <1> QED BY <1>2, <1>3, <1>4, <1>5, <1>6, <1>7, TurnKeeps

LEMMA KeepSelectParent ==
  ASSUME CommandInv, SelectParent
  PROVE  CommandInv'
  <1>1. CommandType /\ Gathered /\ waiter # "none"
    BY PumpedStreams DEF CommandInv, SelectParent
  <1>2. /\ cmd.pc = "select" /\ Turn(Null, cmd)
        /\ UNCHANGED <<written, reader, waiter, sinks, outside>>
    BY DEF SelectParent
  <1>3. cmd \in CmdStates
    BY <1>1 DEF CommandType
  <1>4. \A s \in Streams \ cmd.streams :
           /\ reader[s].pc = "done"
           /\ reader[s].err # Null => reader[s].err = Null \/ s \notin cmd.streams
           /\ s = "out" /\ reader[s].err = Null => cmd.captured = reader[s].count
    BY <1>1 DEF Gathered
  <1>5. /\ \A s \in Piped \ cmd.pumps : pump[s].done
        /\ ~cmd.wait => waiter = "posted"
    BY <1>1 DEF Gathered
  <1>6. Null # "timeout" /\ Null # "limit"
    BY NullApart DEF Failures
  <1> QED BY <1>2, <1>3, <1>4, <1>5, <1>6, TurnKeeps

LEMMA KeepSelectTimeout ==
  ASSUME CommandInv, SelectTimeout
  PROVE  CommandInv'
  <1> DEFINE gathered == [cmd EXCEPT !.armed = cmd.failure = Null /\ (cmd.cancelled \/ parent)]
  <1>1. CommandType /\ Gathered /\ waiter # "none"
    BY PumpedStreams DEF CommandInv, SelectTimeout
  <1>2. /\ cmd.pc = "select" /\ late /\ Turn("timeout", gathered)
        /\ UNCHANGED <<written, reader, waiter, sinks, outside>>
    BY DEF SelectTimeout
  <1>3. gathered \in CmdStates
    <2>1. (cmd.failure = Null /\ (cmd.cancelled \/ parent)) \in BOOLEAN
      OBVIOUS
    <2> QED BY <1>1, <2>1, Zenon DEF CommandType, CmdStates
  <1>4. /\ gathered.pc = "select" /\ gathered.opts = cmd.opts /\ gathered.failure = cmd.failure
        /\ gathered.cancelled = cmd.cancelled /\ gathered.lateStart = cmd.lateStart
        /\ gathered.result = cmd.result /\ gathered.streams = cmd.streams
        /\ gathered.captured = cmd.captured /\ gathered.pumps = cmd.pumps
        /\ gathered.wait = cmd.wait
    BY <1>1, <1>2 DEF CommandType, CmdStates
  <1> HIDE DEF gathered
  <1>5. \A s \in Streams \ gathered.streams :
           /\ reader[s].pc = "done"
           /\ reader[s].err # Null => reader[s].err = "timeout" \/ s \notin cmd.streams
           /\ s = "out" /\ reader[s].err = Null => gathered.captured = reader[s].count
    BY <1>1, <1>4 DEF Gathered
  <1>6. /\ \A s \in Piped \ gathered.pumps : pump[s].done
        /\ ~gathered.wait => waiter = "posted"
    BY <1>1, <1>4 DEF Gathered
  <1>7. "timeout" \in Failures
    BY DEF Failures
  <1> QED BY <1>2, <1>3, <1>4, <1>5, <1>6, <1>7, TurnKeeps

LEMMA KeepArmTimeout ==
  ASSUME CommandInv, ArmTimeout
  PROVE  CommandInv'
  <1>1. CommandType /\ Gathered /\ Started /\ waiter # "none" /\ Whole /\ cmd.pumps = Piped
        /\ cmd.opts \in Settings /\ Piped \subseteq Streams /\ cmd.result = Null
    BY PumpedStreams DEF CommandInv, ArmTimeout, Started
  <1>2. /\ cmd.pc = "spawned"
        /\ cmd' = [cmd EXCEPT !.pc = "select", !.cancelled = parent, !.lateStart = late,
                              !.failure = IF late THEN "timeout" ELSE Null,
                              !.armed = cmd.opts.timed /\ ~late]
        /\ StopWhen(parent \/ late)
        /\ UNCHANGED <<written, reader, waiter, sinks, outside>>
    BY DEF ArmTimeout
  <1>3. parent \in BOOLEAN /\ late \in BOOLEAN /\ (parent \/ late) \in BOOLEAN
    BY <1>1 DEF CommandType
  <1>4. cmd' \in CmdStates
    <2>1. /\ (IF late THEN "timeout" ELSE Null) \in Failures \cup {Null}
          /\ (cmd.opts.timed /\ ~late) \in BOOLEAN
      BY DEF Failures
    <2> QED BY <1>1, <1>2, <1>3, <2>1, Zenon DEF CommandType, CmdStates
  <1>5. /\ cmd'.pc = "select" /\ cmd'.opts = cmd.opts /\ cmd'.cancelled = parent
        /\ cmd'.lateStart = late /\ cmd'.failure = (IF late THEN "timeout" ELSE Null)
        /\ cmd'.streams = cmd.streams /\ cmd'.wait = cmd.wait
        /\ cmd'.pumps = cmd.pumps /\ cmd'.result = cmd.result
    BY <1>1, <1>2 DEF CommandType, CmdStates
  <1>6. "timeout" # Null /\ Null # "limit"
    BY NullApart DEF Failures
  <1>7. cmd'.failure # Null \/ cmd'.cancelled
          <=> (parent \/ late) \/ cmd.failure # Null \/ cmd.cancelled
    BY <1>1, <1>3, <1>5, <1>6 DEF Whole
  <1>8. /\ CommandType' /\ Unstarted' /\ Started' /\ Processes' /\ ReadersTell'
        /\ OutputInv' /\ PumpsTell' /\ waiter # "none" /\ Piped' = Piped
    BY <1>1, <1>2, <1>3, <1>4, <1>5, <1>7, LoopKeeps
  <1>9. Gathered' /\ Returned'
    BY <1>1, <1>2, <1>5, <1>6, <1>8 DEF Gathered, Returned, Whole, outside
  <1> QED BY <1>8, <1>9 DEF CommandInv

LEMMA KeepFinish ==
  ASSUME CommandInv, Finish
  PROVE  CommandInv'
  <1>1. CommandType /\ Gathered /\ Started /\ Processes /\ waiter # "none"
        /\ cmd.opts \in Settings /\ cmd.result = Null
    BY PumpedStreams DEF CommandInv, Finish, Started
  <1>2. /\ cmd.pc = "select" /\ ~Gathering /\ KillGroup
        /\ cmd' = [cmd EXCEPT !.pc = "returned", !.result = Verdict(cmd.cancelled \/ parent),
                              !.cancelled = cmd.cancelled \/ parent]
        /\ pump' = [s \in Streams |-> IF parent /\ s \in Piped THEN Abort(pump[s]) ELSE pump[s]]
        /\ UNCHANGED <<written, reader, waiter, sinks, outside>>
    BY <1>1 DEF Finish, Return, CommandType, CmdStates
  <1>3. /\ cmd.streams = {} /\ ~cmd.wait /\ waiter = "posted" /\ NobodyLives
        /\ cmd.failure = Null /\ ~cmd.cancelled => cmd.pumps = {}
    BY <1>1, <1>2 DEF Gathering, Gathered, Processes
  <1>4. Child \in Group /\ exit # Null
    BY <1>1, <1>3 DEF Group, NobodyLives, Started, Processes
  <1>5. StopWhen(parent)
    <2>1. proc' = proc /\ exit' = exit
      BY <1>1, <1>2, <1>3, <1>4 DEF KillGroup, NobodyLives, CommandType
    <2>2. proc = [p \in Group |-> IF parent /\ proc[p] # "none" THEN "dead" ELSE proc[p]]
      BY <1>1, <1>3 DEF NobodyLives, CommandType
    <2> QED BY <1>2, <1>4, <2>1, <2>2 DEF StopWhen
  <1>6. parent \in BOOLEAN /\ (cmd.cancelled \/ parent) \in BOOLEAN
    BY <1>1 DEF CommandType
  <1>7. cmd' \in CmdStates
    <2>1. Verdict(cmd.cancelled \/ parent) \in Results
      BY <1>1, CmdFields DEF Verdict, Results, Failures
    <2> QED BY <1>1, <1>2, <1>6, <2>1, Zenon DEF CommandType, CmdStates
  <1>8. /\ cmd'.pc = "returned" /\ cmd'.opts = cmd.opts /\ cmd'.failure = cmd.failure
        /\ cmd'.cancelled = (cmd.cancelled \/ parent) /\ cmd'.streams = cmd.streams
        /\ cmd'.wait = cmd.wait /\ cmd'.pumps = cmd.pumps /\ cmd'.lateStart = cmd.lateStart
        /\ cmd'.captured = cmd.captured /\ cmd'.result = Verdict(cmd.cancelled \/ parent)
    BY <1>1, <1>2 DEF CommandType, CmdStates
  <1>9. cmd'.failure # Null \/ cmd'.cancelled <=> parent \/ cmd.failure # Null \/ cmd.cancelled
    BY <1>8
  <1>10. /\ CommandType' /\ Unstarted' /\ Started' /\ Processes' /\ ReadersTell'
         /\ OutputInv' /\ PumpsTell' /\ Piped' = Piped /\ Piped \subseteq Streams
         /\ exit' = exit /\ \A s \in Streams : pump'[s].done = pump[s].done
    BY <1>2, <1>3, <1>5, <1>6, <1>7, <1>8, <1>9, LoopKeeps
  <1>11. Gathered'
    <2>1. ASSUME NEW s \in Streams \ cmd'.streams
          PROVE  /\ reader'[s].pc = "done"
                 /\ cmd'.failure = Null /\ ~cmd'.cancelled => reader'[s].err = Null
                 /\ s = "out" /\ reader'[s].err = Null => cmd'.captured = reader'[s].count
      BY <1>1, <1>2, <1>8, <2>1 DEF Gathered
    <2>2. \A s \in Piped' \ cmd'.pumps : pump'[s].done
      BY <1>1, <1>8, <1>10 DEF Gathered
    <2>3. ~cmd'.wait => waiter' = "posted"
      BY <1>2, <1>3
    <2>4. /\ cmd'.failure = "limit" => \E s \in Streams : reader'[s].err = "limit"
          /\ cmd'.failure = "timeout" => late'
          /\ cmd'.cancelled => parent'
          /\ cmd'.lateStart => cmd'.failure # Null
      BY <1>1, <1>2, <1>8 DEF Gathered, outside
    <2> QED BY <2>1, <2>2, <2>3, <2>4 DEF Gathered
  <1>12. Returned'
    BY <1>3, <1>8, <1>10 DEF Returned, Verdict
  <1> QED BY <1>10, <1>11, <1>12 DEF CommandInv

-----------------------------------------------------------------------------
(* Before the loop *)

LEMMA KeepBegin ==
  ASSUME CommandInv, NEW opts \in Settings, Begin(opts)
  PROVE  CommandInv'
  <1>1. CommandType /\ Unstarted /\ waiter = "none" /\ Whole /\ cmd.result = Null
    BY DEF CommandInv, Begin, Unstarted, Started
  <1>2. /\ cmd.pc = "idle"
        /\ UNCHANGED <<child, reader, waiter, pump, sinks, outside>>
        /\ \/ /\ cmd' = [cmd EXCEPT !.pc = "returned", !.opts = opts,
                                    !.result = IF parent THEN "cancelled" ELSE "refused"]
           \/ /\ ~parent
              /\ cmd' = [cmd EXCEPT !.pc = "checked", !.opts = opts]
    BY <1>1 DEF Begin, Return, CommandType, CmdStates
  <1>3. /\ cmd' \in CmdStates /\ Whole'
        /\ cmd'.pc \in {"checked", "returned"} /\ cmd'.opts = opts
        /\ IF cmd'.pc = "returned"
           THEN cmd'.result = (IF parent THEN "cancelled" ELSE "refused")
           ELSE cmd'.result = Null
    <2>1. CASE cmd' = [cmd EXCEPT !.pc = "returned", !.opts = opts,
                                  !.result = IF parent THEN "cancelled" ELSE "refused"]
      <3>1. (IF parent THEN "cancelled" ELSE "refused") \in Results
        BY DEF Results
      <3>2. cmd' \in CmdStates
        BY <1>1, <2>1, <3>1, Zenon DEF CommandType, CmdStates
      <3> QED BY <1>1, <2>1, <3>2 DEF CommandType, CmdStates, Whole
    <2>2. CASE cmd' = [cmd EXCEPT !.pc = "checked", !.opts = opts]
      <3>1. cmd' \in CmdStates
        BY <1>1, <2>2, Zenon DEF CommandType, CmdStates
      <3> QED BY <1>1, <2>2, <3>1 DEF CommandType, CmdStates, Whole
    <2> QED BY <1>2, <2>1, <2>2
  <1>4. CommandType'
    BY <1>1, <1>2, <1>3 DEF CommandType, child, sinks, outside
  <1>5. Unstarted'
    BY <1>1, <1>2, <1>3 DEF Unstarted, child, sinks, outside
  <1>6. Started' /\ Processes' /\ PumpsTell' /\ Returned'
    BY <1>1, <1>2, CommandAssumption
       DEF CommandInv, Started, Processes, PumpsTell, Returned, NobodyLives, Group, child
  <1>7. ReadersTell' /\ OutputInv'
    BY <1>2 DEF CommandInv, ReadersTell, OutputInv, Ordered, NobodyWrites, child, sinks
  <1>8. Gathered'
    BY <1>1, <1>2, <1>3, NullApart DEF Gathered, Whole, Failures
  <1> QED BY <1>4, <1>5, <1>6, <1>7, <1>8 DEF CommandInv

LEMMA KeepSpawn ==
  ASSUME CommandInv, Spawn
  PROVE  CommandInv'
  <1>1. /\ CommandType /\ Unstarted /\ waiter = "none" /\ Whole /\ cmd.result = Null
        /\ cmd.pc = "checked" /\ cmd.opts \in Settings
        /\ UNCHANGED <<exit, written, reader, pump, sinks, outside>>
    BY DEF CommandInv, Spawn, Unstarted, Started
  <1>2. Child \in Group /\ Piped \subseteq Streams
    BY <1>1, OptsFields DEF Group
  <1>3. ReadersTell' /\ OutputInv'
    BY <1>1, NullApart DEF CommandInv, ReadersTell, OutputInv, Ordered, Unstarted, Unread, Idle, sinks
  <1>4. ASSUME NEW result \in {"timeout", "cancelled", "spawn"},
               cmd' = Return(result), UNCHANGED <<proc, waiter>>,
               result = "timeout" => late, result = "cancelled" => parent
        PROVE  CommandInv'
    <2>1. /\ cmd' \in CmdStates /\ Whole' /\ cmd'.pc = "returned" /\ cmd'.result = result
      <3>1. result \in Results
        BY DEF Results, Failures
      <3>2. cmd' \in CmdStates
        BY <1>1, <1>4, <3>1, Zenon DEF Return, CommandType, CmdStates
      <3> QED BY <1>1, <1>4, <3>2 DEF Return, CommandType, CmdStates, Whole
    <2>2. CommandType'
      BY <1>1, <1>4, <2>1 DEF CommandType, sinks, outside
    <2>3. Unstarted'
      BY <1>1, <1>4, <2>1 DEF Unstarted, sinks, outside
    <2>4. Started' /\ Processes' /\ PumpsTell' /\ Returned'
      BY <1>1, <1>4 DEF CommandInv, Started, Processes, PumpsTell, Returned, NobodyLives
    <2>5. Gathered'
      BY <1>1, <1>4, <2>1, NullApart DEF Gathered, Whole, Failures
    <2> QED BY <1>3, <2>2, <2>3, <2>4, <2>5 DEF CommandInv
  <1>5. ASSUME cmd' = [cmd EXCEPT !.pc = "spawned", !.pumps = Piped],
               proc' = [proc EXCEPT ![Child] = "alive"], waiter' = "waiting"
        PROVE  CommandInv'
    <2>1. /\ cmd' \in CmdStates /\ cmd'.pc = "spawned" /\ cmd'.opts = cmd.opts
          /\ cmd'.pumps = Piped /\ cmd'.result = Null
          /\ cmd'.streams = cmd.streams /\ cmd'.wait = cmd.wait /\ cmd'.failure = cmd.failure
          /\ cmd'.cancelled = cmd.cancelled /\ cmd'.lateStart = cmd.lateStart
      <3>1. cmd' \in CmdStates
        BY <1>1, <1>2, <1>5, Zenon DEF CommandType, CmdStates
      <3> QED BY <1>1, <1>5, <3>1 DEF CommandType, CmdStates
    <2>2. Piped' = Piped /\ Whole'
      BY <1>1, <2>1 DEF Piped, Whole
    <2>3. /\ proc' \in [Group -> {"none", "alive", "mute", "dead"}]
          /\ proc'[Child] = "alive"
      BY <1>1, <1>2, <1>5 DEF CommandType
    <2>4. CommandType'
      BY <1>1, <1>5, <2>1, <2>3 DEF CommandType, sinks, outside
    <2>5. Unstarted' /\ Started' /\ Processes'
      BY <1>1, <1>5, <2>1, <2>2, <2>3 DEF Unstarted, Started, Processes
    <2>6. PumpsTell'
      <3> SUFFICES ASSUME NEW s \in Piped
                   PROVE  /\ ~Idle.finished /\ ~Idle.aborted /\ ~Idle.done
                          /\ cmd'.failure = Null /\ ~cmd'.cancelled
                          /\ pump'[s] = Idle /\ Complete(s)'
        BY <2>2 DEF PumpsTell
      <3>1. /\ pump'[s] = Idle /\ host'[s] = <<>> /\ reader'[s] = Unread
        BY <1>1, <1>2 DEF Unstarted, sinks
      <3>2. Complete(s)'
        BY <3>1 DEF Complete, Admitted, Idle, Unread
      <3> QED BY <1>1, <2>1, <3>1, <3>2 DEF Idle, Whole
    <2>7. Gathered' /\ Returned'
      BY <1>1, <2>1, <2>2, NullApart DEF Gathered, Returned, Whole, Failures
    <2> QED BY <1>3, <2>4, <2>5, <2>6, <2>7 DEF CommandInv
  <1>6. \/ late /\ cmd' = Return("timeout") /\ UNCHANGED <<proc, waiter>>
        \/ parent /\ cmd' = Return("cancelled") /\ UNCHANGED <<proc, waiter>>
        \/ cmd' = Return("spawn") /\ UNCHANGED <<proc, waiter>>
        \/ /\ cmd' = [cmd EXCEPT !.pc = "spawned", !.pumps = Piped]
           /\ proc' = [proc EXCEPT ![Child] = "alive"] /\ waiter' = "waiting"
    BY DEF Spawn
  <1> QED BY <1>4, <1>5, <1>6

-----------------------------------------------------------------------------
(* The waiter and the processes *)

\* A step that leaves the streams and the loop alone.
LEMMA ProcessesKeep ==
  ASSUME CommandInv, waiter # "none",
         UNCHANGED <<cmd, reader, pump, sinks, outside>>,
         proc' \in [Group -> {"none", "alive", "mute", "dead"}],
         exit' \in {Null, "ok", "error"}, written' \in [Streams -> Nat],
         waiter' \in {"waiting", "reaped", "posted"}, Processes',
         proc'[Child] # "none", NobodyWrites => NobodyWrites',
         waiter = "posted" => waiter' = "posted" /\ exit' = exit,
         \A s \in Streams : /\ written[s] <= written'[s]
                            /\ NobodyWrites => written'[s] = written[s]
  PROVE  CommandInv'
  <1>1. CommandType'
    BY DEF CommandInv, CommandType, sinks, outside
  <1>2. Unstarted' /\ Started'
    BY DEF CommandInv, Unstarted, Started, Whole, Piped
  <1>3. ReadersTell'
    <2> SUFFICES ASSUME NEW s \in Streams
                 PROVE  /\ reader[s].count <= written'[s] /\ reader[s].count <= Limit[s]
                        /\ reader[s].pc = "reading" => reader[s].err = Null
                        /\ reader[s].err = "limit" => written'[s] > Limit[s]
                        /\ reader[s].pc = "done" /\ reader[s].err = Null
                             => reader[s].count = written'[s] /\ NobodyWrites'
      BY DEF ReadersTell
    <2>1. /\ reader[s].count \in Nat /\ written[s] \in Nat /\ written'[s] \in Nat /\ Limit[s] \in Nat
      BY StreamFields DEF CommandInv
    <2> QED BY <2>1 DEF CommandInv, ReadersTell
  <1>4. OutputInv'
    BY DEF CommandInv, OutputInv, Ordered, sinks
  <1>5. PumpsTell'
    <2>1. \A s \in Streams : Complete(s)' = Complete(s)
      BY Zenon DEF Complete, Admitted, sinks
    <2>2. Piped' = Piped /\ Piped \subseteq Streams
      BY OptsFields DEF CommandInv, Started, Piped
    <2> QED BY <2>1, <2>2 DEF CommandInv, PumpsTell, sinks
  <1>6. Gathered'
    BY DEF CommandInv, Gathered, Piped, outside
  <1>7. Returned'
    BY DEF CommandInv, Returned, Verdict, Gathered
  <1> QED BY <1>1, <1>2, <1>3, <1>4, <1>5, <1>6, <1>7 DEF CommandInv

LEMMA KeepReap ==
  ASSUME CommandInv, Reap
  PROVE  CommandInv'
  BY ProcessesKeep, StreamFields
     DEF Reap, CommandInv, CommandType, Processes, Started, NobodyLives, NobodyWrites, child

LEMMA KeepPostWait ==
  ASSUME CommandInv, PostWait
  PROVE  CommandInv'
  <1>1. waiter = "reaped" /\ waiter' = "posted" /\ KillGroup
        /\ UNCHANGED <<cmd, written, reader, pump, sinks, outside>>
    BY DEF PostWait
  <1>2. /\ proc' \in [Group -> {"none", "alive", "mute", "dead"}] /\ NobodyLives'
        /\ Child \in Group /\ proc'[Child] = "dead" /\ exit' = exit /\ exit # Null
    BY <1>1 DEF CommandInv, KillGroup, CommandType, NobodyLives, Processes, Group
  <1>3. Processes' /\ NobodyWrites'
    BY <1>1, <1>2 DEF Processes, NobodyLives, NobodyWrites
  <1>4. \A s \in Streams : written[s] <= written'[s] /\ written'[s] = written[s]
    BY <1>1, StreamFields DEF CommandInv
  <1> QED BY <1>1, <1>2, <1>3, <1>4, ProcessesKeep DEF CommandInv, CommandType

\* While anybody of the group lives the wait is not over.
LEMMA SomebodyLives ==
  ASSUME CommandInv, NEW p \in Group, proc[p] \in {"alive", "mute"}
  PROVE  waiter \in {"waiting", "reaped"} /\ proc[Child] # "none" /\ Child \in Group
  BY DEF CommandInv, CommandType, Unstarted, Started, Processes, NobodyLives, Group

LEMMA KeepFork ==
  ASSUME CommandInv, NEW p \in Group, NEW q \in Group, Fork(p, q)
  PROVE  CommandInv'
  <1>1. /\ waiter \in {"waiting", "reaped"} /\ proc[Child] # "none" /\ Child \in Group
        /\ proc[p] \in {"alive", "mute"} /\ proc[q] = "none"
        /\ proc' = [proc EXCEPT ![q] = proc[p]]
        /\ UNCHANGED <<cmd, exit, written, reader, waiter, pump, sinks, outside>>
    BY SomebodyLives DEF Fork
  <1>2. /\ proc' \in [Group -> {"none", "alive", "mute", "dead"}] /\ proc'[Child] = proc[Child]
        /\ NobodyWrites => NobodyWrites'
    BY <1>1 DEF CommandInv, CommandType, NobodyWrites
  <1>3. Processes'
    BY <1>1, <1>2 DEF CommandInv, Processes
  <1>4. \A s \in Streams : written[s] <= written'[s] /\ written'[s] = written[s]
    BY <1>1, StreamFields DEF CommandInv
  <1> QED BY <1>1, <1>2, <1>3, <1>4, ProcessesKeep DEF CommandInv, CommandType

LEMMA KeepWrite ==
  ASSUME CommandInv, NEW p \in Group, NEW s \in Streams, Write(p, s)
  PROVE  CommandInv'
  <1>1. /\ waiter \in {"waiting", "reaped"} /\ proc[Child] # "none" /\ proc[p] = "alive"
        /\ written' = [written EXCEPT ![s] = written[s] + 1]
        /\ UNCHANGED <<cmd, proc, exit, reader, waiter, pump, sinks, outside>>
    BY SomebodyLives DEF Write
  <1>2. written' \in [Streams -> Nat] /\ \A t \in Streams : written[t] <= written'[t]
    BY <1>1 DEF CommandInv, CommandType
  <1>3. ~NobodyWrites /\ Processes'
    BY <1>1 DEF CommandInv, NobodyWrites, Processes, NobodyLives
  <1> QED BY <1>1, <1>2, <1>3, ProcessesKeep DEF CommandInv, CommandType

LEMMA KeepClosePipes ==
  ASSUME CommandInv, NEW p \in Group, ClosePipes(p)
  PROVE  CommandInv'
  <1>1. /\ waiter \in {"waiting", "reaped"} /\ proc[Child] # "none" /\ Child \in Group
        /\ proc[p] = "alive" /\ proc' = [proc EXCEPT ![p] = "mute"]
        /\ UNCHANGED <<cmd, exit, written, reader, waiter, pump, sinks, outside>>
    BY SomebodyLives DEF ClosePipes
  <1>2. /\ proc' \in [Group -> {"none", "alive", "mute", "dead"}] /\ proc'[Child] # "none"
        /\ NobodyWrites => NobodyWrites'
        /\ proc[Child] = "dead" <=> proc'[Child] = "dead"
    BY <1>1 DEF CommandInv, CommandType, NobodyWrites
  <1>3. Processes'
    BY <1>1, <1>2 DEF CommandInv, Processes
  <1>4. \A s \in Streams : written[s] <= written'[s] /\ written'[s] = written[s]
    BY <1>1, StreamFields DEF CommandInv
  <1> QED BY <1>1, <1>2, <1>3, <1>4, ProcessesKeep DEF CommandInv, CommandType

LEMMA KeepExit ==
  ASSUME CommandInv, NEW p \in Group, NEW status \in {"ok", "error"}, Exit(p, status)
  PROVE  CommandInv'
  <1>1. /\ waiter \in {"waiting", "reaped"} /\ proc[Child] # "none" /\ Child \in Group
        /\ proc[p] \in {"alive", "mute"} /\ proc' = [proc EXCEPT ![p] = "dead"]
        /\ exit' = IF p = Child THEN status ELSE exit
        /\ UNCHANGED <<cmd, written, reader, waiter, pump, sinks, outside>>
    BY SomebodyLives DEF Exit
  <1>2. /\ proc' \in [Group -> {"none", "alive", "mute", "dead"}] /\ proc'[Child] # "none"
        /\ NobodyWrites => NobodyWrites'
        /\ proc[Child] = "dead" => proc'[Child] = "dead"
        /\ proc'[Child] = "dead" => proc[Child] = "dead" \/ p = Child
    BY <1>1 DEF CommandInv, CommandType, NobodyWrites
  <1>3. Processes'
    BY <1>1, <1>2, NullApart DEF CommandInv, Processes
  <1>4. \A s \in Streams : written[s] <= written'[s] /\ written'[s] = written[s]
    BY <1>1, StreamFields DEF CommandInv
  <1>5. exit' \in {Null, "ok", "error"}
    BY <1>1 DEF CommandInv, CommandType
  <1> QED BY <1>1, <1>2, <1>3, <1>4, <1>5, ProcessesKeep DEF CommandInv, CommandType

-----------------------------------------------------------------------------
(* Readers and pumps *)

\* A stream whose counts, queue and host are left alone.
LEMMA OutputKept ==
  ASSUME NEW s \in Streams, reader'[s].count = reader[s].count, host'[s] = host[s],
         pump'[s].queue = pump[s].queue, pump'[s].inflight = pump[s].inflight
  PROVE  Ordered(s)' = Ordered(s) /\ Complete(s)' = Complete(s)
  <1>1. Admitted(s)' = Admitted(s)
    BY DEF Admitted
  <1>2. Ordered(s)' = Ordered(s)
    BY DEF Ordered
  <1>3. Complete(s)' = Complete(s)
    BY <1>1 DEF Complete
  <1> QED BY <1>2, <1>3

\* A chunk read that nobody queues.
LEMMA OrderedLater ==
  ASSUME NEW s \in Streams, reader[s].count \in Nat, Ordered(s),
         reader'[s].count = reader[s].count + 1, host'[s] = host[s],
         pump'[s].queue = pump[s].queue, pump'[s].inflight = pump[s].inflight,
         \A n \in 1..Len(host[s]) : host[s][n] \in Nat,
         \A n \in 1..Len(pump[s].queue) : pump[s].queue[n] \in Nat,
         pump[s].inflight \in Nat \cup {Null}
  PROVE  Ordered(s)'
  BY DEF Ordered

\* What precedes an entry of a sequence grown by one was in the sequence already.
LEMMA IndexBelow ==
  ASSUME NEW k \in Nat, NEW m \in 1..(k + 1), NEW n \in 1..(m - 1)
  PROVE  n \in 1..k
  OBVIOUS

\* An index of a sequence grown by one is an old one or the last.
LEMMA IndexGrown ==
  ASSUME NEW k \in Nat, NEW n \in 1..(k + 1)
  PROVE  n \in 1..k \/ n = k + 1
  OBVIOUS

\* A chunk read and put behind the queue.
LEMMA OutputQueued ==
  ASSUME NEW s \in Streams, CommandType, Ordered(s),
         reader'[s].count = reader[s].count + 1, host'[s] = host[s],
         pump'[s].inflight = pump[s].inflight,
         pump'[s].queue = Append(pump[s].queue, reader[s].count + 1)
  PROVE  Ordered(s)' /\ (Complete(s) => Complete(s)')
  <1> DEFINE h == host[s]  q == pump[s].queue  w == pump[s].inflight
             count == reader[s].count  q2 == pump'[s].queue
  <1>1. /\ h \in Seq(Nat) /\ q \in Seq(Nat) /\ w \in Nat \cup {Null} /\ count \in Nat
        /\ Len(h) \in Nat /\ Len(q) \in Nat
    BY StreamFields
  <1>2. /\ \A n \in 1..Len(h) : h[n] \in Nat
        /\ \A n \in 1..Len(q) : q[n] \in Nat
    BY <1>1, ChunksAreNumbers
  <1>3. /\ Len(q2) = Len(q) + 1 /\ q2[Len(q) + 1] = count + 1
        /\ \A n \in 1..Len(q) : q2[n] = q[n]
    BY <1>1
  <1>4. /\ \A n \in 1..Len(h) :
             /\ h[n] <= count
             /\ w # Null => h[n] < w
             /\ \A m \in 1..Len(q) : h[n] < q[m]
        /\ w # Null => /\ w <= count
                       /\ \A m \in 1..Len(q) : w < q[m]
        /\ \A m \in 1..Len(q) :
             /\ q[m] <= count
             /\ \A n \in 1..(m - 1) : q[n] < q[m]
    BY DEF Ordered
  <1>5. Complete(s) =>
          /\ Len(h) + Admitted(s) + Len(q) = count
          /\ \A n \in 1..Len(h) : h[n] = n
          /\ w # Null => w = Len(h) + 1
          /\ \A m \in 1..Len(q) : q[m] = Len(h) + Admitted(s) + m
    BY DEF Complete
  <1>6. Admitted(s)' = Admitted(s) /\ Admitted(s) \in Nat
    BY DEF Admitted
  <1> HIDE DEF h, q, w, count, q2
  <1>7. ASSUME NEW m \in 1..Len(q2)
        PROVE  m \in 1..Len(q) \/ m = Len(q) + 1
    BY <1>1, <1>3
  <1>8. Ordered(s)'
    <2>1. ASSUME NEW n \in 1..Len(h)
          PROVE  /\ h[n] <= count + 1
                 /\ w # Null => h[n] < w
                 /\ \A m \in 1..Len(q2) : h[n] < q2[m]
      <3>1. h[n] \in Nat /\ h[n] <= count /\ h[n] <= count + 1
        BY <1>1, <1>2, <1>4
      <3>2. ASSUME NEW m \in 1..Len(q2) PROVE h[n] < q2[m]
        <4>1. CASE m \in 1..Len(q)
          <5>1. q2[m] = q[m] /\ h[n] < q[m]
            BY <1>3, <1>4, <4>1
          <5> QED BY <5>1
        <4>2. CASE m = Len(q) + 1
          <5>1. q2[m] = count + 1
            BY <1>3, <4>2
          <5> QED BY <1>1, <3>1, <5>1
        <4> QED BY <1>7, <4>1, <4>2
      <3> QED BY <1>4, <3>1, <3>2
    <2>2. ASSUME w # Null
          PROVE  /\ w <= count + 1
                 /\ \A m \in 1..Len(q2) : w < q2[m]
      <3>1. w \in Nat /\ w <= count /\ w <= count + 1
        BY <1>1, <1>4, <2>2
      <3>2. ASSUME NEW m \in 1..Len(q2) PROVE w < q2[m]
        <4>1. CASE m \in 1..Len(q)
          <5>1. q2[m] = q[m] /\ w < q[m]
            BY <1>3, <1>4, <2>2, <4>1
          <5> QED BY <5>1
        <4>2. CASE m = Len(q) + 1
          <5>1. q2[m] = count + 1
            BY <1>3, <4>2
          <5> QED BY <1>1, <3>1, <5>1
        <4> QED BY <1>7, <4>1, <4>2
      <3> QED BY <3>1, <3>2
    <2>3. ASSUME NEW m \in 1..Len(q2)
          PROVE  /\ q2[m] <= count + 1
                 /\ \A n \in 1..(m - 1) : q2[n] < q2[m]
      <3>1. ASSUME NEW n \in 1..(m - 1)
            PROVE  n \in 1..Len(q) /\ q2[n] = q[n] /\ q[n] \in Nat /\ q[n] <= count
        <4>1. m \in 1..(Len(q) + 1)
          BY <1>3, <2>3
        <4>2. n \in 1..Len(q)
          BY <1>1, <3>1, <4>1, IndexBelow
        <4> QED BY <1>2, <1>3, <1>4, <4>2
      <3>2. CASE m \in 1..Len(q)
        <4>1. q2[m] = q[m] /\ q[m] \in Nat /\ q[m] <= count
          BY <1>2, <1>3, <1>4, <3>2
        <4>2. \A n \in 1..(m - 1) : q[n] < q[m]
          BY <1>4, <3>2
        <4>3. q2[m] <= count + 1
          BY <1>1, <4>1
        <4>4. \A n \in 1..(m - 1) : q2[n] < q2[m]
          BY <3>1, <4>1, <4>2
        <4> QED BY <4>3, <4>4
      <3>3. CASE m = Len(q) + 1
        <4>1. q2[m] = count + 1
          BY <1>3, <3>3
        <4>2. \A n \in 1..(m - 1) : q2[n] < q2[m]
          BY <1>1, <3>1, <4>1
        <4>3. q2[m] <= count + 1
          BY <1>1, <4>1
        <4> QED BY <4>2, <4>3
      <3> QED BY <1>7, <3>2, <3>3
    <2> QED BY <2>1, <2>2, <2>3 DEF Ordered, h, w, count, q2
  <1>9. ASSUME Complete(s) PROVE Complete(s)'
    <2>1. ASSUME NEW m \in 1..Len(q2)
          PROVE  q2[m] = Len(h) + Admitted(s) + m
      <3>1. CASE m \in 1..Len(q)
        BY <1>3, <1>5, <1>9, <3>1
      <3>2. CASE m = Len(q) + 1
        <4>1. Len(h) + Admitted(s) + Len(q) = count /\ q2[m] = count + 1
          BY <1>3, <1>5, <1>9, <3>2
        <4>2. Len(h) \in Int /\ Len(q) \in Int /\ count \in Int /\ Admitted(s) \in Int
          BY <1>1, <1>6
        <4> QED BY <3>2, <4>1, <4>2
      <3> QED BY <1>7, <3>1, <3>2
    <2>2. Len(h) + Admitted(s) + Len(q2) = count + 1
      <3>1. Len(h) + Admitted(s) + Len(q) = count /\ Len(q2) = Len(q) + 1
        BY <1>3, <1>5, <1>9
      <3>2. Len(h) \in Int /\ Len(q) \in Int /\ count \in Int /\ Admitted(s) \in Int
        BY <1>1, <1>6
      <3> QED BY <3>1, <3>2
    <2> QED BY <1>5, <1>6, <1>9, <2>1, <2>2 DEF Complete, h, w, count, q2
  <1> QED BY <1>8, <1>9

\* A step of one stream.
LEMMA StreamKeeps ==
  ASSUME CommandInv, NEW s \in Streams, waiter # "none", s \in cmd.streams \/ reader' = reader,
         UNCHANGED <<cmd, child, waiter, outside>>,
         \A t \in Streams \ {s} : /\ reader'[t] = reader[t] /\ pump'[t] = pump[t]
                                  /\ host'[t] = host[t],
         reader' \in [Streams -> Readers], pump' \in [Streams -> Pumps],
         host' \in [Streams -> Seq(Nat)], refused \subseteq refused', refused' \subseteq refused \cup {s},
         reader'[s].count <= written[s], reader'[s].count <= Limit[s],
         reader'[s].pc = "reading" => reader'[s].err = Null,
         reader'[s].err = "limit" => written[s] > Limit[s],
         reader[s].err = "limit" => reader'[s].err = "limit",
         reader'[s].pc = "done" /\ reader'[s].err = Null
           => reader'[s].count = written[s] /\ NobodyWrites,
         pump[s].done => pump'[s].done,
         Ordered(s)',
         s \in Piped =>
           /\ pump'[s].finished => reader'[s].pc = "done"
           /\ pump'[s].aborted = pump[s].aborted
           /\ pump'[s].done /\ ~pump'[s].aborted
                => pump'[s].finished /\ pump'[s].queue = <<>> /\ pump'[s].inflight = Null
           /\ ~pump'[s].aborted /\ s \notin refused' => Complete(s)'
  PROVE  CommandInv'
  <1>1. CommandType'
    BY DEF CommandInv, CommandType, child, outside
  <1>2. Unstarted' /\ Started' /\ Processes' /\ Returned' /\ Piped' = Piped
    <2>1. Verdict(cmd.cancelled)' = Verdict(cmd.cancelled)
      BY Zenon DEF Verdict, child
    <2> QED BY <2>1 DEF CommandInv, Unstarted, Started, Processes, Returned, NobodyLives, Whole,
                        Piped, child
  <1>3. ReadersTell'
    <2> SUFFICES ASSUME NEW t \in Streams
                 PROVE  /\ reader'[t].count <= written[t] /\ reader'[t].count <= Limit[t]
                        /\ reader'[t].pc = "reading" => reader'[t].err = Null
                        /\ reader'[t].err = "limit" => written[t] > Limit[t]
                        /\ reader'[t].pc = "done" /\ reader'[t].err = Null
                             => reader'[t].count = written[t] /\ NobodyWrites
      BY DEF ReadersTell, NobodyWrites, child
    <2>1. CASE t = s
      BY <2>1
    <2>2. CASE t # s
      BY <2>2 DEF CommandInv, ReadersTell
    <2> QED BY <2>1, <2>2
  <1>4. OutputInv'
    <2> SUFFICES ASSUME NEW t \in Streams PROVE Ordered(t)'
      BY DEF OutputInv
    <2>1. CASE t = s
      BY <2>1
    <2>2. CASE t # s
      BY <2>2 DEF CommandInv, OutputInv, Ordered
    <2> QED BY <2>1, <2>2
  <1>5. PumpsTell'
    <2> SUFFICES ASSUME NEW t \in Piped
                 PROVE  /\ pump'[t].finished => reader'[t].pc = "done"
                        /\ pump'[t].aborted <=> cmd.failure # Null \/ cmd.cancelled
                        /\ pump'[t].done /\ ~pump'[t].aborted
                             => pump'[t].finished /\ pump'[t].queue = <<>> /\ pump'[t].inflight = Null
                        /\ ~pump'[t].aborted /\ t \notin refused' => Complete(t)'
      BY <1>2 DEF PumpsTell
    <2>1. t \in Streams
      BY OptsFields DEF CommandInv, Started
    <2>2. /\ pump[t].finished => reader[t].pc = "done"
          /\ pump[t].aborted <=> cmd.failure # Null \/ cmd.cancelled
          /\ pump[t].done /\ ~pump[t].aborted
               => pump[t].finished /\ pump[t].queue = <<>> /\ pump[t].inflight = Null
          /\ ~pump[t].aborted /\ t \notin refused => Complete(t)
      BY DEF CommandInv, PumpsTell
    <2>3. CASE t = s
      <3>1. s \in Piped
        BY <2>3
      <3> QED BY <2>2, <2>3, <3>1
    <2>4. CASE t # s
      <3>1. pump'[t] = pump[t] /\ reader'[t] = reader[t] /\ host'[t] = host[t]
        BY <2>1, <2>4
      <3>2. Complete(t)' = Complete(t)
        BY <2>1, <3>1, OutputKept
      <3> QED BY <2>2, <3>1, <3>2
    <2> QED BY <2>3, <2>4
  <1>6. Gathered'
    <2>1. ASSUME NEW t \in Streams \ cmd.streams
          PROVE  reader'[t] = reader[t]
      BY <2>1
    <2>2. \A t \in Streams : pump[t].done => pump'[t].done
      OBVIOUS
    <2>3. \A t \in Streams : reader[t].err = "limit" => reader'[t].err = "limit"
      OBVIOUS
    <2>4. Piped \subseteq Streams
      BY OptsFields DEF CommandInv, Started
    <2>5. \A t \in Piped \ cmd.pumps : pump'[t].done
      BY <2>2, <2>4 DEF CommandInv, Gathered
    <2>6. /\ \A t \in Streams \ cmd.streams :
               /\ reader[t].pc = "done"
               /\ cmd.failure = Null /\ ~cmd.cancelled => reader[t].err = Null
               /\ t = "out" /\ reader[t].err = Null => cmd.captured = reader[t].count
          /\ ~cmd.wait => waiter = "posted"
          /\ cmd.failure = "limit" => \E t \in Streams : reader[t].err = "limit"
          /\ cmd.failure = "timeout" => late
          /\ cmd.cancelled => parent
          /\ cmd.lateStart => cmd.failure # Null
      BY DEF CommandInv, Gathered
    <2>7. cmd.failure = "limit" => \E t \in Streams : reader'[t].err = "limit"
      BY <2>3, <2>6
    <2>8. \A t \in Streams \ cmd.streams :
             /\ reader'[t].pc = "done"
             /\ cmd.failure = Null /\ ~cmd.cancelled => reader'[t].err = Null
             /\ t = "out" /\ reader'[t].err = Null => cmd.captured = reader'[t].count
      BY <2>1, <2>6
    <2>9. UNCHANGED <<cmd, late, parent, waiter>>
      BY DEF outside
    <2> QED BY <1>2, <2>5, <2>6, <2>7, <2>8, <2>9 DEF Gathered
  <1> QED BY <1>1, <1>2, <1>3, <1>4, <1>5, <1>6 DEF CommandInv

\* A stream that is read has not been gathered, and its pump is not finished.
LEMMA WhileReading ==
  ASSUME CommandInv, NEW s \in Streams, Reading(s)
  PROVE  /\ waiter # "none" /\ s \in cmd.streams /\ reader[s].pc = "reading" /\ reader[s].err = Null
         /\ Piped \subseteq Streams
         /\ s \in Piped => /\ ~pump[s].finished
                           /\ pump[s].done => pump[s].aborted
                           /\ ~pump[s].aborted /\ s \notin refused => Complete(s)
  <1>1. waiter # "none" /\ Piped \subseteq Streams
    BY PumpedStreams DEF Reading
  <1>2. reader[s].pc = "reading" /\ reader[s].err = Null
    BY DEF Reading, CommandInv, ReadersTell
  <1> QED BY <1>1, <1>2 DEF CommandInv, Gathered, PumpsTell

LEMMA KeepEndReader ==
  ASSUME CommandInv, NEW s \in Streams, NEW err \in {Null, "limit", "read"},
         Reading(s), EndReader(s, err), UNCHANGED <<cmd, child, waiter, sinks, outside>>,
         err = "limit" => written[s] > Limit[s],
         err = Null => reader[s].count = written[s] /\ NobodyWrites
  PROVE  CommandInv'
  <1>1. /\ waiter # "none" /\ s \in cmd.streams /\ reader[s].err = Null /\ Piped \subseteq Streams
        /\ s \in Piped => /\ pump[s].done => pump[s].aborted
                          /\ ~pump[s].aborted /\ s \notin refused => Complete(s)
    BY WhileReading
  <1>2. /\ reader \in [Streams -> Readers] /\ pump \in [Streams -> Pumps] /\ Ordered(s)
        /\ host \in [Streams -> Seq(Nat)]
        /\ reader[s].count <= written[s] /\ reader[s].count <= Limit[s]
    BY DEF CommandInv, CommandType, OutputInv, ReadersTell
  <1>3. /\ reader' \in [Streams -> Readers]
        /\ reader'[s].pc = "done" /\ reader'[s].err = err /\ reader'[s].count = reader[s].count
        /\ \A t \in Streams \ {s} : reader'[t] = reader[t]
    <2>1. reader' = [reader EXCEPT ![s] = [reader[s] EXCEPT !.pc = "done", !.err = err]]
      BY <1>2 DEF EndReader
    <2>2. [reader[s] EXCEPT !.pc = "done", !.err = err] \in Readers
      BY <1>2 DEF Readers
    <2> QED BY <1>2, <2>1, <2>2 DEF Readers
  <1>4. /\ pump' \in [Streams -> Pumps]
        /\ pump'[s].queue = pump[s].queue /\ pump'[s].inflight = pump[s].inflight
        /\ pump'[s].aborted = pump[s].aborted /\ pump'[s].done = pump[s].done
        /\ \A t \in Streams \ {s} : pump'[t] = pump[t]
    <2>1. CASE s \in Piped
      <3>1. pump' = [pump EXCEPT ![s] = [pump[s] EXCEPT !.finished = TRUE]]
        BY <1>2, <2>1 DEF EndReader
      <3>2. [pump[s] EXCEPT !.finished = TRUE] \in Pumps
        BY <1>2 DEF Pumps
      <3> QED BY <1>2, <3>1, <3>2 DEF Pumps
    <2>2. CASE s \notin Piped
      BY <1>2, <2>2 DEF EndReader
    <2> QED BY <2>1, <2>2
  <1>5. Ordered(s)' /\ Complete(s)' = Complete(s)
    BY <1>2, <1>3, <1>4, OutputKept DEF sinks
  <1>6. host' = host /\ refused' = refused
    BY DEF sinks
  <1>7. s \in Piped =>
          /\ pump'[s].done /\ ~pump'[s].aborted
               => pump'[s].finished /\ pump'[s].queue = <<>> /\ pump'[s].inflight = Null
          /\ ~pump'[s].aborted /\ s \notin refused' => Complete(s)'
    BY <1>1, <1>4, <1>5, <1>6
  <1>8. err = "limit" => written[s] > Limit[s]
    OBVIOUS
  <1> QED BY <1>1, <1>2, <1>3, <1>4, <1>5, <1>6, <1>7, NullApart, StreamKeeps, ZenonT(60)

LEMMA KeepReadEOF ==
  ASSUME CommandInv, NEW s \in Streams, ReadEOF(s)
  PROVE  CommandInv'
  BY KeepEndReader, NullApart DEF ReadEOF, NobodyWrites

LEMMA KeepReadFails ==
  ASSUME CommandInv, NEW s \in Streams, ReadFails(s)
  PROVE  CommandInv'
  BY KeepEndReader, NullApart DEF ReadFails

\* What a queue holds behind a chunk that is put into it.
LEMMA EnqueueFields ==
  ASSUME NEW p \in Pumps, NEW chunk \in Nat
  PROVE  /\ Enqueue(p, chunk) \in Pumps
         /\ Enqueue(p, chunk).finished = p.finished /\ Enqueue(p, chunk).aborted = p.aborted
         /\ Enqueue(p, chunk).inflight = p.inflight /\ Enqueue(p, chunk).done = p.done
         /\ Enqueue(p, chunk).queue =
              IF p.aborted \/ p.finished THEN p.queue ELSE Append(p.queue, chunk)
  <1>1. CASE p.aborted \/ p.finished
    BY <1>1 DEF Enqueue
  <1>2. CASE ~(p.aborted \/ p.finished)
    <2>1. Append(p.queue, chunk) \in Seq(Nat)
      BY DEF Pumps
    <2> QED BY <1>2, <2>1 DEF Enqueue, Pumps
  <1> QED BY <1>1, <1>2

LEMMA KeepReadChunk ==
  ASSUME CommandInv, NEW s \in Streams, ReadChunk(s)
  PROVE  CommandInv'
  <1> DEFINE chunk == reader[s].count + 1
  <1>1. /\ Reading(s) /\ reader[s].count < written[s]
        /\ UNCHANGED <<cmd, child, waiter, sinks, outside>>
    BY DEF ReadChunk
  <1>2. /\ reader[s].count \in Nat /\ written[s] \in Nat /\ Limit[s] \in Nat
        /\ pump[s] \in Pumps /\ chunk \in Nat
    BY StreamFields DEF CommandInv
  <1>3. CASE OverLimit(s, chunk)
    <2>1. EndReader(s, "limit") /\ written[s] > Limit[s]
      BY <1>1, <1>2, <1>3 DEF ReadChunk, OverLimit
    <2> QED BY <1>1, <2>1, KeepEndReader, NullApart
  <1>4. CASE ~OverLimit(s, chunk)
    <2>1. /\ waiter # "none" /\ s \in cmd.streams /\ reader[s].err = Null /\ Piped \subseteq Streams
          /\ reader[s].pc = "reading"
          /\ s \in Piped => /\ ~pump[s].finished
                            /\ pump[s].done => pump[s].aborted
                            /\ ~pump[s].aborted /\ s \notin refused => Complete(s)
      BY <1>1, WhileReading
    <2>2. /\ reader \in [Streams -> Readers] /\ pump \in [Streams -> Pumps] /\ Ordered(s)
          /\ host \in [Streams -> Seq(Nat)]
      BY DEF CommandInv, CommandType, OutputInv
    <2>3. /\ reader' = [reader EXCEPT ![s].count = chunk]
          /\ pump' = IF s \in Piped THEN [pump EXCEPT ![s] = Enqueue(pump[s], chunk)] ELSE pump
      BY <1>4, <2>2 DEF ReadChunk
    <2>4. /\ reader' \in [Streams -> Readers] /\ reader'[s].count = chunk
          /\ reader'[s].pc = "reading" /\ reader'[s].err = Null
          /\ \A t \in Streams \ {s} : reader'[t] = reader[t]
      <3>1. reader' = [reader EXCEPT ![s] = [reader[s] EXCEPT !.count = chunk]]
        BY <2>2, <2>3
      <3>2. [reader[s] EXCEPT !.count = chunk] \in Readers
        BY <1>2, <2>2 DEF Readers
      <3> QED BY <1>2, <2>1, <2>2, <3>1, <3>2 DEF Readers
    <2>5. /\ pump' \in [Streams -> Pumps]
          /\ pump'[s].finished = pump[s].finished /\ pump'[s].aborted = pump[s].aborted
          /\ pump'[s].inflight = pump[s].inflight /\ pump'[s].done = pump[s].done
          /\ IF s \in Piped /\ ~pump[s].aborted
             THEN pump'[s].queue = Append(pump[s].queue, chunk)
             ELSE pump'[s].queue = pump[s].queue
          /\ \A t \in Streams \ {s} : pump'[t] = pump[t]
      <3> HIDE DEF chunk
      <3>1. CASE s \in Piped
        <4>1. /\ Enqueue(pump[s], chunk) \in Pumps
              /\ Enqueue(pump[s], chunk).finished = pump[s].finished
              /\ Enqueue(pump[s], chunk).aborted = pump[s].aborted
              /\ Enqueue(pump[s], chunk).inflight = pump[s].inflight
              /\ Enqueue(pump[s], chunk).done = pump[s].done
              /\ Enqueue(pump[s], chunk).queue =
                   IF pump[s].aborted \/ pump[s].finished THEN pump[s].queue
                   ELSE Append(pump[s].queue, chunk)
          BY <1>2, EnqueueFields
        <4>2. pump' = [pump EXCEPT ![s] = Enqueue(pump[s], chunk)] /\ ~pump[s].finished
          BY <2>1, <2>3, <3>1
        <4>3. pump'[s] = Enqueue(pump[s], chunk)
              /\ \A t \in Streams \ {s} : pump'[t] = pump[t]
          BY <2>2, <4>2
        <4>4. pump' \in [Streams -> Pumps]
          BY <2>2, <4>1, <4>2
        <4> QED BY <3>1, <4>1, <4>2, <4>3, <4>4
      <3>2. CASE s \notin Piped
        BY <2>2, <2>3, <3>2
      <3> QED BY <3>1, <3>2
    <2>6. host' = host /\ refused' = refused /\ CommandType
      BY <1>1 DEF sinks, CommandInv
    <2>7. ASSUME s \in Piped, ~pump[s].aborted
          PROVE  Ordered(s)' /\ (Complete(s) => Complete(s)')
      BY <2>2, <2>4, <2>5, <2>6, <2>7, OutputQueued
    <2>8. ASSUME ~(s \in Piped /\ ~pump[s].aborted)
          PROVE  Ordered(s)'
      <3>1. pump'[s].queue = pump[s].queue /\ pump'[s].inflight = pump[s].inflight
        BY <2>5, <2>8
      <3>2. \A n \in 1..Len(host[s]) : host[s][n] \in Nat
        BY <2>2
      <3>3. \A n \in 1..Len(pump[s].queue) : pump[s].queue[n] \in Nat
        <4>1. pump[s].queue \in Seq(Nat)
          BY <2>6, StreamFields
        <4> QED BY <4>1, ChunksAreNumbers
      <3>4. pump[s].inflight \in Nat \cup {Null}
        BY <2>6, StreamFields
      <3> QED BY <1>2, <2>2, <2>4, <2>6, <3>1, <3>2, <3>3, <3>4, OrderedLater
    <2>9. chunk <= written[s] /\ chunk <= Limit[s]
      BY <1>1, <1>2, <1>4 DEF OverLimit
    <2> HIDE DEF chunk
    <2>10. s \in Piped =>
             /\ pump'[s].done /\ ~pump'[s].aborted
                  => pump'[s].finished /\ pump'[s].queue = <<>> /\ pump'[s].inflight = Null
             /\ ~pump'[s].aborted /\ s \notin refused' => Complete(s)'
      BY <2>1, <2>5, <2>6, <2>7
    <2>11. Ordered(s)'
      BY <2>7, <2>8
    <2> QED BY <1>1, <2>1, <2>2, <2>4, <2>5, <2>6, <2>9, <2>10, <2>11, NullApart, StreamKeeps, ZenonT(60)
  <1> QED BY <1>3, <1>4

\* The first chunk of the queue is admitted.
LEMMA OutputAdmitted ==
  ASSUME NEW s \in Streams, CommandType, Ordered(s), pump[s].inflight = Null,
         pump[s].queue # <<>>, reader'[s].count = reader[s].count, host'[s] = host[s],
         pump'[s].inflight = Head(pump[s].queue), pump'[s].queue = Tail(pump[s].queue)
  PROVE  Ordered(s)' /\ (Complete(s) => Complete(s)')
  <1> DEFINE h == host[s]  q == pump[s].queue  w2 == pump'[s].inflight
             count == reader[s].count  q2 == pump'[s].queue
  <1>1. /\ h \in Seq(Nat) /\ q \in Seq(Nat) /\ count \in Nat
        /\ Len(h) \in Nat /\ Len(q) \in Nat
    BY StreamFields
  <1>2. /\ \A n \in 1..Len(h) : h[n] \in Nat
        /\ \A n \in 1..Len(q) : q[n] \in Nat
    BY <1>1, ChunksAreNumbers
  <1>3. /\ Len(q) > 0 /\ w2 = q[1] /\ Len(q2) = Len(q) - 1
        /\ \A n \in 1..Len(q2) : q2[n] = q[n + 1]
    BY <1>1
  <1>4. /\ \A n \in 1..Len(h) : /\ h[n] <= count
                                /\ \A m \in 1..Len(q) : h[n] < q[m]
        /\ \A m \in 1..Len(q) : /\ q[m] <= count
                                /\ \A n \in 1..(m - 1) : q[n] < q[m]
    BY DEF Ordered
  <1>5. Complete(s) =>
          /\ Len(h) + Len(q) = count
          /\ \A n \in 1..Len(h) : h[n] = n
          /\ \A m \in 1..Len(q) : q[m] = Len(h) + m
    <2> SUFFICES ASSUME Complete(s)
                 PROVE  /\ Len(h) + Len(q) = count
                        /\ \A n \in 1..Len(h) : h[n] = n
                        /\ \A m \in 1..Len(q) : q[m] = Len(h) + m
      OBVIOUS
    <2>1. /\ Len(h) + 0 + Len(q) = count
          /\ \A n \in 1..Len(h) : h[n] = n
          /\ \A m \in 1..Len(q) : q[m] = Len(h) + 0 + m
      BY DEF Complete, Admitted
    <2> HIDE DEF h, q, count
    <2>2. Len(h) + 0 = Len(h)
      BY <1>1
    <2> QED BY <2>1, <2>2
  <1>6. w2 # Null /\ Admitted(s)' = 1
    BY <1>1, <1>2, <1>3, CommandAssumption DEF Admitted
  <1> HIDE DEF h, q, w2, count, q2
  <1>7. ASSUME NEW m \in 1..Len(q2)
        PROVE  m + 1 \in 1..Len(q) /\ q2[m] = q[m + 1] /\ m \in Int
    BY <1>1, <1>3
  <1>8. 1 \in 1..Len(q)
    BY <1>1, <1>3
  <1>9. Ordered(s)'
    <2>1. \A n \in 1..Len(h) : /\ h[n] <= count /\ h[n] < w2
                               /\ \A m \in 1..Len(q2) : h[n] < q2[m]
      BY <1>3, <1>4, <1>7, <1>8
    <2>2. w2 <= count
      BY <1>3, <1>4, <1>8
    <2>3. ASSUME NEW m \in 1..Len(q2)
          PROVE  w2 < q2[m] /\ q2[m] <= count /\ \A n \in 1..(m - 1) : q2[n] < q2[m]
      <3>1. q2[m] <= count
        BY <1>4, <1>7
      <3>2. w2 < q2[m]
        <4>1. 1 \in 1..((m + 1) - 1)
          BY <1>1, <1>3
        <4> QED BY <1>3, <1>4, <1>7, <4>1
      <3>3. ASSUME NEW n \in 1..(m - 1) PROVE q2[n] < q2[m]
        <4>1. n \in 1..Len(q2) /\ n + 1 \in 1..((m + 1) - 1)
          BY <1>1, <1>3
        <4>2. q2[n] = q[n + 1] /\ q2[m] = q[m + 1]
          BY <1>7, <4>1
        <4> QED BY <1>4, <1>7, <4>1, <4>2
      <3> QED BY <3>1, <3>2, <3>3
    <2> QED BY <1>6, <2>1, <2>2, <2>3 DEF Ordered, h, w2, count, q2
  <1>10. ASSUME Complete(s) PROVE Complete(s)'
    <2>1. \A m \in 1..Len(q2) : q2[m] = Len(h) + 1 + m
      BY <1>1, <1>5, <1>7, <1>10
    <2>2. Len(h) + 1 + Len(q2) = count /\ w2 = Len(h) + 1
      <3>1. Len(h) + Len(q) = count /\ q[1] = Len(h) + 1
        BY <1>5, <1>8, <1>10
      <3>2. Len(q2) = Len(q) - 1 /\ w2 = q[1]
        BY <1>3
      <3>3. Len(h) + 1 + Len(q2) = count
        <4>1. Len(h) \in Int /\ Len(q) \in Int
          BY <1>1
        <4> QED BY <3>1, <3>2, <4>1
      <3> QED BY <3>1, <3>2, <3>3
    <2> QED BY <1>5, <1>6, <1>10, <2>1, <2>2 DEF Complete, h, w2, count, q2
  <1> QED BY <1>9, <1>10

\* The host takes the chunk admitted.
LEMMA OutputTaken ==
  ASSUME NEW s \in Streams, CommandType, Ordered(s), pump[s].inflight # Null,
         reader'[s].count = reader[s].count, host'[s] = Append(host[s], pump[s].inflight),
         pump'[s].inflight = Null, pump'[s].queue = pump[s].queue
  PROVE  Ordered(s)' /\ (Complete(s) => Complete(s)')
  <1> DEFINE h == host[s]  q == pump[s].queue  w == pump[s].inflight
             count == reader[s].count  h2 == host'[s]
  <1>1. /\ h \in Seq(Nat) /\ q \in Seq(Nat) /\ count \in Nat /\ w \in Nat
        /\ Len(h) \in Nat /\ Len(q) \in Nat
    BY StreamFields
  <1>2. /\ Len(h2) = Len(h) + 1 /\ h2[Len(h) + 1] = w
        /\ \A n \in 1..Len(h) : h2[n] = h[n]
    BY <1>1
  <1>3. /\ \A n \in 1..Len(h) : /\ h[n] <= count
                                /\ \A m \in 1..Len(q) : h[n] < q[m]
        /\ w <= count /\ \A m \in 1..Len(q) : w < q[m]
        /\ \A m \in 1..Len(q) : /\ q[m] <= count
                                /\ \A n \in 1..(m - 1) : q[n] < q[m]
    BY DEF Ordered
  <1>4. Complete(s) =>
          /\ Len(h) + 1 + Len(q) = count
          /\ \A n \in 1..Len(h) : h[n] = n
          /\ w = Len(h) + 1
          /\ \A m \in 1..Len(q) : q[m] = Len(h) + 1 + m
    BY DEF Complete, Admitted
  <1>5. Admitted(s)' = 0
    BY DEF Admitted
  <1> HIDE DEF h, q, w, count, h2
  <1>6. ASSUME NEW n \in 1..Len(h2)
        PROVE  (n \in 1..Len(h) /\ h2[n] = h[n]) \/ (n = Len(h) + 1 /\ h2[n] = w)
    <2>1. n \in 1..(Len(h) + 1)
      BY <1>2, <1>6
    <2>2. n \in 1..Len(h) \/ n = Len(h) + 1
      BY <1>1, <2>1, IndexGrown
    <2> QED BY <1>2, <2>2
  <1>7. Ordered(s)'
    <2>1. ASSUME NEW n \in 1..Len(h2)
          PROVE  h2[n] <= count /\ \A m \in 1..Len(q) : h2[n] < q[m]
      BY <1>3, <1>6
    <2> QED BY <1>3, <2>1 DEF Ordered, h, q, count, h2
  <1>8. ASSUME Complete(s) PROVE Complete(s)'
    <2>1. \A n \in 1..Len(h2) : h2[n] = n
      BY <1>4, <1>6, <1>8
    <2>2. Len(h2) + 0 + Len(q) = count /\ \A m \in 1..Len(q) : q[m] = Len(h2) + 0 + m
      BY <1>1, <1>2, <1>4, <1>8
    <2> QED BY <1>5, <2>1, <2>2 DEF Complete, q, count, h2
  <1> QED BY <1>7, <1>8

LEMMA KeepNextWrite ==
  ASSUME CommandInv, NEW s \in Streams, NextWrite(s)
  PROVE  CommandInv'
  <1>1. /\ waiter # "none" /\ s \in Piped /\ pump[s].inflight = Null /\ ~pump[s].done
        /\ UNCHANGED <<cmd, child, reader, waiter, sinks, outside>>
        /\ reader' = reader /\ host' = host /\ refused' = refused
    BY DEF NextWrite, sinks
  <1>2. /\ CommandType /\ reader \in [Streams -> Readers] /\ pump \in [Streams -> Pumps]
        /\ host \in [Streams -> Seq(Nat)] /\ refused \subseteq Streams /\ Ordered(s)
    BY DEF CommandInv, CommandType, OutputInv
  <1>3. /\ reader[s].count <= written[s] /\ reader[s].count <= Limit[s]
        /\ reader[s].pc = "reading" => reader[s].err = Null
        /\ reader[s].err = "limit" => written[s] > Limit[s]
        /\ reader[s].pc = "done" /\ reader[s].err = Null
             => reader[s].count = written[s] /\ NobodyWrites
    BY DEF CommandInv, ReadersTell
  <1>4. /\ pump[s].finished => reader[s].pc = "done"
        /\ ~pump[s].aborted /\ s \notin refused => Complete(s)
    BY <1>1 DEF CommandInv, PumpsTell
  <1>5. ASSUME pump[s].aborted \/ (pump[s].finished /\ pump[s].queue = <<>>),
               pump' = [pump EXCEPT ![s].done = TRUE]
        PROVE  CommandInv'
    <2>1. /\ pump' \in [Streams -> Pumps]
          /\ pump'[s].queue = pump[s].queue /\ pump'[s].inflight = pump[s].inflight
          /\ pump'[s].aborted = pump[s].aborted /\ pump'[s].finished = pump[s].finished
          /\ \A t \in Streams \ {s} : pump'[t] = pump[t]
          /\ pump[s].done => pump'[s].done
      <3>1. pump' = [pump EXCEPT ![s] = [pump[s] EXCEPT !.done = TRUE]]
        BY <1>2, <1>5
      <3>2. [pump[s] EXCEPT !.done = TRUE] \in Pumps
        BY <1>2 DEF Pumps
      <3> QED BY <1>1, <1>2, <3>1, <3>2 DEF Pumps
    <2>2. Ordered(s)' /\ Complete(s)' = Complete(s)
      BY <1>1, <1>2, <2>1, OutputKept
    <2>3. pump'[s].done /\ ~pump'[s].aborted
            => pump'[s].finished /\ pump'[s].queue = <<>> /\ pump'[s].inflight = Null
      BY <1>1, <1>5, <2>1
    <2> QED BY <1>1, <1>2, <1>3, <1>4, <2>1, <2>2, <2>3, StreamKeeps, ZenonT(60)
  <1>6. ASSUME ~pump[s].aborted, pump[s].queue # <<>>,
               pump' = [pump EXCEPT ![s].inflight = Head(pump[s].queue),
                                    ![s].queue = Tail(pump[s].queue)]
        PROVE  CommandInv'
    <2>1. /\ pump' \in [Streams -> Pumps]
          /\ pump'[s].queue = Tail(pump[s].queue) /\ pump'[s].inflight = Head(pump[s].queue)
          /\ pump'[s].aborted = pump[s].aborted /\ pump'[s].finished = pump[s].finished
          /\ \A t \in Streams \ {s} : pump'[t] = pump[t]
          /\ pump'[s].done = pump[s].done
      <3> DEFINE new == [pump[s] EXCEPT !.inflight = Head(pump[s].queue),
                                        !.queue = Tail(pump[s].queue)]
      <3>1. pump' = [pump EXCEPT ![s] = new]
        BY <1>2, <1>6
      <3>2. Head(pump[s].queue) \in Nat /\ Tail(pump[s].queue) \in Seq(Nat)
        <4>1. pump[s].queue \in Seq(Nat)
          BY <1>2, StreamFields
        <4> QED BY <1>6, <4>1
      <3>3. new \in Pumps
        BY <1>2, <3>2, Zenon DEF Pumps
      <3>4. /\ new.queue = Tail(pump[s].queue) /\ new.inflight = Head(pump[s].queue)
            /\ new.aborted = pump[s].aborted /\ new.finished = pump[s].finished
            /\ new.done = pump[s].done
        BY <1>2 DEF Pumps
      <3> HIDE DEF new
      <3> QED BY <1>2, <3>1, <3>3, <3>4
    <2>2. Ordered(s)' /\ (Complete(s) => Complete(s)')
      BY <1>1, <1>2, <1>6, <2>1, OutputAdmitted
    <2> QED BY <1>1, <1>2, <1>3, <1>4, <2>1, <2>2, StreamKeeps, ZenonT(60)
  <1> QED BY <1>5, <1>6 DEF NextWrite

LEMMA KeepHostWrite ==
  ASSUME CommandInv, NEW s \in Streams, HostWrite(s)
  PROVE  CommandInv'
  <1>1. /\ pump[s].inflight # Null /\ reader' = reader
        /\ UNCHANGED <<cmd, child, reader, waiter, outside>>
        /\ pump' = [pump EXCEPT ![s].inflight = Null]
    BY DEF HostWrite
  <1>2. /\ CommandType /\ reader \in [Streams -> Readers] /\ pump \in [Streams -> Pumps]
        /\ host \in [Streams -> Seq(Nat)] /\ refused \subseteq Streams /\ Ordered(s)
    BY DEF CommandInv, CommandType, OutputInv
  <1>3. /\ reader[s].count <= written[s] /\ reader[s].count <= Limit[s]
        /\ reader[s].pc = "reading" => reader[s].err = Null
        /\ reader[s].err = "limit" => written[s] > Limit[s]
        /\ reader[s].pc = "done" /\ reader[s].err = Null
             => reader[s].count = written[s] /\ NobodyWrites
    BY DEF CommandInv, ReadersTell
  <1>4. waiter # "none"
    BY <1>1 DEF CommandInv, Unstarted, Idle
  <1>5. s \in Piped => /\ pump[s].finished => reader[s].pc = "done"
                       /\ pump[s].done => pump[s].aborted
                       /\ ~pump[s].aborted /\ s \notin refused => Complete(s)
    BY <1>1, <1>4 DEF CommandInv, PumpsTell
  <1>6. /\ pump' \in [Streams -> Pumps]
        /\ pump'[s].queue = pump[s].queue /\ pump'[s].inflight = Null
        /\ pump'[s].aborted = pump[s].aborted /\ pump'[s].finished = pump[s].finished
        /\ \A t \in Streams \ {s} : pump'[t] = pump[t]
        /\ pump'[s].done = pump[s].done
    <2>1. pump' = [pump EXCEPT ![s] = [pump[s] EXCEPT !.inflight = Null]]
      BY <1>1, <1>2
    <2>2. [pump[s] EXCEPT !.inflight = Null] \in Pumps
      BY <1>2 DEF Pumps
    <2> QED BY <1>2, <2>1, <2>2 DEF Pumps
  <1>7. ASSUME host' = [host EXCEPT ![s] = Append(host[s], pump[s].inflight)], refused' = refused
        PROVE  CommandInv'
    <2>1. /\ host' \in [Streams -> Seq(Nat)] /\ host'[s] = Append(host[s], pump[s].inflight)
          /\ \A t \in Streams \ {s} : host'[t] = host[t]
      <3>1. host[s] \in Seq(Nat) /\ pump[s].inflight \in Nat
        BY <1>1, <1>2, StreamFields
      <3>2. Append(host[s], pump[s].inflight) \in Seq(Nat)
        BY <3>1
      <3> QED BY <1>2, <1>7, <3>2
    <2>2. Ordered(s)' /\ (Complete(s) => Complete(s)')
      BY <1>1, <1>2, <1>6, <2>1, OutputTaken
    <2> QED BY <1>1, <1>2, <1>3, <1>4, <1>5, <1>6, <1>7, <2>1, <2>2, StreamKeeps, ZenonT(60)
  <1>8. ASSUME refused' = refused \cup {s}, host' = host
        PROVE  CommandInv'
    <2>1. Ordered(s)'
      BY <1>1, <1>2, <1>6, <1>8 DEF Ordered
    <2> QED BY <1>1, <1>2, <1>3, <1>4, <1>5, <1>6, <1>8, <2>1, StreamKeeps, ZenonT(60)
  <1> QED BY <1>7, <1>8 DEF HostWrite

-----------------------------------------------------------------------------
(* The invariant *)

\* Time passes and the caller cancels.
LEMMA KeepOutside ==
  ASSUME CommandInv, DeadlinePasses \/ CancelParent
  PROVE  CommandInv'
  <1>1. /\ late' \in BOOLEAN /\ parent' \in BOOLEAN /\ (late => late') /\ (parent => parent')
        /\ UNCHANGED <<cmd, proc, exit, written, reader, waiter, pump, host, refused>>
    BY DEF CommandInv, CommandType, DeadlinePasses, CancelParent, child, sinks
  <1>2. CommandType'
    BY <1>1 DEF CommandInv, CommandType
  <1>3. Unstarted' /\ Started' /\ Processes' /\ ReadersTell'
    BY <1>1 DEF CommandInv, Unstarted, Started, Processes, ReadersTell, Whole, NobodyLives,
                NobodyWrites, Piped
  <1>4. OutputInv'
    BY <1>1 DEF CommandInv, OutputInv, Ordered
  <1>5. PumpsTell'
    <2>1. \A s \in Streams : Complete(s)' = Complete(s)
      BY <1>1, OutputKept
    <2>2. Piped' = Piped /\ (waiter # "none" => Piped \subseteq Streams)
      BY <1>1, OptsFields DEF CommandInv, Started, Piped
    <2> QED BY <1>1, <2>1, <2>2 DEF CommandInv, PumpsTell
  <1>6. Gathered'
    <2>1. Piped' = Piped
      BY <1>1 DEF Piped
    <2> QED BY <1>1, <2>1 DEF CommandInv, Gathered
  <1>7. Returned'
    <2>1. Verdict(cmd.cancelled)' = Verdict(cmd.cancelled)
      BY <1>1, Zenon DEF Verdict
    <2> QED BY <1>1, <2>1 DEF CommandInv, Returned
  <1> QED BY <1>2, <1>3, <1>4, <1>5, <1>6, <1>7 DEF CommandInv

LEMMA InvInit == Init => CommandInv
  <1> SUFFICES ASSUME Init PROVE CommandInv
    OBVIOUS
  <1>1. CommandType
    <2>1. NotYet \in CmdStates
      BY DEF NotYet, CmdStates, Streams
    <2>2. Unread \in Readers /\ Idle \in Pumps
      BY DEF Unread, Readers, Idle, Pumps
    <2>3. <<>> \in Seq(Nat)
      OBVIOUS
    <2> QED BY <2>1, <2>2, <2>3 DEF Init, CommandType
  <1>2. Unstarted /\ Started /\ Processes /\ PumpsTell /\ Returned
    BY NullApart, CommandAssumption DEF Init, Unstarted, Started, Processes, PumpsTell, Returned,
                                        Whole, NotYet, NobodyLives, Group
  <1>3. ReadersTell /\ OutputInv
    BY NullApart, CommandAssumption DEF Init, ReadersTell, OutputInv, Ordered, Unread, Idle
  <1>4. Gathered
    BY NullApart DEF Init, Gathered, NotYet, Failures
  <1> QED BY <1>1, <1>2, <1>3, <1>4 DEF CommandInv

LEMMA InvNext == CommandInv /\ [Next]_vars => CommandInv'
  <1> SUFFICES ASSUME CommandInv, [Next]_vars PROVE CommandInv'
    OBVIOUS
  <1>1. CASE \E opts \in Settings : Begin(opts)
    BY <1>1, KeepBegin
  <1>2. CASE Run
    BY <1>2, KeepSpawn, KeepArmTimeout, KeepSelectWait, KeepSelectParent, KeepSelectTimeout,
       KeepFinish, KeepSelectStream, KeepSelectPumpDone DEF Run
  <1>3. CASE Wait
    BY <1>3, KeepReap, KeepPostWait DEF Wait
  <1>4. CASE \E s \in Streams : Reads(s) \/ NextWrite(s) \/ HostWrite(s)
    BY <1>4, KeepReadChunk, KeepReadEOF, KeepReadFails, KeepNextWrite, KeepHostWrite DEF Reads
  <1>5. CASE World
    <2>1. Child \in Group
      BY DEF Group
    <2> QED BY <1>5, <2>1, KeepFork, KeepWrite, KeepClosePipes, KeepExit, KeepOutside
            DEF World, ChildExits
  <1>6. CASE UNCHANGED vars
    <2>1. CommandType' /\ Unstarted' /\ Started'
      BY <1>6, Zenon DEF vars, CommandInv, CommandType, Unstarted, Started, Whole, Piped
    <2>2. Processes' /\ ReadersTell'
      BY <1>6, Zenon DEF vars, CommandInv, Processes, ReadersTell, NobodyLives, NobodyWrites
    <2>3. OutputInv' /\ PumpsTell'
      BY <1>6, Zenon DEF vars, CommandInv, OutputInv, PumpsTell, Ordered, Complete, Admitted, Piped
    <2>4. Gathered' /\ Returned'
      BY <1>6, Zenon DEF vars, CommandInv, Gathered, Returned, Verdict, Piped
    <2> QED BY <2>1, <2>2, <2>3, <2>4 DEF CommandInv
  <1> QED BY <1>1, <1>2, <1>3, <1>4, <1>5, <1>6 DEF Next

LEMMA CommandInvariant == Spec => []CommandInv
  BY InvInit, InvNext, PTL DEF Spec

-----------------------------------------------------------------------------
(* What a result says, and what a stopped run does not do any more *)

LEMMA ResultFromInv == CommandInv => ResultIsTrue
  <1> SUFFICES ASSUME CommandInv PROVE ResultIsTrue
    OBVIOUS
  <1>1. /\ cmd.result # Null => cmd.pc = "returned"
        /\ waiter = "none" => cmd.result \in {Null, "cancelled", "refused", "timeout", "spawn"}
    BY DEF CommandInv, Unstarted, Started
  <1>2. ASSUME cmd.pc = "returned", waiter # "none"
        PROVE  /\ cmd.streams = {} /\ waiter = "posted" /\ NobodyLives
               /\ cmd.failure = Null /\ ~cmd.cancelled => cmd.pumps = {}
               /\ cmd.result = Verdict(cmd.cancelled)
               /\ exit \in {"ok", "error"}
    <2>1. waiter = "posted" /\ NobodyLives /\ Child \in Group /\ proc[Child] # "none"
      BY <1>2 DEF CommandInv, Returned, Gathered, Processes, Group, Started
    <2>2. exit # Null
      BY <2>1 DEF CommandInv, Processes, NobodyLives
    <2> QED BY <1>2, <2>1, <2>2 DEF CommandInv, Returned, CommandType
  <1>3. ReapedOnReturn
    BY <1>2 DEF ReapedOnReturn, CommandInv, Unstarted, NobodyLives
  <1>4. ASSUME cmd.result \in {"ok", "failed"}
        PROVE  /\ cmd.pc = "returned" /\ waiter = "posted" /\ cmd.streams = {} /\ cmd.pumps = {}
               /\ cmd.failure = Null /\ ~cmd.cancelled
               /\ exit = (IF cmd.result = "ok" THEN "ok" ELSE "error")
               /\ \A s \in Streams : /\ reader[s].pc = "done" /\ reader[s].err = Null
                                     /\ reader[s].count = written[s]
    <2>1. cmd.pc = "returned" /\ waiter # "none"
      BY <1>1, <1>4, NullApart DEF Results
    <2>2. cmd.cancelled \in BOOLEAN /\ cmd.failure \in Failures \cup {Null}
      BY CmdFields DEF CommandInv
    <2>3. /\ cmd.failure = Null /\ ~cmd.cancelled
          /\ exit = (IF cmd.result = "ok" THEN "ok" ELSE "error")
      <3>1. cmd.result = Verdict(cmd.cancelled) /\ exit \in {"ok", "error"}
        BY <1>2, <2>1
      <3>2. CASE cmd.cancelled
        BY <1>4, <3>1, <3>2 DEF Verdict
      <3>3. CASE ~cmd.cancelled /\ cmd.failure # Null
        <4>1. cmd.result = cmd.failure
          BY <3>1, <3>3 DEF Verdict
        <4> QED BY <1>4, <2>2, <3>3, <4>1 DEF Failures
      <3>4. CASE ~cmd.cancelled /\ cmd.failure = Null
        <4>1. cmd.result = IF exit = "error" THEN "failed" ELSE "ok"
          BY <3>1, <3>4 DEF Verdict
        <4> QED BY <1>4, <3>1, <3>4, <4>1
      <3> QED BY <3>2, <3>3, <3>4
    <2>4. waiter = "posted" /\ cmd.streams = {} /\ cmd.pumps = {}
      BY <1>2, <2>1, <2>3
    <2>5. \A s \in Streams : reader[s].pc = "done" /\ reader[s].err = Null
      BY <2>1, <2>3, <2>4 DEF CommandInv, Gathered
    <2> QED BY <2>1, <2>3, <2>4, <2>5 DEF CommandInv, ReadersTell
  <1>5. DeliveredOnSuccess
    <2> SUFFICES ASSUME cmd.result = "ok"
                 PROVE  /\ cmd.captured = written["out"]
                        /\ \A s \in Piped \ refused : host[s] = [n \in 1..written[s] |-> n]
      BY DEF DeliveredOnSuccess
    <2>1. cmd.captured = written["out"]
      <3>1. "out" \in Streams \ cmd.streams
        BY <1>4 DEF Streams
      <3> QED BY <1>4, <3>1 DEF CommandInv, Gathered
    <2>2. ASSUME NEW s \in Piped \ refused
          PROVE  host[s] = [n \in 1..written[s] |-> n]
      <3>1. s \in Streams /\ host[s] \in Seq(Nat)
        BY <1>4, OptsFields, StreamFields DEF CommandInv, Started
      <3>2. pump[s].done
        BY <1>4 DEF CommandInv, Gathered
      <3>3. ~pump[s].aborted /\ pump[s].queue = <<>> /\ pump[s].inflight = Null /\ Complete(s)
        BY <1>4, <3>2 DEF CommandInv, PumpsTell
      <3>4. Len(host[s]) = written[s] /\ \A n \in 1..Len(host[s]) : host[s][n] = n
        BY <1>4, <3>1, <3>3 DEF Complete, Admitted
      <3>5. host[s] = [n \in 1..Len(host[s]) |-> host[s][n]]
        BY <3>1
      <3> QED BY <3>4, <3>5
    <2> QED BY <2>1, <2>2
  <1>6. VerdictIsTrue
    <2>1. ASSUME cmd.result \in {"ok", "failed"}
          PROVE  /\ \A s \in Streams : reader[s].err = Null /\ written[s] <= Limit[s]
                 /\ ~cmd.lateStart /\ ~cmd.cancelled
                 /\ exit = (IF cmd.result = "ok" THEN "ok" ELSE "error")
      BY <1>4, <2>1 DEF CommandInv, ReadersTell, Gathered
    <2>2. ASSUME cmd.pc = "returned", waiter # "none"
          PROVE  /\ cmd.result = "limit" => cmd.failure = "limit"
                 /\ cmd.result = "timeout" => cmd.failure = "timeout"
                 /\ cmd.result = "cancelled" => cmd.cancelled
                 /\ cmd.cancelled => cmd.result = "cancelled"
      <3>1. cmd.cancelled \in BOOLEAN /\ cmd.failure \in Failures \cup {Null}
        BY CmdFields DEF CommandInv
      <3>2. cmd.result = Verdict(cmd.cancelled)
        BY <1>2, <2>2
      <3>3. CASE cmd.cancelled
        BY <3>2, <3>3 DEF Verdict
      <3>4. CASE ~cmd.cancelled /\ cmd.failure # Null
        <4>1. cmd.result = cmd.failure
          BY <3>2, <3>4 DEF Verdict
        <4> QED BY <3>1, <3>4, <4>1 DEF Failures
      <3>5. CASE ~cmd.cancelled /\ cmd.failure = Null
        <4>1. cmd.result \in {"failed", "ok"}
          BY <3>2, <3>5 DEF Verdict
        <4> QED BY <3>5, <4>1
      <3> QED BY <3>1, <3>3, <3>4, <3>5
    <2>3. cmd.result = "limit" => \E s \in Streams : written[s] > Limit[s]
      BY <1>1, <2>2, NullApart DEF Results, Failures, CommandInv, Gathered, ReadersTell
    <2>4. cmd.result = "timeout" => late
      BY <1>1, <2>2, NullApart DEF Results, Failures, CommandInv, Gathered, Unstarted
    <2>5. cmd.result = "cancelled" => parent
      BY <1>1, <2>2, NullApart DEF Results, Failures, CommandInv, Gathered, Unstarted
    <2>6. cmd.cancelled /\ cmd.pc = "returned" => cmd.result = "cancelled"
      BY <2>2 DEF CommandInv, Unstarted, Whole
    <2> QED BY <2>1, <2>3, <2>4, <2>5, <2>6 DEF VerdictIsTrue
  <1> QED BY <1>3, <1>5, <1>6 DEF ResultIsTrue

\* For any child, descendants, limits and output: when
\* RunTerraformCommandContext returns, the child is reaped and its group dead;
\* a success has captured and delivered all of the output in order; and an
\* overflow, a failed read, a late start, a cancellation and the exit status are
\* each told for what they were, whichever goroutine was first.
THEOREM ResultsAreTrue == Spec => []ResultIsTrue
  BY CommandInvariant, ResultFromInv, PTL

\* For any child, descendants, limits and output: a run that has failed or been
\* cancelled admits no further write to the host, and the host never gets a
\* chunk twice or out of order (commandHostOutputPump).
THEOREM StoppedIsQuiet == Spec => QuietAfterStop
  <1> DEFINE Quiet == \A s \in Streams :
                        (cmd.failure # Null \/ cmd.cancelled) /\ pump[s].inflight = Null
                          => pump'[s].inflight = Null
             InOrder == \A s \in Streams :
                          host'[s] # host[s]
                            => \A n \in 1..Len(host[s]) : host[s][n] < host'[s][Len(host'[s])]
  <1>1. CommandInv /\ [Next]_vars => [Quiet]_vars
    <2> SUFFICES ASSUME CommandInv, Next, NEW s \in Streams,
                        cmd.failure # Null \/ cmd.cancelled, pump[s].inflight = Null
                 PROVE  pump'[s].inflight = Null
      OBVIOUS
    <2>1. CASE \E t \in Streams : NextWrite(t)
      <3>1. PICK t \in Streams : NextWrite(t)
        BY <2>1
      <3>2. pump[t].aborted
        BY <3>1 DEF NextWrite, CommandInv, PumpsTell
      <3>3. pump' = [pump EXCEPT ![t].done = TRUE] /\ pump \in [Streams -> Pumps]
        BY <3>1, <3>2 DEF NextWrite, CommandInv, CommandType
      <3>4. pump'[s].inflight = pump[s].inflight
        <4>1. pump' = [pump EXCEPT ![t] = [pump[t] EXCEPT !.done = TRUE]]
          BY <3>3
        <4>2. pump[t] \in Pumps
          BY <3>3
        <4> QED BY <3>3, <4>1, <4>2 DEF Pumps
      <3> QED BY <3>4
    <2>2. CASE \E t \in Streams : HostWrite(t)
      <3>1. PICK t \in Streams : HostWrite(t)
        BY <2>2
      <3>2. pump' = [pump EXCEPT ![t] = [pump[t] EXCEPT !.inflight = Null]]
            /\ pump \in [Streams -> Pumps] /\ pump[t] \in Pumps
        BY <3>1 DEF HostWrite, CommandInv, CommandType
      <3> QED BY <3>2 DEF Pumps
    <2>3. CASE \E t \in Streams : Reads(t)
      <3>1. PICK t \in Streams : Reads(t)
        BY <2>3
      <3>2. /\ pump \in [Streams -> Pumps] /\ pump[t] \in Pumps /\ reader[t].count + 1 \in Nat
        BY StreamFields DEF CommandInv, CommandType
      <3>3. \/ pump' = pump
            \/ pump' = [pump EXCEPT ![t] = [pump[t] EXCEPT !.finished = TRUE]]
            \/ pump' = [pump EXCEPT ![t] = Enqueue(pump[t], reader[t].count + 1)]
        BY <3>1, <3>2 DEF Reads, ReadChunk, ReadEOF, ReadFails, EndReader
      <3>4. CASE pump' = pump
        BY <3>4
      <3>5. CASE pump' = [pump EXCEPT ![t] = [pump[t] EXCEPT !.finished = TRUE]]
        BY <3>2, <3>5 DEF Pumps
      <3>6. CASE pump' = [pump EXCEPT ![t] = Enqueue(pump[t], reader[t].count + 1)]
        <4>1. Enqueue(pump[t], reader[t].count + 1).inflight = pump[t].inflight
          BY <3>2, EnqueueFields
        <4> QED BY <3>2, <3>6, <4>1
      <3> QED BY <3>3, <3>4, <3>5, <3>6
    <2>4. CASE Run
      <3>1. \/ pump' = pump
            \/ \E stops \in BOOLEAN :
                 pump' = [t \in Streams |-> IF stops /\ t \in Piped THEN Abort(pump[t]) ELSE pump[t]]
        <4>1. parent \in BOOLEAN /\ late \in BOOLEAN /\ cmd.cancelled \in BOOLEAN
          BY CmdFields DEF CommandInv, CommandType
        <4> QED BY <2>4, <4>1 DEF Run, Spawn, ArmTimeout, SelectWait, SelectParent, SelectTimeout,
                    Finish, SelectStream, SelectPumpDone, Turn, StopWhen
      <3>2. Abort(pump[s]).inflight = pump[s].inflight
        BY AbortFields, StreamFields DEF CommandInv
      <3> QED BY <3>1, <3>2
    <2>5. CASE (\E opts \in Settings : Begin(opts)) \/ Wait \/ World
      <3>1. pump' = pump
        BY <2>5 DEF Begin, Wait, Reap, PostWait, World, Fork, Write, ClosePipes, ChildExits, Exit,
                    DeadlinePasses, CancelParent
      <3> QED BY <3>1
    <2> QED BY <2>1, <2>2, <2>3, <2>4, <2>5 DEF Next
  <1>2. CommandInv /\ [Next]_vars => [InOrder]_vars
    <2> SUFFICES ASSUME CommandInv, Next, NEW s \in Streams, host'[s] # host[s]
                 PROVE  \A n \in 1..Len(host[s]) : host[s][n] < host'[s][Len(host'[s])]
      OBVIOUS
    <2>1. \E t \in Streams : HostWrite(t)
      BY DEF Next, Begin, Run, Spawn, ArmTimeout, SelectWait, SelectParent, SelectTimeout, Finish,
             SelectStream, SelectPumpDone, Wait, Reap, PostWait, Reads, ReadChunk, ReadEOF, ReadFails,
             NextWrite, World, Fork, Write, ClosePipes, ChildExits, Exit, DeadlinePasses,
             CancelParent, sinks
    <2>2. PICK t \in Streams : HostWrite(t)
      BY <2>1
    <2>3. host' = [host EXCEPT ![t] = Append(host[t], pump[t].inflight)]
      BY <2>2 DEF HostWrite
    <2>4. host \in [Streams -> Seq(Nat)]
      BY DEF CommandInv, CommandType
    <2>5. t = s /\ pump[s].inflight # Null
      BY <2>2, <2>3, <2>4 DEF HostWrite
    <2>6. host[s] \in Seq(Nat) /\ pump[s].inflight \in Nat
      BY <2>5, StreamFields DEF CommandInv
    <2>7. host'[s] = Append(host[s], pump[s].inflight)
      BY <2>3, <2>4, <2>5
    <2>8. host'[s][Len(host'[s])] = pump[s].inflight
      BY <2>6, <2>7
    <2> QED BY <2>5, <2>8 DEF CommandInv, OutputInv, Ordered
  <1>3. Spec => [][Quiet]_vars
    BY CommandInvariant, <1>1, PTL DEF Spec
  <1>4. Spec => [][InOrder]_vars
    BY CommandInvariant, <1>2, PTL DEF Spec
  <1> QED BY <1>3, <1>4 DEF QuietAfterStop

-----------------------------------------------------------------------------
(* The process groups of all runs *)


CommandStates == {"idle", "starting", "forked", "running", "unregister", "awaiting", "returned"}
WatcherStates == {"none", "watching", "received", "killing", "resending", "releasing", "done"}

GroupsType ==
    /\ alive \in BOOLEAN /\ other \in BOOLEAN
    /\ mu \in Commands \cup {Null}
    /\ pc \in [Commands -> CommandStates]
    /\ group \in [Commands -> {"none", "alive", "dead"}]
    /\ registered \in SUBSET Commands
    /\ gen \in Nat /\ gens \in Nat /\ sent \in Nat /\ terminating \in Nat
    /\ watcher \in [Generations -> WatcherStates]
    /\ doomed \in [Generations -> SUBSET Commands]

\* The lock is held from the subscription to the registration, and whoever
\* holds it or is registered has a generation that gets the signals: the only
\* one that does.
Subscribed ==
    /\ \A c \in Commands : pc[c] \in {"starting", "forked"} <=> mu = c
    /\ gen <= gens
    /\ mu # Null \/ registered # {} => gen # 0
    /\ subscribed = IF gen = 0 THEN {} ELSE {gen}

\* Where the processes of a command are.
Owned ==
    /\ \A c \in registered : pc[c] \in {"running", "unregister"}
    /\ \A c \in Commands : group[c] = "alive" => pc[c] \in {"forked", "running"}

\* Generations are numbered upwards, and each one's watcher handles one signal.
Handling ==
    /\ \A g \in Generations : g > gens => watcher[g] = "none"
    /\ \A g \in Generations : watcher[g] \in {"none", "watching", "received"} => doomed[g] = {}
    /\ \A g \in Generations :
         /\ watcher[g] \in {"killing", "releasing"} => terminating = g
         /\ watcher[g] = "resending" => terminating = g \/ doomed[g] = {}
    /\ gen # 0 => terminating = 0

\* A command taken over waits at the gate until the signal was sent on.
Gated ==
    \A g \in Generations : watcher[g] \in {"killing", "resending"} =>
        \A c \in doomed[g] : pc[c] \in {"running", "unregister"}

\* Where a signal that came from outside can be: in a channel, or with a watcher
\* that has not sent it on yet.
Carries(g) == watcher[g] \in {"received", "killing", "resending"}
Tokens == ({"channel"} \X buffered) \cup ({"watcher"} \X {g \in Generations : Carries(g)})

\* Signals are passed on and never multiplied.
Counted ==
    /\ \A t \in Tokens : sent >= 1
    /\ \A t, u \in Tokens : t # u => sent >= 2

\* A running group is about to be registered, is registered, or is about to be killed.
Doomed(c) == \E g \in Generations : watcher[g] = "killing" /\ c \in doomed[g]
Reached ==
    alive => \A c \in Commands :
               group[c] = "alive" => pc[c] = "forked" \/ c \in registered \/ Doomed(c)

\* What a host that has ended left behind.
Left == ~alive => \A c \in Commands : group[c] = "alive" => sent >= 2 /\ Doomed(c)

GroupsInv ==
    /\ GroupsType /\ Subscribed /\ Owned /\ Handling /\ Gated /\ Counted /\ Reached /\ Left

-----------------------------------------------------------------------------
LEMMA GenerationsPositive == \A g \in Generations : g \in Nat /\ g > 0
  BY DEF Generations

LEMMA NullIsNoCommand == Null \notin Commands
  BY GroupsAssumption

\* A signal that moves from one place to another is still one signal.
LEMMA PassedOn ==
  ASSUME NEW before, NEW after, NEW from, NEW to, NEW n \in Nat,
         from \in before, after \subseteq (before \ {from}) \cup {to},
         \A t \in before : n >= 1, \A t, u \in before : t # u => n >= 2
  PROVE  (\A t \in after : n >= 1) /\ (\A t, u \in after : t # u => n >= 2)
  OBVIOUS

LEMMA GroupsInitInv == GroupsInit => GroupsInv
  BY GroupsAssumption DEF GroupsInit, GroupsInv, GroupsType, CommandStates, WatcherStates,
     Subscribed, Owned, Handling, Gated, Counted, Tokens, Carries, Reached, Left

\* A signal that ends the host finds no subscription, hence no group but
\* those an earlier signal is about to kill.
LEMMA SignalKeeps ==
  ASSUME GroupsInv, Signal
  PROVE  GroupsInv'
  <1>1. GroupsType'
    BY DEF GroupsInv, Signal, Arrives, handling, GroupsType
  <1>2. Subscribed'
    BY DEF GroupsInv, Signal, Subscribed
  <1>3. Owned'
    BY DEF GroupsInv, Signal, Owned
  <1>4. Handling'
    BY DEF GroupsInv, Signal, handling, Handling
  <1>5. Gated'
    BY DEF GroupsInv, Signal, handling, Gated
  <1>6. Counted'
    <2> DEFINE new == {<<"channel", h>> : h \in subscribed}
    <2>1. Tokens' = Tokens \cup new
      BY DEF Signal, Arrives, Tokens, Carries
    <2>2. \A t, u \in new : t = u
      BY DEF GroupsInv, Subscribed
    <2>3. sent \in Nat /\ sent' = sent + 1
      BY DEF GroupsInv, GroupsType, Signal
    <2> HIDE DEF new
    <2> QED BY <2>1, <2>2, <2>3 DEF GroupsInv, Counted
  <1>7. Reached'
    BY DEF GroupsInv, Signal, handling, Reached, Doomed
  <1>8. Left'
    <2>1. CASE alive'
      BY <2>1 DEF Left
    <2>2. CASE ~alive'
      <3>1. subscribed = {}
        BY <2>2 DEF Signal, Arrives
      <3>2. gen = 0 /\ mu = Null /\ registered = {}
        BY <3>1 DEF GroupsInv, Subscribed
      <3>3. \A d \in Commands : group[d] = "alive" => Doomed(d)
        BY <3>2, NullIsNoCommand DEF GroupsInv, Reached, Subscribed, Signal
      <3>4. \A d \in Commands : Doomed(d) => sent >= 1 /\ Doomed(d)'
        <4> SUFFICES ASSUME NEW d \in Commands, Doomed(d) PROVE sent >= 1 /\ Doomed(d)'
          OBVIOUS
        <4>1. PICK g \in Generations : watcher[g] = "killing" /\ d \in doomed[g]
          BY DEF Doomed
        <4>2. <<"watcher", g>> \in Tokens
          BY <4>1 DEF Tokens, Carries
        <4> QED BY <4>2 DEF GroupsInv, Counted, Signal, handling, Doomed
      <3>5. sent \in Nat /\ sent' = sent + 1 /\ group' = group
        BY DEF GroupsInv, GroupsType, Signal
      <3>6. \A d \in Commands : group'[d] = "alive" => sent' >= 2 /\ Doomed(d)'
        BY <3>3, <3>4, <3>5
      <3> QED BY <3>6 DEF Left
    <2> QED BY <2>1, <2>2
  <1> QED BY <1>1, <1>2, <1>3, <1>4, <1>5, <1>6, <1>7, <1>8 DEF GroupsInv

LEMMA SubscribeKeeps ==
  ASSUME GroupsInv, NEW c \in Commands, Subscribe(c)
  PROVE  GroupsInv'
  <1>1. GroupsType'
    BY DEF GroupsInv, Subscribe, handling, GroupsType, CommandStates, WatcherStates
  <1>2. Subscribed'
    BY NullIsNoCommand DEF GroupsInv, Subscribe, Subscribed, GroupsType
  <1>3. Owned'
    BY DEF GroupsInv, Subscribe, Owned
  <1>4. Handling'
    BY GenerationsPositive DEF GroupsInv, Subscribe, handling, Handling, GroupsType
  <1>5. Gated'
    BY DEF GroupsInv, Subscribe, handling, Gated, GroupsType
  <1>6. Counted'
    BY DEF GroupsInv, Subscribe, Counted, Tokens, Carries, GroupsType
  <1>7. Reached'
    BY GenerationsPositive DEF GroupsInv, Subscribe, Reached, Doomed, Handling
  <1>8. Left'
    BY DEF Subscribe, Left
  <1> QED BY <1>1, <1>2, <1>3, <1>4, <1>5, <1>6, <1>7, <1>8 DEF GroupsInv

LEMMA ForkKeeps ==
  ASSUME GroupsInv, NEW c \in Commands, ForkGroup(c)
  PROVE  GroupsInv'
  <1>1. GroupsType'
    BY DEF GroupsInv, ForkGroup, handling, GroupsType, CommandStates
  <1>2. Subscribed'
    BY DEF GroupsInv, ForkGroup, signalling, Subscribed
  <1>3. Owned'
    BY DEF GroupsInv, ForkGroup, Owned, GroupsType
  <1>4. Handling'
    BY DEF GroupsInv, ForkGroup, handling, Handling
  <1>5. Gated'
    BY DEF GroupsInv, ForkGroup, handling, Gated
  <1>6. Counted'
    BY DEF GroupsInv, ForkGroup, signalling, Counted, Tokens, Carries
  <1>7. Reached'
    BY DEF GroupsInv, ForkGroup, handling, Reached, Doomed, GroupsType
  <1>8. Left'
    BY DEF ForkGroup, Left
  <1> QED BY <1>1, <1>2, <1>3, <1>4, <1>5, <1>6, <1>7, <1>8 DEF GroupsInv

LEMMA StartFailsKeeps ==
  ASSUME GroupsInv, NEW c \in Commands, StartFails(c)
  PROVE  GroupsInv'
  <1>1. GroupsType'
    BY DEF GroupsInv, StartFails, TearDown, handling, GroupsType, CommandStates
  <1>2. Subscribed'
    BY NullIsNoCommand DEF GroupsInv, StartFails, TearDown, Subscribed, GroupsType
  <1>3. Owned'
    BY DEF GroupsInv, StartFails, TearDown, Owned, GroupsType
  <1>4. Handling'
    BY DEF GroupsInv, StartFails, TearDown, handling, Handling
  <1>5. Gated'
    BY DEF GroupsInv, StartFails, TearDown, handling, Gated, GroupsType
  <1>6. Counted'
    BY DEF GroupsInv, StartFails, Counted, Tokens, Carries
  <1>7. Reached'
    BY DEF GroupsInv, StartFails, handling, Reached, Doomed, Subscribed
  <1>8. Left'
    BY DEF StartFails, Left
  <1> QED BY <1>1, <1>2, <1>3, <1>4, <1>5, <1>6, <1>7, <1>8 DEF GroupsInv

LEMMA RegisterKeeps ==
  ASSUME GroupsInv, NEW c \in Commands, Register(c)
  PROVE  GroupsInv'
  <1>1. GroupsType'
    BY DEF GroupsInv, Register, handling, GroupsType, CommandStates
  <1>2. Subscribed'
    BY NullIsNoCommand DEF GroupsInv, Register, signalling, Subscribed, GroupsType
  <1>3. Owned'
    BY DEF GroupsInv, Register, Owned, GroupsType
  <1>4. Handling'
    BY DEF GroupsInv, Register, handling, Handling
  <1>5. Gated'
    BY DEF GroupsInv, Register, handling, Gated
  <1>6. Counted'
    BY DEF GroupsInv, Register, signalling, Counted, Tokens, Carries
  <1>7. Reached'
    BY DEF GroupsInv, Register, handling, Reached, Doomed
  <1>8. Left'
    BY DEF Register, Left
  <1> QED BY <1>1, <1>2, <1>3, <1>4, <1>5, <1>6, <1>7, <1>8 DEF GroupsInv

LEMMA GroupEndsKeeps ==
  ASSUME GroupsInv, NEW c \in Commands, GroupEnds(c)
  PROVE  GroupsInv'
  <1>1. GroupsType'
    BY DEF GroupsInv, GroupEnds, handling, GroupsType
  <1>2. Subscribed'
    BY DEF GroupsInv, GroupEnds, signalling, Subscribed
  <1>3. Owned'
    BY DEF GroupsInv, GroupEnds, Owned
  <1>4. Handling'
    BY DEF GroupsInv, GroupEnds, handling, Handling
  <1>5. Gated'
    BY DEF GroupsInv, GroupEnds, handling, Gated
  <1>6. Counted'
    BY DEF GroupsInv, GroupEnds, signalling, Counted, Tokens, Carries
  <1>7. Reached'
    BY DEF GroupsInv, GroupEnds, handling, Reached, Doomed
  <1>8. Left'
    BY DEF GroupsInv, GroupEnds, handling, Left, Doomed
  <1> QED BY <1>1, <1>2, <1>3, <1>4, <1>5, <1>6, <1>7, <1>8 DEF GroupsInv

LEMMA GatheredKeeps ==
  ASSUME GroupsInv, NEW c \in Commands, GroupGathered(c)
  PROVE  GroupsInv'
  <1>1. GroupsType'
    BY DEF GroupsInv, GroupGathered, handling, GroupsType, CommandStates
  <1>2. Subscribed'
    BY DEF GroupsInv, GroupGathered, signalling, Subscribed
  <1>3. Owned'
    BY DEF GroupsInv, GroupGathered, Owned
  <1>4. Handling'
    BY DEF GroupsInv, GroupGathered, handling, Handling
  <1>5. Gated'
    BY DEF GroupsInv, GroupGathered, handling, Gated
  <1>6. Counted'
    BY DEF GroupsInv, GroupGathered, signalling, Counted, Tokens, Carries
  <1>7. Reached'
    BY DEF GroupsInv, GroupGathered, handling, Reached, Doomed
  <1>8. Left'
    BY DEF GroupGathered, Left
  <1> QED BY <1>1, <1>2, <1>3, <1>4, <1>5, <1>6, <1>7, <1>8 DEF GroupsInv

LEMMA UnregisterKeeps ==
  ASSUME GroupsInv, NEW c \in Commands, Unregister(c)
  PROVE  GroupsInv'
  <1>1. GroupsType'
    BY DEF GroupsInv, Unregister, TearDown, handling, GroupsType, CommandStates
  <1>2. Subscribed'
    BY DEF GroupsInv, Unregister, TearDown, Subscribed, GroupsType
  <1>3. Owned'
    BY DEF GroupsInv, Unregister, TearDown, Owned, GroupsType
  <1>4. Handling'
    BY DEF GroupsInv, Unregister, handling, Handling
  <1>5. Gated'
    BY GenerationsPositive DEF GroupsInv, Unregister, handling, Gated, Handling
  <1>6. Counted'
    BY DEF GroupsInv, Unregister, Counted, Tokens, Carries
  <1>7. Reached'
    BY DEF GroupsInv, Unregister, TearDown, handling, Reached, Doomed, GroupsType, Owned
  <1>8. Left'
    BY DEF Unregister, Left
  <1> QED BY <1>1, <1>2, <1>3, <1>4, <1>5, <1>6, <1>7, <1>8 DEF GroupsInv

LEMMA AwaitWatcherKeeps ==
  ASSUME GroupsInv, NEW c \in Commands, AwaitWatcher(c)
  PROVE  GroupsInv'
  <1>1. GroupsType'
    BY DEF GroupsInv, AwaitWatcher, handling, GroupsType, CommandStates
  <1>2. Subscribed'
    BY DEF GroupsInv, AwaitWatcher, signalling, Subscribed
  <1>3. Owned'
    BY DEF GroupsInv, AwaitWatcher, Owned
  <1>4. Handling'
    BY DEF GroupsInv, AwaitWatcher, handling, Handling
  <1>5. Gated'
    BY DEF GroupsInv, AwaitWatcher, handling, Gated
  <1>6. Counted'
    BY DEF GroupsInv, AwaitWatcher, signalling, Counted, Tokens, Carries
  <1>7. Reached'
    BY DEF GroupsInv, AwaitWatcher, handling, Reached, Doomed
  <1>8. Left'
    BY DEF AwaitWatcher, Left
  <1> QED BY <1>1, <1>2, <1>3, <1>4, <1>5, <1>6, <1>7, <1>8 DEF GroupsInv

LEMMA HostExitsKeeps ==
  ASSUME GroupsInv, HostExits
  PROVE  GroupsInv'
  <1>1. GroupsType'
    BY DEF GroupsInv, HostExits, handling, GroupsType
  <1>2. Subscribed'
    BY DEF GroupsInv, HostExits, signalling, Subscribed
  <1>3. Owned'
    BY DEF GroupsInv, HostExits, Owned
  <1>4. Handling'
    BY DEF GroupsInv, HostExits, handling, Handling
  <1>5. Gated'
    BY DEF GroupsInv, HostExits, handling, Gated
  <1>6. Counted'
    BY DEF GroupsInv, HostExits, signalling, Counted, Tokens, Carries
  <1>7. Reached'
    BY DEF HostExits, Reached
  <1>8. Left'
    BY DEF GroupsInv, HostExits, Left, Owned
  <1> QED BY <1>1, <1>2, <1>3, <1>4, <1>5, <1>6, <1>7, <1>8 DEF GroupsInv

LEMMA ReceiveKeeps ==
  ASSUME GroupsInv, NEW g \in Generations, Receive(g)
  PROVE  GroupsInv'
  <1>1. GroupsType'
    BY DEF GroupsInv, Receive, WatcherTo, handling, GroupsType, WatcherStates
  <1>2. Subscribed'
    BY DEF GroupsInv, Receive, Subscribed
  <1>3. Owned'
    BY DEF GroupsInv, Receive, Owned
  <1>4. Handling'
    BY DEF GroupsInv, Receive, WatcherTo, handling, Handling
  <1>5. Gated'
    BY DEF GroupsInv, Receive, WatcherTo, handling, Gated
  <1>6. Counted'
    <2>1. <<"channel", g>> \in Tokens
      BY DEF Receive, Tokens
    <2>2. Tokens' \subseteq (Tokens \ {<<"channel", g>>}) \cup {<<"watcher", g>>}
      BY DEF Receive, WatcherTo, Tokens, Carries
    <2>3. sent' = sent /\ sent \in Nat
      BY DEF Receive, GroupsInv, GroupsType
    <2> QED BY <2>1, <2>2, <2>3 DEF GroupsInv, Counted
  <1>7. Reached'
    BY DEF GroupsInv, Receive, WatcherTo, handling, Reached, Doomed
  <1>8. Left'
    BY DEF Receive, Left
  <1> QED BY <1>1, <1>2, <1>3, <1>4, <1>5, <1>6, <1>7, <1>8 DEF GroupsInv

LEMMA WatcherStopsKeeps ==
  ASSUME GroupsInv, NEW g \in Generations, WatcherStops(g)
  PROVE  GroupsInv'
  <1>1. GroupsType'
    BY DEF GroupsInv, WatcherStops, WatcherTo, handling, GroupsType, WatcherStates
  <1>2. Subscribed'
    BY DEF GroupsInv, WatcherStops, signalling, Subscribed
  <1>3. Owned'
    BY DEF GroupsInv, WatcherStops, Owned
  <1>4. Handling'
    BY DEF GroupsInv, WatcherStops, WatcherTo, handling, Handling
  <1>5. Gated'
    BY DEF GroupsInv, WatcherStops, WatcherTo, handling, Gated
  <1>6. Counted'
    BY DEF GroupsInv, WatcherStops, WatcherTo, signalling, Counted, Tokens, Carries
  <1>7. Reached'
    BY DEF GroupsInv, WatcherStops, WatcherTo, handling, Reached, Doomed
  <1>8. Left'
    BY DEF WatcherStops, Left
  <1> QED BY <1>1, <1>2, <1>3, <1>4, <1>5, <1>6, <1>7, <1>8 DEF GroupsInv

LEMMA TakeOverKeeps ==
  ASSUME GroupsInv, NEW g \in Generations, TakeOver(g)
  PROVE  GroupsInv'
  <1>1. GroupsType'
    BY DEF GroupsInv, TakeOver, WatcherTo, handling, GroupsType, WatcherStates
  <1>2. Subscribed'
    BY DEF GroupsInv, TakeOver, Subscribed, GroupsType
  <1>3. Owned'
    BY DEF GroupsInv, TakeOver, Owned
  <1>4. Handling'
    BY GenerationsPositive DEF GroupsInv, TakeOver, WatcherTo, handling, Handling,
       GroupsType
  <1>5. Gated'
    BY DEF GroupsInv, TakeOver, WatcherTo, handling, Gated, GroupsType, Handling, Owned
  <1>6. Counted'
    BY DEF GroupsInv, TakeOver, WatcherTo, Counted, Tokens, Carries, GroupsType
  <1>7. Reached'
    BY DEF GroupsInv, TakeOver, WatcherTo, handling, Reached, Doomed, GroupsType
  <1>8. Left'
    BY DEF TakeOver, Left
  <1> QED BY <1>1, <1>2, <1>3, <1>4, <1>5, <1>6, <1>7, <1>8 DEF GroupsInv

LEMMA KillKeeps ==
  ASSUME GroupsInv, NEW g \in Generations, NEW c \in Commands, Kill(g, c)
  PROVE  GroupsInv'
  <1>1. GroupsType'
    BY DEF GroupsInv, Kill, handling, GroupsType
  <1>2. Subscribed'
    BY DEF GroupsInv, Kill, signalling, Subscribed
  <1>3. Owned'
    BY DEF GroupsInv, Kill, Owned
  <1>4. Handling'
    BY DEF GroupsInv, Kill, handling, Handling
  <1>5. Gated'
    BY DEF GroupsInv, Kill, handling, Gated
  <1>6. Counted'
    BY DEF GroupsInv, Kill, signalling, Counted, Tokens, Carries
  <1>7. Reached'
    BY DEF GroupsInv, Kill, handling, Reached, Doomed
  <1>8. Left'
    BY DEF Kill, Left
  <1> QED BY <1>1, <1>2, <1>3, <1>4, <1>5, <1>6, <1>7, <1>8 DEF GroupsInv

LEMMA KilledKeeps ==
  ASSUME GroupsInv, NEW g \in Generations, Killed(g)
  PROVE  GroupsInv'
  <1>1. GroupsType'
    BY DEF GroupsInv, Killed, WatcherTo, handling, GroupsType, WatcherStates
  <1>2. Subscribed'
    BY DEF GroupsInv, Killed, signalling, Subscribed
  <1>3. Owned'
    BY DEF GroupsInv, Killed, Owned
  <1>4. Handling'
    BY DEF GroupsInv, Killed, WatcherTo, handling, Handling
  <1>5. Gated'
    BY DEF GroupsInv, Killed, WatcherTo, handling, Gated
  <1>6. Counted'
    BY DEF GroupsInv, Killed, WatcherTo, signalling, Counted, Tokens, Carries
  <1>7. Reached'
    BY DEF GroupsInv, Killed, WatcherTo, handling, Reached, Doomed
  <1>8. Left'
    BY DEF Killed, Left
  <1> QED BY <1>1, <1>2, <1>3, <1>4, <1>5, <1>6, <1>7, <1>8 DEF GroupsInv

\* A signal that is sent on and ends the host leaves groups only to another
\* watcher, which carries another signal.
LEMMA ResendKeeps ==
  ASSUME GroupsInv, NEW g \in Generations, Resend(g)
  PROVE  GroupsInv'
  <1>1. GroupsType'
    BY DEF GroupsInv, Resend, Arrives, WatcherTo, handling, GroupsType, WatcherStates
  <1>2. Subscribed'
    BY DEF GroupsInv, Resend, Subscribed
  <1>3. Owned'
    BY DEF GroupsInv, Resend, Owned
  <1>4. Handling'
    BY DEF GroupsInv, Resend, WatcherTo, handling, Handling
  <1>5. Gated'
    BY DEF GroupsInv, Resend, WatcherTo, handling, Gated
  <1>6. Counted'
    <2>1. <<"watcher", g>> \in Tokens
      BY DEF Resend, Tokens, Carries
    <2>2. Tokens' \subseteq (Tokens \ {<<"watcher", g>>}) \cup {<<"channel", gen>>}
      BY DEF Resend, Arrives, WatcherTo, Tokens, Carries, GroupsInv, GroupsType, Subscribed
    <2>3. sent' = sent /\ sent \in Nat
      BY DEF Resend, GroupsInv, GroupsType
    <2> QED BY <2>1, <2>2, <2>3 DEF GroupsInv, Counted
  <1>7. Reached'
    BY DEF GroupsInv, Resend, WatcherTo, handling, Reached, Doomed
  <1>8. Left'
    <2>1. CASE alive'
      BY <2>1 DEF Left
    <2>2. CASE ~alive'
      <3>1. subscribed = {}
        BY <2>2 DEF Resend, Arrives
      <3>2. gen = 0 /\ mu = Null /\ registered = {}
        BY <3>1 DEF GroupsInv, Subscribed
      <3>3. \A d \in Commands : group[d] = "alive" => Doomed(d)
        BY <3>2, NullIsNoCommand DEF GroupsInv, Reached, Subscribed, Resend
      <3>4. \A d \in Commands : Doomed(d) => sent >= 2 /\ Doomed(d)'
        <4> SUFFICES ASSUME NEW d \in Commands, Doomed(d) PROVE sent >= 2 /\ Doomed(d)'
          OBVIOUS
        <4>1. PICK h \in Generations : watcher[h] = "killing" /\ d \in doomed[h]
          BY DEF Doomed
        <4>2. h # g /\ watcher'[h] = "killing" /\ doomed' = doomed
          BY <4>1 DEF Resend, WatcherTo, handling
        <4>3. <<"watcher", h>> \in Tokens /\ <<"watcher", g>> \in Tokens
          BY <4>1 DEF Tokens, Carries, Resend
        <4>4. sent >= 2
          BY <4>2, <4>3 DEF GroupsInv, Counted
        <4> QED BY <4>1, <4>2, <4>4 DEF Doomed
      <3>5. sent' = sent /\ group' = group
        BY DEF Resend
      <3>6. \A d \in Commands : group'[d] = "alive" => sent' >= 2 /\ Doomed(d)'
        BY <3>3, <3>4, <3>5
      <3> QED BY <3>6 DEF Left
    <2> QED BY <2>1, <2>2
  <1> QED BY <1>1, <1>2, <1>3, <1>4, <1>5, <1>6, <1>7, <1>8 DEF GroupsInv

LEMMA ReleaseKeeps ==
  ASSUME GroupsInv, NEW g \in Generations, Release(g)
  PROVE  GroupsInv'
  <1>1. GroupsType'
    BY DEF GroupsInv, Release, WatcherTo, GroupsType, WatcherStates
  <1>2. Subscribed'
    BY DEF GroupsInv, Release, signalling, Subscribed
  <1>3. Owned'
    BY DEF GroupsInv, Release, Owned
  <1>4. Handling'
    BY DEF GroupsInv, Release, WatcherTo, Handling, GroupsType
  <1>5. Gated'
    BY DEF GroupsInv, Release, WatcherTo, Gated
  <1>6. Counted'
    BY DEF GroupsInv, Release, WatcherTo, signalling, Counted, Tokens, Carries
  <1>7. Reached'
    BY DEF GroupsInv, Release, WatcherTo, Reached, Doomed
  <1>8. Left'
    BY DEF Release, Left
  <1> QED BY <1>1, <1>2, <1>3, <1>4, <1>5, <1>6, <1>7, <1>8 DEF GroupsInv

LEMMA GroupsStutter == GroupsInv /\ UNCHANGED pgvars => GroupsInv'
  BY DEF pgvars, GroupsInv, GroupsType, Subscribed, Owned, Handling, Gated, Counted,
     Tokens, Carries, Reached, Doomed, Left

\* Nobody is stranded: what is left behind was about to be killed when a second
\* signal came, and who was taken over has not returned when the signal is sent on.
LEMMA InvImpliesNoStrandedGroup == GroupsInv => NoStrandedGroup
  BY DEF GroupsInv, Left, Doomed, Gated, NoStrandedGroup

\* However many commands run, start, fail and end, and whenever the signals come,
\* a termination signal strands no process group.
THEOREM SignalStrandsNoGroup == GroupsSpec => []NoStrandedGroup
  <1>1. GroupsInv /\ [GroupsNext]_pgvars => GroupsInv'
    <2> SUFFICES ASSUME GroupsInv, [GroupsNext]_pgvars PROVE GroupsInv'
      OBVIOUS
    <2>1. ASSUME NEW c \in Commands, CommandStep(c) PROVE GroupsInv'
      BY <2>1, SubscribeKeeps, ForkKeeps, StartFailsKeeps, RegisterKeeps, GatheredKeeps,
         UnregisterKeeps, AwaitWatcherKeeps DEF CommandStep
    <2>2. ASSUME NEW g \in Generations, WatcherStep(g) PROVE GroupsInv'
      BY <2>2, ReceiveKeeps, WatcherStopsKeeps, TakeOverKeeps, KillKeeps, KilledKeeps,
         ResendKeeps, ReleaseKeeps DEF WatcherStep
    <2> QED BY <2>1, <2>2, SignalKeeps, HostExitsKeeps, GroupEndsKeeps, GroupsStutter DEF GroupsNext
  <1> QED BY <1>1, GroupsInitInv, InvImpliesNoStrandedGroup, PTL DEF GroupsSpec
=============================================================================

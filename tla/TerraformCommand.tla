-------------------------- MODULE TerraformCommand --------------------------
(***************************************************************************)
(* One bounded Terraform subprocess (go/internal/terraformcmd/runner.go).  *)
(*                                                                         *)
(* RunTerraformCommandContext starts a child in a process group of its     *)
(* own, reads its two streams in two goroutines, copies them to the host   *)
(* through two pumps, waits for the child in a fifth goroutine, and        *)
(* gathers their results in a select loop next to a deadline and a parent  *)
(* context.  A chunk of output is its number in its stream.  SIGKILL of a  *)
(* group takes effect at once.                                             *)
(***************************************************************************)
EXTENDS Integers, Sequences, FiniteSets, Absent

CONSTANTS
    Child,        \* the direct child, leader of the process group
    Descendants,  \* processes of its group it may fork
    Settings,     \* the [pumps, timed] options in use: pumps a set of streams
    Limit,        \* Limit[s]: the byte limit of stream s, in chunks
    MaxChunks     \* MaxChunks[s]: bound on the chunks written to stream s

Streams == {"out", "err"}
Group   == Descendants \cup {Child}

\* What ends a run early, and what a run can come to.
Failures == {"timeout", "limit", "read"}
Results  == Failures \cup {"ok", "failed", "cancelled", "refused", "spawn"}

ASSUME CommandAssumption ==
    /\ Child \notin Descendants
    /\ Settings \subseteq [pumps : SUBSET Streams, timed : BOOLEAN]
    /\ Limit \in [Streams -> Nat \ {0}] /\ MaxChunks \in [Streams -> Nat]
    /\ Null \notin Nat \cup Results \cup {"error"}

VARIABLES
    cmd,     \* the goroutine of RunTerraformCommandContext
    proc,    \* proc[p]: "none", "alive", "mute" (closed its pipes) or "dead"
    exit,    \* exit status of the child
    written, \* written[s]: number of chunks written to pipe s
    reader,  \* reader[s]: readBoundedCommandStream
    waiter,  \* the goroutine around command.Wait
    pump,    \* pump[s]: commandHostOutputPump
    host,    \* host[s]: the chunks the host received
    refused, \* streams the host refused a chunk of
    late,    \* whether the deadline has passed
    parent   \* whether the parent context is cancelled

vars == <<cmd, proc, exit, written, reader, waiter, pump, host, refused, late, parent>>

outside == <<late, parent>>
child   == <<proc, exit, written>>
sinks   == <<host, refused>>

Unread == [pc |-> "reading", count |-> 0, err |-> Null]
Idle   == [queue |-> <<>>, finished |-> FALSE, aborted |-> FALSE,
           inflight |-> Null, done |-> FALSE]
NotYet == [pc |-> "idle", opts |-> Null, failure |-> Null, cancelled |-> FALSE,
           streams |-> Streams, wait |-> TRUE, pumps |-> {}, armed |-> FALSE,
           lateStart |-> FALSE, captured |-> 0, result |-> Null]

Piped == cmd.opts.pumps

-----------------------------------------------------------------------------
(* Stopping a run *)

\* Mutant: abort lets the queue run out, as finish does.
AbortByFinish(p) == [p EXCEPT !.finished = TRUE]

\* commandHostOutputPump.abort.
Abort(p) == IF p.aborted THEN p ELSE [p EXCEPT !.aborted = TRUE, !.queue = <<>>]

\* abortHostOutput and the kill that goes with it.
StopWhen(stops) ==
    /\ pump' = [s \in Streams |-> IF stops /\ s \in Piped THEN Abort(pump[s]) ELSE pump[s]]
    /\ proc' = [p \in Group |-> IF stops /\ proc[p] # "none" THEN "dead" ELSE proc[p]]
    /\ exit' = IF stops /\ exit = Null THEN "error" ELSE exit

\* killTerraformProcessGroup.
KillGroup ==
    /\ proc' = [p \in Group |-> IF proc[p] # "none" THEN "dead" ELSE proc[p]]
    /\ exit' = IF exit = Null THEN "error" ELSE exit

-----------------------------------------------------------------------------
(* RunTerraformCommandContext *)

Return(result) == [cmd EXCEPT !.pc = "returned", !.result = result]

\* Validation, the snapshot descriptor and the trusted executable.
Begin(opts) ==
    /\ cmd.pc = "idle"
    /\ \/ cmd' = [Return(IF parent THEN "cancelled" ELSE "refused") EXCEPT !.opts = opts]
       \/ /\ ~parent
          /\ cmd' = [cmd EXCEPT !.pc = "checked", !.opts = opts]
    /\ UNCHANGED <<child, reader, waiter, pump, sinks, outside>>

\* The checks before spawn and startTerraformProcess.
Spawn ==
    /\ cmd.pc = "checked"
    /\ \/ /\ late /\ cmd' = Return("timeout")
          /\ UNCHANGED <<proc, waiter>>
       \/ /\ ~late /\ parent /\ cmd' = Return("cancelled")
          /\ UNCHANGED <<proc, waiter>>
       \/ /\ ~late /\ ~parent /\ cmd' = Return("spawn")
          /\ UNCHANGED <<proc, waiter>>
       \/ /\ ~late /\ ~parent
          /\ cmd' = [cmd EXCEPT !.pc = "spawned", !.pumps = Piped]
          /\ proc' = [proc EXCEPT ![Child] = "alive"]
          /\ waiter' = "waiting"
    /\ UNCHANGED <<exit, written, reader, pump, sinks, outside>>

\* Right after the spawn: a cancelled parent, an expired deadline, the timer.
ArmTimeout ==
    /\ cmd.pc = "spawned"
    /\ cmd' = [cmd EXCEPT !.pc = "select", !.cancelled = parent, !.lateStart = late,
                          !.failure = IF late THEN "timeout" ELSE Null,
                          !.armed = cmd.opts.timed /\ ~late]
    /\ StopWhen(parent \/ late)
    /\ UNCHANGED <<written, reader, waiter, sinks, outside>>

\* Something is still to be gathered.
Gathering ==
    \/ cmd.streams # {} \/ cmd.wait
    \/ cmd.failure = Null /\ ~cmd.cancelled /\ cmd.pumps # {}

\* One turn of the loop: cancelForParent, then a failure unless one was first.
Turn(failure, gathered) ==
    LET cancelled == cmd.cancelled \/ parent
        fails     == failure # Null /\ cmd.failure = Null /\ ~cancelled
    IN  /\ cmd' = [gathered EXCEPT !.cancelled = cancelled,
                                   !.failure = IF fails THEN failure ELSE @]
        /\ StopWhen(fails \/ (cancelled /\ ~cmd.cancelled))

SelectStream(s) ==
    /\ cmd.pc = "select" /\ s \in cmd.streams /\ reader[s].pc = "done"
    /\ Turn(reader[s].err,
            [cmd EXCEPT !.streams = @ \ {s},
                        !.captured = IF s = "out" /\ reader[s].err = Null
                                     THEN reader[s].count ELSE @])
    /\ UNCHANGED <<written, reader, waiter, sinks, outside>>

SelectWait ==
    /\ cmd.pc = "select" /\ cmd.wait /\ waiter = "posted"
    /\ Turn(Null, [cmd EXCEPT !.wait = FALSE])
    /\ UNCHANGED <<written, reader, waiter, sinks, outside>>

SelectPumpDone(s) ==
    /\ cmd.pc = "select" /\ Gathering
    /\ s \in cmd.pumps /\ pump[s].done
    /\ Turn(Null, [cmd EXCEPT !.pumps = @ \ {s}])
    /\ UNCHANGED <<written, reader, waiter, sinks, outside>>

SelectParent ==
    /\ cmd.pc = "select" /\ Gathering
    /\ parent /\ ~cmd.cancelled
    /\ Turn(Null, cmd)
    /\ UNCHANGED <<written, reader, waiter, sinks, outside>>

\* The timer fires late; once a failure is known it is not armed again.
SelectTimeout ==
    /\ cmd.pc = "select" /\ Gathering
    /\ cmd.armed /\ late
    /\ Turn("timeout", [cmd EXCEPT !.armed = cmd.failure = Null /\ (cmd.cancelled \/ parent)])
    /\ UNCHANGED <<written, reader, waiter, sinks, outside>>

\* Mutant: the exit status is classified before the failure of a stream.
VerdictByExit(cancelled) ==
    CASE cancelled       -> "cancelled"
      [] ~cancelled /\ exit = "error" -> "failed"
      [] ~cancelled /\ exit # "error" /\ cmd.failure # Null -> cmd.failure
      [] OTHER           -> "ok"

\* Cancellation first, then the first failure, then the exit status.
Verdict(cancelled) ==
    CASE cancelled -> "cancelled"
      [] ~cancelled /\ cmd.failure # Null -> cmd.failure
      [] ~cancelled /\ cmd.failure = Null /\ exit = "error" -> "failed"
      [] OTHER -> "ok"

\* Behind the loop.
Finish ==
    /\ cmd.pc = "select" /\ ~Gathering
    /\ cmd' = [Return(Verdict(cmd.cancelled \/ parent))
                 EXCEPT !.cancelled = @ \/ parent]
    /\ KillGroup
    /\ pump' = [s \in Streams |-> IF parent /\ s \in Piped THEN Abort(pump[s]) ELSE pump[s]]
    /\ UNCHANGED <<written, reader, waiter, sinks, outside>>

-----------------------------------------------------------------------------
(* The other goroutines *)

\* command.Wait reaps the child.
Reap ==
    /\ waiter = "waiting" /\ proc[Child] = "dead"
    /\ waiter' = "reaped"
    /\ UNCHANGED <<cmd, child, reader, pump, sinks, outside>>

\* Mutant: descendants that hold the pipes are left alone.
PostOnly ==
    /\ waiter = "reaped"
    /\ waiter' = "posted"
    /\ UNCHANGED <<cmd, child, reader, pump, sinks, outside>>

\* The rest of the group is killed before the result is posted.
PostWait ==
    /\ waiter = "reaped"
    /\ waiter' = "posted"
    /\ KillGroup
    /\ UNCHANGED <<cmd, written, reader, pump, sinks, outside>>

Reading(s) == cmd.pc \in {"spawned", "select"} /\ reader[s].pc = "reading"

\* commandHostOutputPump.enqueue.
Enqueue(p, chunk) ==
    IF p.aborted \/ p.finished THEN p ELSE [p EXCEPT !.queue = Append(@, chunk)]

OverLimit(s, n) == n > Limit[s]

\* Ends the reader, which also finishes its pump.
EndReader(s, err) ==
    /\ reader' = [reader EXCEPT ![s].pc = "done", ![s].err = err]
    /\ pump' = IF s \in Piped THEN [pump EXCEPT ![s].finished = TRUE] ELSE pump

\* One read of readBoundedCommandStream.
ReadChunk(s) ==
    /\ Reading(s) /\ reader[s].count < written[s]
    /\ IF OverLimit(s, reader[s].count + 1)
       THEN EndReader(s, "limit")
       ELSE /\ reader' = [reader EXCEPT ![s].count = @ + 1]
            /\ pump' = IF s \in Piped
                       THEN [pump EXCEPT ![s] = Enqueue(@, reader[s].count + 1)]
                       ELSE pump
    /\ UNCHANGED <<cmd, child, waiter, sinks, outside>>

\* End of file: nothing is left and nobody can write any more.
ReadEOF(s) ==
    /\ Reading(s) /\ reader[s].count = written[s]
    /\ \A p \in Group : proc[p] # "alive"
    /\ EndReader(s, Null)
    /\ UNCHANGED <<cmd, child, waiter, sinks, outside>>

ReadFails(s) ==
    /\ Reading(s)
    /\ EndReader(s, "read")
    /\ UNCHANGED <<cmd, child, waiter, sinks, outside>>

\* commandHostOutputPump.nextWrite: the queued-to-in-flight transition, or the
\* end of the pump.
NextWrite(s) ==
    /\ waiter # "none" /\ s \in Piped
    /\ pump[s].inflight = Null /\ ~pump[s].done
    /\ \/ /\ pump[s].aborted \/ (pump[s].finished /\ pump[s].queue = <<>>)
          /\ pump' = [pump EXCEPT ![s].done = TRUE]
       \/ /\ ~pump[s].aborted /\ pump[s].queue # <<>>
          /\ pump' = [pump EXCEPT ![s].inflight = Head(pump[s].queue),
                                  ![s].queue = Tail(pump[s].queue)]
    /\ UNCHANGED <<cmd, child, reader, waiter, sinks, outside>>

\* writeCommandOutput: the host takes the chunk or refuses it.
HostWrite(s) ==
    /\ pump[s].inflight # Null
    /\ \/ host' = [host EXCEPT ![s] = Append(@, pump[s].inflight)] /\ UNCHANGED refused
       \/ refused' = refused \cup {s} /\ UNCHANGED host
    /\ pump' = [pump EXCEPT ![s].inflight = Null]
    /\ UNCHANGED <<cmd, child, reader, waiter, outside>>

-----------------------------------------------------------------------------
(* The processes of the group, the clock and the caller *)

Fork(p, q) ==
    /\ proc[p] \in {"alive", "mute"} /\ proc[q] = "none"
    /\ proc' = [proc EXCEPT ![q] = proc[p]]
    /\ UNCHANGED <<cmd, exit, written, reader, waiter, pump, sinks, outside>>

Write(p, s) ==
    /\ proc[p] = "alive" /\ written[s] < MaxChunks[s]
    /\ written' = [written EXCEPT ![s] = @ + 1]
    /\ UNCHANGED <<cmd, proc, exit, reader, waiter, pump, sinks, outside>>

\* A process closes its ends of the pipes and goes on.
ClosePipes(p) ==
    /\ proc[p] = "alive"
    /\ proc' = [proc EXCEPT ![p] = "mute"]
    /\ UNCHANGED <<cmd, exit, written, reader, waiter, pump, sinks, outside>>

Exit(p, status) ==
    /\ proc[p] \in {"alive", "mute"}
    /\ proc' = [proc EXCEPT ![p] = "dead"]
    /\ exit' = IF p = Child THEN status ELSE exit
    /\ UNCHANGED <<cmd, written, reader, waiter, pump, sinks, outside>>

ChildExits == \E status \in {"ok", "error"} : Exit(Child, status)

DeadlinePasses ==
    /\ cmd.pc \notin {"idle", "returned"} /\ cmd.opts.timed /\ ~late
    /\ late' = TRUE
    /\ UNCHANGED <<cmd, child, reader, waiter, pump, sinks, parent>>

CancelParent ==
    /\ ~parent /\ cmd.pc # "returned"
    /\ parent' = TRUE
    /\ UNCHANGED <<cmd, child, reader, waiter, pump, sinks, late>>

-----------------------------------------------------------------------------
Init ==
    /\ cmd = NotYet
    /\ proc = [p \in Group |-> "none"]
    /\ exit = Null
    /\ written = [s \in Streams |-> 0]
    /\ reader = [s \in Streams |-> Unread]
    /\ waiter = "none"
    /\ pump = [s \in Streams |-> Idle]
    /\ host = [s \in Streams |-> <<>>]
    /\ refused = {}
    /\ late = FALSE /\ parent = FALSE

Run ==
    \/ Spawn \/ ArmTimeout \/ SelectWait \/ SelectParent \/ SelectTimeout \/ Finish
    \/ \E s \in Streams : SelectStream(s) \/ SelectPumpDone(s)

Reads(s) == ReadChunk(s) \/ ReadEOF(s) \/ ReadFails(s)

Wait == Reap \/ PostWait

World ==
    \/ \E p, q \in Group : Fork(p, q)
    \/ \E p \in Group, s \in Streams : Write(p, s)
    \/ \E p \in Group : ClosePipes(p) \/ (p # Child /\ Exit(p, "ok"))
    \/ ChildExits
    \/ DeadlinePasses
    \/ CancelParent

Next ==
    \/ \E opts \in Settings : Begin(opts)
    \/ Run
    \/ Wait
    \/ \E s \in Streams : Reads(s) \/ NextWrite(s) \/ HostWrite(s)
    \/ World

Spec == Init /\ [][Next]_vars

\* Goroutines are scheduled and time passes; neither the child nor the host
\* owes anything.
Scheduling ==
    /\ WF_vars(Run) /\ WF_vars(Wait) /\ WF_vars(DeadlinePasses)
    /\ \A s \in Streams :
         WF_vars(ReadChunk(s) \/ ReadEOF(s)) /\ WF_vars(NextWrite(s))

FairSpec == Spec /\ Scheduling

\* The child ends and the host takes its output.
Patience == WF_vars(ChildExits) /\ \A s \in Streams : WF_vars(HostWrite(s))

-----------------------------------------------------------------------------
(* Properties *)

\* A result is returned only after the child is reaped and every member of its
\* group is dead, whichever of the goroutines was first (the promise above
\* TerraformCommandResult in api.go).
ReapedOnReturn ==
    cmd.pc = "returned" =>
      /\ waiter \in {"none", "posted"}
      /\ \A p \in Group : proc[p] \in {"none", "dead"}

\* A success has captured all that was written, and the host got the inherited
\* streams complete and in order, unless it refused a chunk itself.
DeliveredOnSuccess ==
    cmd.result = "ok" =>
      /\ cmd.captured = written["out"]
      /\ \A s \in Piped \ refused : host[s] = [n \in 1..written[s] |-> n]

\* Success and an exit failure both rule out an overflow, a read error and a
\* deadline already over when the child was started; a limit result is a real
\* overflow; a cancellation is never renamed.
VerdictIsTrue ==
    /\ cmd.result \in {"ok", "failed"} =>
         /\ \A s \in Streams : reader[s].err = Null /\ written[s] <= Limit[s]
         /\ ~cmd.lateStart /\ ~cmd.cancelled
         /\ exit = (IF cmd.result = "ok" THEN "ok" ELSE "error")
    /\ cmd.result = "limit" => \E s \in Streams : written[s] > Limit[s]
    /\ cmd.result = "timeout" => late
    /\ cmd.result = "cancelled" => parent
    /\ cmd.cancelled /\ cmd.pc = "returned" => cmd.result = "cancelled"

\* What a result says of the run is true, whichever goroutine was first: of the
\* processes it leaves, of the output it delivered and of its outcome.
ResultIsTrue == ReapedOnReturn /\ DeliveredOnSuccess /\ VerdictIsTrue

\* Once the run is decided against, no chunk is handed to the host but the one
\* whose write had been admitted before (the order mu gives abort and
\* nextWrite), and the host gets no chunk twice or out of order.
QuietAfterStop ==
    /\ [][\A s \in Streams :
            (cmd.failure # Null \/ cmd.cancelled) /\ pump[s].inflight = Null
              => pump'[s].inflight = Null]_vars
    /\ [][\A s \in Streams :
            host'[s] # host[s] => \A n \in 1..Len(host[s]) : host[s][n] < host'[s][Len(host'[s])]]_vars

\* With a deadline a command ends although its child never does and the host
\* blocks for ever (the timer case of the select loop).  Without one it ends if
\* the child does and the host takes the output, whatever descendants still
\* hold the pipes (the kill after command.Wait).
CommandEnds ==
    /\ (cmd.pc = "checked" /\ cmd.opts.timed) ~> cmd.pc = "returned"
    /\ Patience => (cmd.pc = "checked" ~> cmd.pc = "returned")
=============================================================================

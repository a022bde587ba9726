---------------------------- MODULE ProcessGroups ----------------------------
(***************************************************************************)
(* The process groups of running Terraform commands and the termination    *)
(* signals of the host (go/internal/terraformcmd/process_group_unix.go).   *)
(*                                                                         *)
(* While at least one group is registered, a watcher goroutine of the      *)
(* current generation holds a subscription to the termination signals.  A  *)
(* signal makes it withdraw the subscription, kill the registered groups   *)
(* and send the signal to the process again, for whoever is left: another  *)
(* subscriber, or the default disposition, which ends the process.         *)
(***************************************************************************)
EXTENDS Integers, FiniteSets, Absent

CONSTANTS
    Commands,        \* goroutines that run one Terraform command each
    MaxSignals,      \* bound on the signals sent from outside
    Hosts            \* whether hosts have another subscriber of the signals

ASSUME GroupsAssumption ==
    /\ IsFiniteSet(Commands) /\ Null \notin Commands
    /\ MaxSignals \in Nat /\ Hosts \subseteq BOOLEAN

\* One generation per registration of a first group, at most one per command.
Generations == 1..Cardinality(Commands)

VARIABLES
    alive,       \* whether the host process runs
    mu,          \* the command that holds the registry lock, or Null
    pc,          \* pc[c]: where the goroutine of command c is
    group,       \* group[c]: "none", "alive" or "dead"
    registered,  \* the registry's pids, as commands
    gen,         \* the generation of the registry's channels, 0: nil
    gens,        \* number of generations so far
    subscribed,  \* generations whose channel gets signals
    buffered,    \* generations whose channel holds a signal
    stopped,     \* generations whose stop channel is closed
    watcher,     \* watcher[g]: the watcher goroutine of generation g
    doomed,      \* doomed[g]: the groups its handler took over to kill
    terminating, \* the generation that holds the termination gate, 0: open
    waitsFor,    \* waitsFor[c]: the generation whose done channel c awaits
    sent,        \* signals sent from outside so far
    other        \* whether this host has another subscriber of the signals

pgvars == <<alive, mu, pc, group, registered, gen, gens, subscribed, buffered, stopped,
            watcher, doomed, terminating, waitsFor, sent, other>>

signalling == <<subscribed, buffered>>
handling   == <<doomed, terminating>>

-----------------------------------------------------------------------------
(* Delivery *)

\* One termination signal reaches the host process.  A channel that is full
\* drops it; without any subscriber the process ends.
Arrives(subs) ==
    /\ buffered' = buffered \cup subs
    /\ alive' = (subs # {} \/ other)

Signal ==
    /\ alive /\ sent < MaxSignals
    /\ sent' = sent + 1
    /\ Arrives(subscribed)
    /\ UNCHANGED <<mu, pc, group, registered, gen, gens, subscribed, stopped, watcher,
                   handling, waitsFor, other>>

-----------------------------------------------------------------------------
(* startTerraformProcess *)

\* The lock, the gate of a termination under way, and the watcher.
Subscribe(c) ==
    /\ alive /\ pc[c] = "idle" /\ mu = Null /\ terminating = 0
    /\ mu' = c
    /\ pc' = [pc EXCEPT ![c] = "starting"]
    /\ IF gen = 0
       THEN /\ gens' = gens + 1 /\ gen' = gens + 1
            /\ subscribed' = subscribed \cup {gens + 1}
            /\ watcher' = [watcher EXCEPT ![gens + 1] = "watching"]
       ELSE UNCHANGED <<gens, gen, subscribed, watcher>>
    /\ UNCHANGED <<alive, group, registered, buffered, stopped, handling, waitsFor, sent, other>>

\* Withdraws the current generation: signal.Stop, close(stop), wait for done.
TearDown(c) ==
    /\ subscribed' = subscribed \ {gen}
    /\ stopped' = stopped \cup {gen}
    /\ waitsFor' = [waitsFor EXCEPT ![c] = gen]
    /\ gen' = 0
    /\ pc' = [pc EXCEPT ![c] = "awaiting"]

\* command.Start, still under the lock.
ForkGroup(c) ==
    /\ alive /\ pc[c] = "starting"
    /\ group' = [group EXCEPT ![c] = "alive"]
    /\ pc' = [pc EXCEPT ![c] = "forked"]
    /\ UNCHANGED <<alive, mu, registered, gen, gens, signalling, stopped, watcher,
                   handling, waitsFor, sent, other>>

StartFails(c) ==
    /\ alive /\ pc[c] = "starting"
    /\ mu' = Null
    /\ IF registered = {}
       THEN TearDown(c)
       ELSE /\ pc' = [pc EXCEPT ![c] = "returned"]
            /\ UNCHANGED <<subscribed, stopped, waitsFor, gen>>
    /\ UNCHANGED <<alive, group, registered, gens, buffered, watcher, handling, sent, other>>

Register(c) ==
    /\ alive /\ pc[c] = "forked"
    /\ registered' = registered \cup {c}
    /\ mu' = Null
    /\ pc' = [pc EXCEPT ![c] = "running"]
    /\ UNCHANGED <<alive, group, gen, gens, signalling, stopped, watcher, handling,
                   waitsFor, sent, other>>

-----------------------------------------------------------------------------
(* The command and unregisterTerraformProcessGroup *)

\* A group runs on its own; it outlives its host.
GroupEnds(c) ==
    /\ group[c] = "alive"
    /\ group' = [group EXCEPT ![c] = "dead"]
    /\ UNCHANGED <<alive, mu, pc, registered, gen, gens, signalling, stopped, watcher,
                   handling, waitsFor, sent, other>>

\* The run notices the end of its group, to unregister it.
GroupGathered(c) ==
    /\ alive /\ pc[c] = "running" /\ group[c] = "dead"
    /\ pc' = [pc EXCEPT ![c] = "unregister"]
    /\ UNCHANGED <<alive, mu, group, registered, gen, gens, signalling, stopped, watcher,
                   handling, waitsFor, sent, other>>

\* Waits at the gate; the last one tears its generation down.
Unregister(c) ==
    /\ alive /\ pc[c] = "unregister" /\ mu = Null /\ terminating = 0
    /\ registered' = registered \ {c}
    /\ IF registered \subseteq {c} /\ gen # 0
       THEN TearDown(c)
       ELSE /\ pc' = [pc EXCEPT ![c] = "returned"]
            /\ UNCHANGED <<subscribed, stopped, waitsFor, gen>>
    /\ UNCHANGED <<alive, mu, group, gens, buffered, watcher, handling, sent, other>>

\* <-done
AwaitWatcher(c) ==
    /\ alive /\ pc[c] = "awaiting" /\ watcher[waitsFor[c]] = "done"
    /\ pc' = [pc EXCEPT ![c] = "returned"]
    /\ UNCHANGED <<alive, mu, group, registered, gen, gens, signalling, stopped, watcher,
                   handling, waitsFor, sent, other>>

\* main ends once every command has returned.
HostExits ==
    /\ alive /\ \A c \in Commands : pc[c] = "returned"
    /\ alive' = FALSE
    /\ UNCHANGED <<mu, pc, group, registered, gen, gens, signalling, stopped, watcher,
                   handling, waitsFor, sent, other>>

-----------------------------------------------------------------------------
(* watchTerraformTerminationSignals *)

WatcherTo(g, state) == watcher' = [watcher EXCEPT ![g] = state]

Receive(g) ==
    /\ alive /\ watcher[g] = "watching" /\ g \in buffered
    /\ buffered' = buffered \ {g}
    /\ WatcherTo(g, "received")
    /\ UNCHANGED <<alive, mu, pc, group, registered, gen, gens, subscribed, stopped,
                   handling, waitsFor, sent, other>>

\* Mutant: the stop channel ends the watcher without a look at the signals.
StopWithoutDrain(g) ==
    /\ alive /\ watcher[g] = "watching" /\ g \in stopped
    /\ WatcherTo(g, "done")
    /\ UNCHANGED <<alive, mu, pc, group, registered, gen, gens, signalling, stopped,
                   handling, waitsFor, sent, other>>

\* stop ends the watcher only after a signal buffered before is drained.
WatcherStops(g) ==
    /\ alive /\ watcher[g] = "watching" /\ g \in stopped /\ g \notin buffered
    /\ WatcherTo(g, "done")
    /\ UNCHANGED <<alive, mu, pc, group, registered, gen, gens, signalling, stopped,
                   handling, waitsFor, sent, other>>

\* handleTerraformTerminationSignal under the lock: the current generation
\* takes the registry over, an older one only sends the signal on.
TakeOver(g) ==
    /\ alive /\ watcher[g] = "received" /\ mu = Null
    /\ IF gen = g
       THEN /\ doomed' = [doomed EXCEPT ![g] = registered]
            /\ registered' = {}
            /\ terminating' = g
            /\ gen' = 0
            /\ subscribed' = subscribed \ {g}
            /\ WatcherTo(g, "killing")
       ELSE /\ WatcherTo(g, "resending")
            /\ UNCHANGED <<registered, gen, subscribed, handling>>
    /\ UNCHANGED <<alive, mu, pc, group, gens, buffered, stopped, waitsFor, sent, other>>

\* One group at a time, behind the lock.
Kill(g, c) ==
    /\ alive /\ watcher[g] = "killing" /\ c \in doomed[g] /\ group[c] = "alive"
    /\ group' = [group EXCEPT ![c] = "dead"]
    /\ UNCHANGED <<alive, mu, pc, registered, gen, gens, signalling, stopped, watcher,
                   handling, waitsFor, sent, other>>

\* Mutant: the signal is sent on before the last group is killed.
KilledOne(g) ==
    /\ alive /\ watcher[g] = "killing"
    /\ \E c \in doomed[g] : group[c] # "alive"
    /\ WatcherTo(g, "resending")
    /\ UNCHANGED <<alive, mu, pc, group, registered, gen, gens, signalling, stopped,
                   handling, waitsFor, sent, other>>

Killed(g) ==
    /\ alive /\ watcher[g] = "killing"
    /\ \A c \in doomed[g] : group[c] # "alive"
    /\ WatcherTo(g, "resending")
    /\ UNCHANGED <<alive, mu, pc, group, registered, gen, gens, signalling, stopped,
                   handling, waitsFor, sent, other>>

\* terraformResignalProcess.
Resend(g) ==
    /\ alive /\ watcher[g] = "resending"
    /\ Arrives(subscribed)
    /\ WatcherTo(g, IF terminating = g THEN "releasing" ELSE "done")
    /\ UNCHANGED <<mu, pc, group, registered, gen, gens, subscribed, stopped, handling,
                   waitsFor, sent, other>>

Release(g) ==
    /\ alive /\ watcher[g] = "releasing" /\ mu = Null
    /\ terminating' = 0
    /\ WatcherTo(g, "done")
    /\ UNCHANGED <<alive, mu, pc, group, registered, gen, gens, signalling, stopped,
                   doomed, waitsFor, sent, other>>

-----------------------------------------------------------------------------
GroupsInit ==
    /\ alive = TRUE /\ mu = Null
    /\ pc = [c \in Commands |-> "idle"]
    /\ group = [c \in Commands |-> "none"]
    /\ registered = {} /\ gen = 0 /\ gens = 0
    /\ subscribed = {} /\ buffered = {} /\ stopped = {}
    /\ watcher = [g \in Generations |-> "none"]
    /\ doomed = [g \in Generations |-> {}]
    /\ terminating = 0
    /\ waitsFor = [c \in Commands |-> 0]
    /\ sent = 0
    /\ other \in Hosts

CommandStep(c) ==
    \/ Subscribe(c) \/ ForkGroup(c) \/ StartFails(c) \/ Register(c)
    \/ GroupGathered(c) \/ Unregister(c) \/ AwaitWatcher(c)

WatcherStep(g) ==
    \/ Receive(g) \/ WatcherStops(g) \/ TakeOver(g)
    \/ \E c \in Commands : Kill(g, c)
    \/ Killed(g) \/ Resend(g) \/ Release(g)

GroupsNext ==
    \/ \E c \in Commands : CommandStep(c) \/ GroupEnds(c)
    \/ \E g \in Generations : WatcherStep(g)
    \/ Signal
    \/ HostExits

GroupsSpec == GroupsInit /\ [][GroupsNext]_pgvars

\* Goroutines are scheduled, and the mutex starves nobody.  Terraform itself
\* may run for ever.
FairGroupsSpec ==
    /\ GroupsSpec
    /\ \A c \in Commands : SF_pgvars(CommandStep(c))
    /\ \A g \in Generations : SF_pgvars(WatcherStep(g))

-----------------------------------------------------------------------------
(* Properties *)

\* A termination signal strands no group, not even one that is being started:
\* a group outlives its host only if a second signal hits the host between the
\* handler's signal.Stop and its kill of that group.  Nor is a termination
\* masked by the failure it causes: a command whose group the handler took over
\* does not return before the signal was sent on (the gate of `terminating`).
NoStrandedGroup ==
    /\ ~alive => \A c \in Commands :
                   group[c] = "alive" =>
                     /\ sent >= 2
                     /\ \E g \in Generations : watcher[g] = "killing" /\ c \in doomed[g]
    /\ \A g \in Generations : watcher[g] \in {"killing", "resending"} =>
         \A c \in doomed[g] : pc[c] # "returned"

\* No termination signal is swallowed: without another subscriber the host
\* ends, even if no Terraform process ever does.
SignalEndsHost == sent > 0 /\ ~other ~> ~alive

\* If its groups end, every command returns, unless the host ends first.
CommandsReturn ==
    (\A c \in Commands : WF_pgvars(GroupEnds(c))) =>
      \A c \in Commands : pc[c] = "starting" ~> pc[c] = "returned" \/ ~alive

\* The lock, the gate and the done channels block nobody for ever, neither the
\* host a signal should end nor a command whose group has ended.
NobodyWaitsForEver == SignalEndsHost /\ CommandsReturn
=============================================================================

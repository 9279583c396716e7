------------------------ MODULE ExtensionHostProofs ------------------------
(* Theorems about the native extension host: leases, gates and the registry  *)
(* agree through every interleaving of dispatch threads, lifecycle calls,    *)
(* the UI and the shutdown, and the host implements the callback fence.      *)
EXTENDS ExtensionHost, ExtensionJobRuntimeProofs

-----------------------------------------------------------------------------
(* Types                                                                     *)

States == {"enabled", "disabling", "disabled", "restart"}
Operations == {"idle", "enabling", "disabling", "removing"}
Steps == {"idle", "leased", "prepared", "inside", "returned", "finished", "published", "gone"}
CallSteps == {"idle", "cancel", "leases", "port", "finish", "restore"}
Closing == {"cancel", "leases", "port", "finish"}

GateRecords ==
    [state : States, accepting : BOOLEAN, inFlight : Nat, epoch : Epochs, op : Operations]

CallRecords == [pc : CallSteps, todo : SUBSET Jobs, drained : BOOLEAN]

HostTypes ==
    /\ gate \in [Features -> GateRecords]
    /\ call \in [Features -> CallRecords]
    /\ lateRemove \subseteq Features /\ stopping \subseteq Features
    /\ phase \in {"running", "closing", "revoked", "stopped"}
    /\ step \in [Jobs -> Steps]
    /\ lease \subseteq Jobs /\ late \subseteq Jobs

SameGatesBut(f) == \A g \in Features : g # f => gate'[g] = gate[g]
SameCallsBut(f) == \A g \in Features : g # f => call'[g] = call[g]

-----------------------------------------------------------------------------
(* The invariant of the host                                                 *)

\* Where a dispatching thread stands says what its job holds.
ScopeOf(j) ==
    /\ step[j] = "idle" => j \notin lease
    /\ step[j] = "leased" => j \in lease
    /\ job[j].open => j \in lease
    /\ step[j] \in {"idle", "leased"} => ~job[j].open /\ \A t \in tombstones : t[1] # j
    /\ step[j] = "inside" <=> job[j].active

Scopes == \A j \in Jobs : ScopeOf(j)

\* A feature counts its leases, and all of them are of its present epoch.
LeasesOf(f) == {j \in lease : job[j].f = f}

LeasesIn(f) ==
    /\ gate[f].inFlight = Cardinality(LeasesOf(f))
    /\ \A j \in LeasesOf(f) : job[j].e = gate[f].epoch

\* The gate and the lifecycle call that works on it agree: a call that saw the
\* leases gone still finds them gone, whatever took its operation away.
GateIn(f) ==
    /\ gate[f].accepting => gate[f].state = "enabled"
    /\ gate[f].op = "enabling" =>
          /\ gate[f].state = "disabled" /\ call[f].pc = "restore"
          /\ gate[f].epoch < MaxEpoch
    /\ gate[f].op \in {"disabling", "removing"} =>
          gate[f].state = "disabling" /\ call[f].pc \in Closing
    /\ call[f].pc \in Closing => gate[f].state # "enabled"
    /\ (Running /\ call[f].pc \in Closing) => gate[f].state \in {"disabling", "restart"}
    /\ (call[f].pc \in {"port", "finish"} /\ call[f].drained) => gate[f].inFlight = 0
    /\ gate[f].state = "disabled" => gate[f].inFlight = 0
    /\ ~Running => gate[f].op = "idle"
    /\ f \in stopping => ~Running /\ gate[f].state = "disabling"

\* A current value of a running host belongs to the present epoch of a feature
\* that is enabled or about to be revoked, unless its job came late.
HiddenIn(f) ==
    Running => \A j \in Jobs : (job[j].f = f /\ <<j, 1>> \in live /\ j \notin late) =>
       /\ job[j].e = gate[f].epoch
       /\ gate[f].state \in {"enabled", "restart"} \/ call[f].pc = "cancel"

FeatureIn(f) == LeasesIn(f) /\ GateIn(f) /\ HiddenIn(f)

HostInv == RegistryInv /\ HostTypes /\ Scopes /\ \A f \in Features : FeatureIn(f)

-----------------------------------------------------------------------------
(* What each operation does to a gate and to its call                        *)

\* Closing a gate stops new leases.
LEMMA ClosedGate ==
    ASSUME gate \in [Features -> GateRecords], NEW f \in Features,
           NEW op \in {"disabling", "removing"}, CloseGate(f, op)
    PROVE  /\ gate' \in [Features -> GateRecords] /\ SameGatesBut(f)
           /\ gate'[f].state = "disabling" /\ ~gate'[f].accepting
           /\ gate'[f].inFlight = gate[f].inFlight
           /\ gate'[f].epoch = gate[f].epoch /\ gate'[f].op = op
<1> DEFINE old == gate[f]
           new == [old EXCEPT !.accepting = FALSE, !.state = "disabling", !.op = op]
<1>1. gate' = [gate EXCEPT ![f] = new]
  BY DEF CloseGate
<1>2. old \in GateRecords /\ old = gate[f]
  OBVIOUS
<1> HIDE DEF old
<1>5. new \in GateRecords
  BY <1>2 DEF GateRecords, States, Operations
<1>6. /\ new.state = "disabling" /\ ~new.accepting
      /\ new.inFlight = old.inFlight /\ new.epoch = old.epoch /\ new.op = op
  BY <1>2 DEF GateRecords
<1> HIDE DEF new
<1>7. gate'[f] = new /\ gate' \in [Features -> GateRecords] /\ SameGatesBut(f)
  BY <1>1, <1>5 DEF SameGatesBut
<1> QED
  BY <1>2, <1>6, <1>7

\* A late removal closes a gate that is open again.
LEMMA LateClosedGate ==
    ASSUME gate \in [Features -> GateRecords], NEW f \in Features,
           FinishRemoveResident(f), Running
    PROVE  /\ gate' \in [Features -> GateRecords] /\ SameGatesBut(f)
           /\ gate'[f].state = "restart" /\ ~gate'[f].accepting
           /\ gate'[f].inFlight = gate[f].inFlight
           /\ gate'[f].epoch = gate[f].epoch /\ gate'[f].op = "idle"
<1> DEFINE old == gate[f]
           new == [old EXCEPT !.accepting = FALSE, !.op = "idle", !.state = "restart"]
<1>1. gate' = [gate EXCEPT ![f] = new]
  BY DEF FinishRemoveResident
<1>2. old \in GateRecords /\ old = gate[f]
  OBVIOUS
<1> HIDE DEF old
<1>5. new \in GateRecords
  BY <1>2 DEF GateRecords, States, Operations
<1>6. /\ new.state = "restart" /\ ~new.accepting /\ new.inFlight = old.inFlight
      /\ new.epoch = old.epoch /\ new.op = "idle"
  BY <1>2 DEF GateRecords
<1> HIDE DEF new
<1>7. gate'[f] = new /\ gate' \in [Features -> GateRecords] /\ SameGatesBut(f)
  BY <1>1, <1>5 DEF SameGatesBut
<1> QED
  BY <1>2, <1>6, <1>7

\* Disabling ends closed or in need of a restart.
LEMMA DisabledGate ==
    ASSUME gate \in [Features -> GateRecords], NEW f \in Features, FinishDisable(f)
    PROVE  /\ gate' \in [Features -> GateRecords] /\ SameGatesBut(f)
           /\ gate'[f].state = IF call[f].drained THEN "disabled" ELSE "restart"
           /\ (gate'[f].accepting <=> gate[f].accepting)
           /\ gate'[f].inFlight = gate[f].inFlight
           /\ gate'[f].epoch = gate[f].epoch /\ gate'[f].op = "idle"
<1> DEFINE old == gate[f]
           now == IF call[f].drained THEN "disabled" ELSE "restart"
           new == [old EXCEPT !.op = "idle", !.state = now]
<1>1. gate' = [gate EXCEPT ![f] = new]
  BY DEF FinishDisable
<1>2. old \in GateRecords /\ old = gate[f]
  OBVIOUS
<1>3. now \in States
  BY DEF States
<1>4. now = IF call[f].drained THEN "disabled" ELSE "restart"
  OBVIOUS
<1> HIDE DEF old, now
<1>5. new \in GateRecords
  BY <1>2, <1>3 DEF GateRecords, States, Operations
<1>6. /\ new.state = now /\ (new.accepting <=> old.accepting)
      /\ new.inFlight = old.inFlight /\ new.epoch = old.epoch /\ new.op = "idle"
  BY <1>2, <1>3 DEF GateRecords
<1> HIDE DEF new
<1>7. gate'[f] = new /\ gate' \in [Features -> GateRecords] /\ SameGatesBut(f)
  BY <1>1, <1>5 DEF SameGatesBut
<1> QED
  BY <1>2, <1>4, <1>6, <1>7

\* Removing ends in need of a restart.
LEMMA RemovedGate ==
    ASSUME gate \in [Features -> GateRecords], NEW f \in Features, FinishRemove(f)
    PROVE  /\ gate' \in [Features -> GateRecords] /\ SameGatesBut(f)
           /\ gate'[f].state = "restart"
           /\ (gate'[f].accepting <=> gate[f].accepting)
           /\ gate'[f].inFlight = gate[f].inFlight
           /\ gate'[f].epoch = gate[f].epoch /\ gate'[f].op = "idle"
<1> DEFINE old == gate[f]
           new == [old EXCEPT !.op = "idle", !.state = "restart"]
<1>1. gate' = [gate EXCEPT ![f] = new]
  BY DEF FinishRemove
<1>2. old \in GateRecords /\ old = gate[f]
  OBVIOUS
<1> HIDE DEF old
<1>5. new \in GateRecords
  BY <1>2 DEF GateRecords, States, Operations
<1>6. /\ new.state = "restart" /\ (new.accepting <=> old.accepting)
      /\ new.inFlight = old.inFlight /\ new.epoch = old.epoch /\ new.op = "idle"
  BY <1>2 DEF GateRecords
<1> HIDE DEF new
<1>7. gate'[f] = new /\ gate' \in [Features -> GateRecords] /\ SameGatesBut(f)
  BY <1>1, <1>5 DEF SameGatesBut
<1> QED
  BY <1>2, <1>6, <1>7

\* Enabling takes the operation.
LEMMA EnablingGate ==
    ASSUME gate \in [Features -> GateRecords], NEW f \in Features, Enable(f)
    PROVE  /\ gate' \in [Features -> GateRecords] /\ SameGatesBut(f)
           /\ gate'[f].state = gate[f].state
           /\ (gate'[f].accepting <=> gate[f].accepting)
           /\ gate'[f].inFlight = gate[f].inFlight
           /\ gate'[f].epoch = gate[f].epoch /\ gate'[f].op = "enabling"
<1> DEFINE old == gate[f]
           new == [old EXCEPT !.op = "enabling"]
<1>1. gate' = [gate EXCEPT ![f] = new]
  BY DEF Enable
<1>2. old \in GateRecords /\ old = gate[f]
  OBVIOUS
<1> HIDE DEF old
<1>5. new \in GateRecords
  BY <1>2 DEF GateRecords, States, Operations
<1>6. /\ new.state = old.state /\ (new.accepting <=> old.accepting)
      /\ new.inFlight = old.inFlight /\ new.epoch = old.epoch
      /\ new.op = "enabling"
  BY <1>2 DEF GateRecords
<1> HIDE DEF new
<1>7. gate'[f] = new /\ gate' \in [Features -> GateRecords] /\ SameGatesBut(f)
  BY <1>1, <1>5 DEF SameGatesBut
<1> QED
  BY <1>2, <1>6, <1>7

\* An enabled gate is open, in a new epoch.
LEMMA EnabledGate ==
    ASSUME gate \in [Features -> GateRecords], NEW f \in Features, FinishEnable(f),
           gate[f].epoch < MaxEpoch
    PROVE  /\ gate' \in [Features -> GateRecords] /\ SameGatesBut(f)
           /\ gate'[f].state = "enabled" /\ gate'[f].accepting
           /\ gate'[f].inFlight = gate[f].inFlight
           /\ gate'[f].epoch = gate[f].epoch + 1 /\ gate'[f].op = "idle"
<1> DEFINE old == gate[f]
           next == old.epoch + 1
           new == [old EXCEPT !.op = "idle", !.state = "enabled", !.accepting = TRUE, !.epoch = next]
<1>1. gate' = [gate EXCEPT ![f] = new]
  BY DEF FinishEnable
<1>2. old \in GateRecords /\ old = gate[f]
  OBVIOUS
<1>3. next \in Epochs
  <2>1. old.epoch \in Epochs /\ old.epoch < MaxEpoch
    BY DEF GateRecords
  <2> QED
    BY <2>1, RuntimeAssumption DEF Epochs
<1>4. next = old.epoch + 1
  OBVIOUS
<1> HIDE DEF old, next
<1>5. new \in GateRecords
  BY <1>2, <1>3 DEF GateRecords, States, Operations
<1>6. /\ new.state = "enabled" /\ new.accepting /\ new.inFlight = old.inFlight
      /\ new.epoch = next /\ new.op = "idle"
  BY <1>2, <1>3 DEF GateRecords
<1> HIDE DEF new
<1>7. gate'[f] = new /\ gate' \in [Features -> GateRecords] /\ SameGatesBut(f)
  BY <1>1, <1>5 DEF SameGatesBut
<1> QED
  BY <1>2, <1>4, <1>6, <1>7

\* A shutdown that drained a feature leaves it disabled.
LEMMA DrainedGate ==
    ASSUME gate \in [Features -> GateRecords], NEW f \in Features, ShutdownDrained(f)
    PROVE  /\ gate' \in [Features -> GateRecords] /\ SameGatesBut(f)
           /\ gate'[f].state = "disabled"
           /\ (gate'[f].accepting <=> gate[f].accepting)
           /\ gate'[f].inFlight = gate[f].inFlight
           /\ gate'[f].epoch = gate[f].epoch /\ gate'[f].op = gate[f].op
<1> DEFINE old == gate[f]
           new == [old EXCEPT !.state = "disabled"]
<1>1. gate' = [gate EXCEPT ![f] = new]
  BY DEF ShutdownDrained
<1>2. old \in GateRecords /\ old = gate[f]
  OBVIOUS
<1> HIDE DEF old
<1>5. new \in GateRecords
  BY <1>2 DEF GateRecords, States, Operations
<1>6. /\ new.state = "disabled" /\ (new.accepting <=> old.accepting)
      /\ new.inFlight = old.inFlight /\ new.epoch = old.epoch /\ new.op = old.op
  BY <1>2 DEF GateRecords
<1> HIDE DEF new
<1>7. gate'[f] = new /\ gate' \in [Features -> GateRecords] /\ SameGatesBut(f)
  BY <1>1, <1>5 DEF SameGatesBut
<1> QED
  BY <1>2, <1>6, <1>7

\* A shutdown that did not leaves it in need of a restart.
LEMMA TimedOutGate ==
    ASSUME gate \in [Features -> GateRecords], NEW f \in Features, ShutdownTimesOut(f)
    PROVE  /\ gate' \in [Features -> GateRecords] /\ SameGatesBut(f)
           /\ gate'[f].state = "restart"
           /\ (gate'[f].accepting <=> gate[f].accepting)
           /\ gate'[f].inFlight = gate[f].inFlight
           /\ gate'[f].epoch = gate[f].epoch /\ gate'[f].op = gate[f].op
<1> DEFINE old == gate[f]
           new == [old EXCEPT !.state = "restart"]
<1>1. gate' = [gate EXCEPT ![f] = new]
  BY DEF ShutdownTimesOut
<1>2. old \in GateRecords /\ old = gate[f]
  OBVIOUS
<1> HIDE DEF old
<1>5. new \in GateRecords
  BY <1>2 DEF GateRecords, States, Operations
<1>6. /\ new.state = "restart" /\ (new.accepting <=> old.accepting)
      /\ new.inFlight = old.inFlight /\ new.epoch = old.epoch /\ new.op = old.op
  BY <1>2 DEF GateRecords
<1> HIDE DEF new
<1>7. gate'[f] = new /\ gate' \in [Features -> GateRecords] /\ SameGatesBut(f)
  BY <1>1, <1>5 DEF SameGatesBut
<1> QED
  BY <1>2, <1>6, <1>7

\* A dispatch takes a lease.
LEMMA LeasedGate ==
    ASSUME gate \in [Features -> GateRecords], NEW f \in Features, NEW j \in Jobs,
           TryEnter(j, f)
    PROVE  /\ gate' \in [Features -> GateRecords] /\ SameGatesBut(f)
           /\ gate'[f].state = gate[f].state
           /\ (gate'[f].accepting <=> gate[f].accepting)
           /\ gate'[f].inFlight = gate[f].inFlight + 1
           /\ gate'[f].epoch = gate[f].epoch /\ gate'[f].op = gate[f].op
<1> DEFINE old == gate[f]
           more == old.inFlight + 1
           new == [old EXCEPT !.inFlight = more]
<1>1. gate' = [gate EXCEPT ![f] = new]
  BY DEF TryEnter
<1>2. old \in GateRecords /\ old = gate[f]
  OBVIOUS
<1>3. more \in Nat
  <2>1. old.inFlight \in Nat
    BY DEF GateRecords
  <2> QED
    BY <2>1
<1>4. more = old.inFlight + 1
  OBVIOUS
<1> HIDE DEF old, more
<1>5. new \in GateRecords
  BY <1>2, <1>3 DEF GateRecords, States, Operations
<1>6. /\ new.state = old.state /\ (new.accepting <=> old.accepting)
      /\ new.inFlight = more /\ new.epoch = old.epoch /\ new.op = old.op
  BY <1>2, <1>3 DEF GateRecords
<1> HIDE DEF new
<1>7. gate'[f] = new /\ gate' \in [Features -> GateRecords] /\ SameGatesBut(f)
  BY <1>1, <1>5 DEF SameGatesBut
<1> QED
  BY <1>2, <1>4, <1>6, <1>7

\* A closing call starts with the revocation.
LEMMA ClosingCall ==
    ASSUME call \in [Features -> CallRecords], NEW f \in Features,
           NEW op \in {"disabling", "removing"}, CloseGate(f, op)
    PROVE  /\ call' \in [Features -> CallRecords] /\ SameCallsBut(f)
           /\ call'[f].pc = "cancel" /\ call'[f].todo = {} /\ call'[f].drained
<1> DEFINE old == call[f]
           new == [NoCall EXCEPT !.pc = "cancel"]
<1>1. call' = [call EXCEPT ![f] = new]
  BY DEF CloseGate
<1>2. old \in CallRecords /\ old = call[f]
  OBVIOUS
<1> HIDE DEF old
<1>5. new \in CallRecords
  BY <1>2 DEF CallRecords, CallSteps, NoCall
<1>6. /\ new.pc = "cancel" /\ new.todo = {} /\ new.drained
  BY <1>2 DEF CallRecords, NoCall
<1> HIDE DEF new
<1>7. call'[f] = new /\ call' \in [Features -> CallRecords] /\ SameCallsBut(f)
  BY <1>1, <1>5 DEF SameCallsBut
<1> QED
  BY <1>2, <1>6, <1>7

\* An enabling call starts with the restore.
LEMMA EnablingCall ==
    ASSUME call \in [Features -> CallRecords], NEW f \in Features, Enable(f)
    PROVE  /\ call' \in [Features -> CallRecords] /\ SameCallsBut(f)
           /\ call'[f].pc = "restore" /\ call'[f].todo = {} /\ call'[f].drained
<1> DEFINE old == call[f]
           new == [NoCall EXCEPT !.pc = "restore"]
<1>1. call' = [call EXCEPT ![f] = new]
  BY DEF Enable
<1>2. old \in CallRecords /\ old = call[f]
  OBVIOUS
<1> HIDE DEF old
<1>5. new \in CallRecords
  BY <1>2 DEF CallRecords, CallSteps, NoCall
<1>6. /\ new.pc = "restore" /\ new.todo = {} /\ new.drained
  BY <1>2 DEF CallRecords, NoCall
<1> HIDE DEF new
<1>7. call'[f] = new /\ call' \in [Features -> CallRecords] /\ SameCallsBut(f)
  BY <1>1, <1>5 DEF SameCallsBut
<1> QED
  BY <1>2, <1>6, <1>7

\* A disable is over.
LEMMA DisabledCall ==
    ASSUME call \in [Features -> CallRecords], NEW f \in Features, FinishDisable(f)
    PROVE  /\ call' \in [Features -> CallRecords] /\ SameCallsBut(f)
           /\ call'[f].pc = "idle" /\ call'[f].todo = {} /\ call'[f].drained
<1> DEFINE old == call[f]
           new == NoCall
<1>1. call' = [call EXCEPT ![f] = new]
  BY DEF FinishDisable
<1>2. old \in CallRecords /\ old = call[f]
  OBVIOUS
<1> HIDE DEF old
<1>5. new \in CallRecords
  BY <1>2 DEF CallRecords, CallSteps, NoCall
<1>6. /\ new.pc = "idle" /\ new.todo = {} /\ new.drained
  BY <1>2 DEF CallRecords, NoCall
<1> HIDE DEF new
<1>7. call'[f] = new /\ call' \in [Features -> CallRecords] /\ SameCallsBut(f)
  BY <1>1, <1>5 DEF SameCallsBut
<1> QED
  BY <1>2, <1>6, <1>7

\* A removal is over.
LEMMA RemovedCall ==
    ASSUME call \in [Features -> CallRecords], NEW f \in Features, FinishRemove(f)
    PROVE  /\ call' \in [Features -> CallRecords] /\ SameCallsBut(f)
           /\ call'[f].pc = "idle" /\ call'[f].todo = {} /\ call'[f].drained
<1> DEFINE old == call[f]
           new == NoCall
<1>1. call' = [call EXCEPT ![f] = new]
  BY DEF FinishRemove
<1>2. old \in CallRecords /\ old = call[f]
  OBVIOUS
<1> HIDE DEF old
<1>5. new \in CallRecords
  BY <1>2 DEF CallRecords, CallSteps, NoCall
<1>6. /\ new.pc = "idle" /\ new.todo = {} /\ new.drained
  BY <1>2 DEF CallRecords, NoCall
<1> HIDE DEF new
<1>7. call'[f] = new /\ call' \in [Features -> CallRecords] /\ SameCallsBut(f)
  BY <1>1, <1>5 DEF SameCallsBut
<1> QED
  BY <1>2, <1>6, <1>7

\* An enable is over.
LEMMA EnabledCall ==
    ASSUME call \in [Features -> CallRecords], NEW f \in Features, FinishEnable(f)
    PROVE  /\ call' \in [Features -> CallRecords] /\ SameCallsBut(f)
           /\ call'[f].pc = "idle" /\ call'[f].todo = {} /\ call'[f].drained
<1> DEFINE old == call[f]
           new == NoCall
<1>1. call' = [call EXCEPT ![f] = new]
  BY DEF FinishEnable
<1>2. old \in CallRecords /\ old = call[f]
  OBVIOUS
<1> HIDE DEF old
<1>5. new \in CallRecords
  BY <1>2 DEF CallRecords, CallSteps, NoCall
<1>6. /\ new.pc = "idle" /\ new.todo = {} /\ new.drained
  BY <1>2 DEF CallRecords, NoCall
<1> HIDE DEF new
<1>7. call'[f] = new /\ call' \in [Features -> CallRecords] /\ SameCallsBut(f)
  BY <1>1, <1>5 DEF SameCallsBut
<1> QED
  BY <1>2, <1>6, <1>7

\* A call without its operation gives up.
LEMMA SupersededCall ==
    ASSUME call \in [Features -> CallRecords], NEW f \in Features, Superseded(f)
    PROVE  /\ call' \in [Features -> CallRecords] /\ SameCallsBut(f)
           /\ call'[f].pc = "idle" /\ call'[f].todo = {} /\ call'[f].drained
<1> DEFINE old == call[f]
           new == NoCall
<1>1. call' = [call EXCEPT ![f] = new]
  BY DEF Superseded
<1>2. old \in CallRecords /\ old = call[f]
  OBVIOUS
<1> HIDE DEF old
<1>5. new \in CallRecords
  BY <1>2 DEF CallRecords, CallSteps, NoCall
<1>6. /\ new.pc = "idle" /\ new.todo = {} /\ new.drained
  BY <1>2 DEF CallRecords, NoCall
<1> HIDE DEF new
<1>7. call'[f] = new /\ call' \in [Features -> CallRecords] /\ SameCallsBut(f)
  BY <1>1, <1>5 DEF SameCallsBut
<1> QED
  BY <1>2, <1>6, <1>7

\* After the revocation the call waits for the leases.
LEMMA CancelledCall ==
    ASSUME call \in [Features -> CallRecords], NEW f \in Features, CancelScope(f)
    PROVE  /\ call' \in [Features -> CallRecords] /\ SameCallsBut(f)
           /\ call'[f].pc = "leases"
           /\ call'[f].todo = {j \in Jobs : job'[j].open /\ ~job'[j].active
                                /\ job'[j].terminal # "none" /\ Key(j) = <<f, gate[f].epoch>>}
           /\ (call'[f].drained <=> call[f].drained)
<1> DEFINE old == call[f]
           left == {j \in Jobs : job'[j].open /\ ~job'[j].active
                                /\ job'[j].terminal # "none" /\ Key(j) = <<f, gate[f].epoch>>}
           new == [old EXCEPT !.pc = "leases", !.todo = left]
<1>1. call' = [call EXCEPT ![f] = new]
  BY DEF CancelScope
<1>2. old \in CallRecords /\ old = call[f]
  OBVIOUS
<1>3. left \in SUBSET Jobs
  OBVIOUS
<1>4. left = {j \in Jobs : job'[j].open /\ ~job'[j].active
                                /\ job'[j].terminal # "none" /\ Key(j) = <<f, gate[f].epoch>>}
  OBVIOUS
<1> HIDE DEF old, left
<1>5. new \in CallRecords
  BY <1>2, <1>3 DEF CallRecords, CallSteps
<1>6. /\ new.pc = "leases" /\ new.todo = left /\ (new.drained <=> old.drained)
  BY <1>2, <1>3 DEF CallRecords
<1> HIDE DEF new
<1>7. call'[f] = new /\ call' \in [Features -> CallRecords] /\ SameCallsBut(f)
  BY <1>1, <1>5 DEF SameCallsBut
<1> QED
  BY <1>2, <1>4, <1>6, <1>7

\* The call retires the jobs it found.
LEMMA RetiringCall ==
    ASSUME call \in [Features -> CallRecords], NEW f \in Features, NEW j \in Jobs,
           CancelRetires(f, j)
    PROVE  /\ call' \in [Features -> CallRecords] /\ SameCallsBut(f)
           /\ call'[f].pc = call[f].pc /\ call'[f].todo = call[f].todo \ {j}
           /\ (call'[f].drained <=> call[f].drained)
<1> DEFINE old == call[f]
           left == old.todo \ {j}
           new == [old EXCEPT !.todo = left]
<1>1. call' = [call EXCEPT ![f] = new]
  BY DEF CancelRetires
<1>2. old \in CallRecords /\ old = call[f]
  OBVIOUS
<1>3. left \in SUBSET Jobs
  <2>1. old.todo \in SUBSET Jobs
    BY DEF CallRecords
  <2> QED
    BY <2>1
<1>4. left = old.todo \ {j}
  OBVIOUS
<1> HIDE DEF old, left
<1>5. new \in CallRecords
  BY <1>2, <1>3 DEF CallRecords, CallSteps
<1>6. /\ new.pc = old.pc /\ new.todo = left /\ (new.drained <=> old.drained)
  BY <1>2, <1>3 DEF CallRecords
<1> HIDE DEF new
<1>7. call'[f] = new /\ call' \in [Features -> CallRecords] /\ SameCallsBut(f)
  BY <1>1, <1>5 DEF SameCallsBut
<1> QED
  BY <1>2, <1>4, <1>6, <1>7

\* No lease was left.
LEMMA WaitedCall ==
    ASSUME call \in [Features -> CallRecords], NEW f \in Features, WaitLeases(f)
    PROVE  /\ call' \in [Features -> CallRecords] /\ SameCallsBut(f)
           /\ call'[f].pc = "port" /\ call'[f].todo = call[f].todo
           /\ (call'[f].drained <=> call[f].drained)
<1> DEFINE old == call[f]
           new == [old EXCEPT !.pc = "port"]
<1>1. call' = [call EXCEPT ![f] = new]
  BY DEF WaitLeases
<1>2. old \in CallRecords /\ old = call[f]
  OBVIOUS
<1> HIDE DEF old
<1>5. new \in CallRecords
  BY <1>2 DEF CallRecords, CallSteps
<1>6. /\ new.pc = "port" /\ new.todo = old.todo /\ (new.drained <=> old.drained)
  BY <1>2 DEF CallRecords
<1> HIDE DEF new
<1>7. call'[f] = new /\ call' \in [Features -> CallRecords] /\ SameCallsBut(f)
  BY <1>1, <1>5 DEF SameCallsBut
<1> QED
  BY <1>2, <1>6, <1>7

\* Some lease was left.
LEMMA TimedOutCall ==
    ASSUME call \in [Features -> CallRecords], NEW f \in Features, LeasesTimeOut(f)
    PROVE  /\ call' \in [Features -> CallRecords] /\ SameCallsBut(f)
           /\ call'[f].pc = "port" /\ call'[f].todo = call[f].todo
           /\ ~call'[f].drained
<1> DEFINE old == call[f]
           new == [old EXCEPT !.pc = "port", !.drained = FALSE]
<1>1. call' = [call EXCEPT ![f] = new]
  BY DEF LeasesTimeOut
<1>2. old \in CallRecords /\ old = call[f]
  OBVIOUS
<1> HIDE DEF old
<1>5. new \in CallRecords
  BY <1>2 DEF CallRecords, CallSteps
<1>6. /\ new.pc = "port" /\ new.todo = old.todo /\ ~new.drained
  BY <1>2 DEF CallRecords
<1> HIDE DEF new
<1>7. call'[f] = new /\ call' \in [Features -> CallRecords] /\ SameCallsBut(f)
  BY <1>1, <1>5 DEF SameCallsBut
<1> QED
  BY <1>2, <1>6, <1>7

\* The callbacks are asked for once more.
LEMMA PortCall ==
    ASSUME call \in [Features -> CallRecords], NEW f \in Features, WaitPort(f)
    PROVE  /\ call' \in [Features -> CallRecords] /\ SameCallsBut(f)
           /\ call'[f].pc = "finish" /\ call'[f].todo = call[f].todo
           /\ (call'[f].drained <=>
                 (call[f].drained /\ \A j \in Jobs : Key(j) = <<f, gate[f].epoch>> => ~job[j].active))
<1> DEFINE old == call[f]
           both == (old.drained /\ \A j \in Jobs : Key(j) = <<f, gate[f].epoch>> => ~job[j].active)
           new == [old EXCEPT !.pc = "finish", !.drained = both]
<1>1. call' = [call EXCEPT ![f] = new]
  BY DEF WaitPort
<1>2. old \in CallRecords /\ old = call[f]
  OBVIOUS
<1>3. both \in BOOLEAN
  BY DEF CallRecords
<1>4. both = (old.drained /\ \A j \in Jobs : Key(j) = <<f, gate[f].epoch>> => ~job[j].active)
  OBVIOUS
<1> HIDE DEF old, both
<1>5. new \in CallRecords
  BY <1>2, <1>3 DEF CallRecords, CallSteps
<1>6. /\ new.pc = "finish" /\ new.todo = old.todo /\ (new.drained <=> both)
  BY <1>2, <1>3 DEF CallRecords
<1> HIDE DEF new
<1>7. call'[f] = new /\ call' \in [Features -> CallRecords] /\ SameCallsBut(f)
  BY <1>1, <1>5 DEF SameCallsBut
<1> QED
  BY <1>2, <1>4, <1>6, <1>7

-----------------------------------------------------------------------------
(* What a step leaves alone                                                  *)

\* A feature keeps its invariant when a step leaves its gate, its call, its
\* leases and its current values alone.
LEMMA FeatureFrame ==
    ASSUME NEW g \in Features, FeatureIn(g), gate'[g] = gate[g],
           call'[g].pc = call[g].pc, call'[g].drained <=> call[g].drained,
           LeasesOf(g)' = LeasesOf(g), \A j \in LeasesOf(g) : job'[j].e = job[j].e,
           Running' <=> Running, g \in stopping' => g \in stopping,
           \A j \in Jobs : (job'[j].f = g /\ <<j, 1>> \in live' /\ j \notin late') =>
              job[j].f = g /\ <<j, 1>> \in live /\ j \notin late /\ job'[j].e = job[j].e
    PROVE  FeatureIn(g)'
<1>1. LeasesIn(g)'
  BY DEF FeatureIn, LeasesIn
<1>2. GateIn(g)'
  BY DEF FeatureIn, GateIn
<1>3. HiddenIn(g)'
  BY DEF FeatureIn, HiddenIn
<1> QED
  BY <1>1, <1>2, <1>3 DEF FeatureIn

\* A calm step of the registry keeps every feature's invariant.
LEMMA CalmFeatures ==
    ASSUME HostInv, Calm, NEW g \in Features, gate'[g] = gate[g],
           call'[g].pc = call[g].pc, call'[g].drained <=> call[g].drained,
           lease' = lease, late \subseteq late',
           Running' <=> Running, g \in stopping' => g \in stopping
    PROVE  FeatureIn(g)'
<1>1. FeatureIn(g) /\ lease \subseteq Jobs
  BY DEF HostInv, HostTypes
<1>2. \A j \in Jobs : job'[j].f = job[j].f /\ job'[j].e = job[j].e
                      /\ (<<j, 1>> \in live' => <<j, 1>> \in live)
  BY DEF Calm, CalmFor, SameKey
<1>3. LeasesOf(g)' = LeasesOf(g) /\ LeasesOf(g) \subseteq Jobs
  BY <1>1, <1>2 DEF LeasesOf
<1>4. \A j \in LeasesOf(g) : job'[j].e = job[j].e
  BY <1>2, <1>3
<1>5. \A j \in Jobs : (job'[j].f = g /\ <<j, 1>> \in live' /\ j \notin late') =>
         job[j].f = g /\ <<j, 1>> \in live /\ j \notin late /\ job'[j].e = job[j].e
  BY <1>2
<1> QED
  BY <1>1, <1>3, <1>4, <1>5, FeatureFrame

\* The steps of a thread between its callback and its end.
Settled == {"prepared", "returned", "finished", "published", "gone"}

LEMMA CalmScopes ==
    ASSUME HostInv, Calm, lease' = lease,
           \A k \in Jobs : \/ step'[k] = step[k]
                           \/ step'[k] \in Settled /\ step[k] \in Settled \cup {"leased"}
    PROVE  Scopes'
<1>1. ASSUME NEW k \in Jobs
      PROVE  ScopeOf(k)'
  <2>1. ScopeOf(k)
    BY DEF HostInv, Scopes
  <2>2. (job'[k].open => job[k].open) /\ (job'[k].active <=> job[k].active)
    BY DEF Calm, CalmFor
  <2>3. (\A t \in tombstones : t[1] # k) /\ ~job[k].open => \A t \in tombstones' : t[1] # k
    BY DEF Calm
  <2>4. CASE step'[k] = step[k]
    BY <2>1, <2>2, <2>3, <2>4 DEF ScopeOf
  <2>5. CASE step'[k] \in Settled /\ step[k] \in Settled \cup {"leased"}
    <3>1. step'[k] \notin {"idle", "leased", "inside"} /\ step[k] # "inside"
      BY <2>5 DEF Settled
    <3> QED
      BY <2>1, <2>2, <3>1 DEF ScopeOf
  <2> QED
    BY <2>4, <2>5
<1> QED
  BY <1>1 DEF Scopes

\* One thread moves.
LEMMA Moved ==
    ASSUME HostTypes, NEW j \in Jobs, NEW s \in Steps, step' = [step EXCEPT ![j] = s]
    PROVE  step' \in [Jobs -> Steps] /\ step'[j] = s
      /\ \A k \in Jobs : k # j => step'[k] = step[k]
  BY DEF HostTypes

\* A calm step of a thread that is past its callback, or that never enters it.
LEMMA CalmMove ==
    ASSUME HostInv, RegistryInv', Calm, NEW j \in Jobs, NEW s \in Settled,
           step[j] \in Settled \cup {"leased"}, step' = [step EXCEPT ![j] = s],
           UNCHANGED <<gate, call, lateRemove, phase, stopping, lease, late>>
    PROVE  HostInv'
<1>1. HostTypes /\ s \in Steps
  BY DEF HostInv, Settled, Steps
<1>2. step' \in [Jobs -> Steps] /\ step'[j] = s
      /\ \A k \in Jobs : k # j => step'[k] = step[k]
  BY <1>1, Moved
<1>3. \A k \in Jobs : \/ step'[k] = step[k]
                      \/ step'[k] \in Settled /\ step[k] \in Settled \cup {"leased"}
  BY <1>2
<1>4. HostTypes'
  BY <1>1, <1>2 DEF HostTypes
<1>5. Scopes'
  BY <1>3, CalmScopes
<1>6. \A g \in Features : FeatureIn(g)'
  BY CalmFeatures DEF Running
<1> QED
  BY <1>4, <1>5, <1>6 DEF HostInv

\* A calm step that no thread and no lifecycle call takes.
LEMMA CalmStand ==
    ASSUME HostInv, RegistryInv', Calm,
           UNCHANGED <<gate, call, lateRemove, phase, stopping, step, lease, late>>
    PROVE  HostInv'
<1>1. HostTypes'
  BY DEF HostInv, HostTypes
<1>2. Scopes'
  BY CalmScopes
<1>3. \A g \in Features : FeatureIn(g)'
  BY CalmFeatures DEF Running
<1> QED
  BY <1>1, <1>2, <1>3 DEF HostInv

\* The features a behaviour uses are features.
LEMMA SetupFeatures ==
    ASSUME HostInv, NEW f \in setup.features
    PROVE  f \in Features
  BY RuntimeAssumption DEF HostInv, RegistryInv, RegistryTypes

\* A step that leaves the registry alone leaves its invariant alone.
LEMMA RegistryStutter ==
    ASSUME HostInv, UNCHANGED rtVars
    PROVE  RegistryInv' /\ Calm
<1>1. RegistryInv'
  BY DEF rtVars, HostInv, RegistryInv, RegistryTypes, Dormant, Credits, Values, Contents,
     Signalled, OpenJobs, QueuedIn, QueuedOf, Key, Token, Pending, UiCurrent, Told,
     RescanDue, RescanTaken
<1> QED
  BY <1>1, CalmStutter

-----------------------------------------------------------------------------
(* The steps of a dispatching thread                                         *)

LEMMA PrepareRefusedStep ==
    ASSUME HostInv, NEW j \in Jobs, PrepareRefused(j)
    PROVE  HostInv' /\ Calm
<1>1. /\ UNCHANGED <<rtVars, gate, call, lateRemove, phase, stopping, lease, late>>
      /\ step[j] \in Settled \cup {"leased"} /\ step' = [step EXCEPT ![j] = "gone"]
      /\ "gone" \in Settled
  BY DEF PrepareRefused, Settled
<1> QED
  BY <1>1, RegistryStutter, CalmMove

LEMMA CallRefusedStep ==
    ASSUME HostInv, NEW j \in Jobs, CallRefused(j)
    PROVE  HostInv' /\ Calm
<1>1. /\ UNCHANGED <<gate, call, lateRemove, phase, stopping, lease, late>>
      /\ step[j] \in Settled /\ step' = [step EXCEPT ![j] = "published"]
      /\ "published" \in Settled /\ FailClose(j, "incompatible")
  BY DEF CallRefused, Settled
<1>2. RegistryInv' /\ Calm
  BY <1>1, FailCloseKeeps, FailCloseCalm DEF HostInv
<1> QED
  BY <1>1, <1>2, CalmMove

LEMMA AbandonStep ==
    ASSUME HostInv, NEW j \in Jobs, Abandon(j)
    PROVE  HostInv' /\ Calm
<1>1. /\ UNCHANGED <<gate, call, lateRemove, phase, stopping, lease, late>>
      /\ step[j] \in Settled /\ step' = [step EXCEPT ![j] = "published"]
      /\ "published" \in Settled /\ FailClose(j, "cancelled")
  BY DEF Abandon, Settled
<1>2. RegistryInv' /\ Calm
  BY <1>1, FailCloseKeeps, FailCloseCalm DEF HostInv
<1> QED
  BY <1>1, <1>2, CalmMove

LEMMA MarkerClearFailsStep ==
    ASSUME HostInv, NEW j \in Jobs, MarkerClearFails(j)
    PROVE  HostInv' /\ Calm
<1>1. /\ UNCHANGED <<gate, call, lateRemove, phase, stopping, lease, late>>
      /\ step[j] \in Settled /\ step' = [step EXCEPT ![j] = "published"]
      /\ "published" \in Settled /\ FailClose(j, "incompatible")
  BY DEF MarkerClearFails, Settled
<1>2. RegistryInv' /\ Calm
  BY <1>1, FailCloseKeeps, FailCloseCalm DEF HostInv
<1> QED
  BY <1>1, <1>2, CalmMove

LEMMA PublishTerminalStep ==
    ASSUME HostInv, NEW j \in Jobs, PublishTerminal(j)
    PROVE  HostInv' /\ Calm
<1>1. /\ UNCHANGED <<gate, call, lateRemove, phase, stopping, lease, late>>
      /\ step[j] \in Settled /\ step' = [step EXCEPT ![j] = "finished"]
      /\ "finished" \in Settled
  BY DEF PublishTerminal, Settled
<1>2. PICK reported \in {"completed", "panicked"} : FinishJob(j, reported)
  BY DEF PublishTerminal
<1>3. RegistryInv' /\ Calm
  BY <1>2, FinishJobKeeps, FinishJobCalm DEF HostInv
<1> QED
  BY <1>1, <1>3, CalmMove

LEMMA PublishAuthorizedStep ==
    ASSUME HostInv, NEW j \in Jobs, PublishAuthorized(j)
    PROVE  HostInv' /\ Calm
<1>1. /\ UNCHANGED <<gate, call, lateRemove, phase, stopping, lease, late>>
      /\ step[j] \in Settled /\ step' = [step EXCEPT ![j] = "published"]
      /\ "published" \in Settled /\ AuthorizeRetirement(j)
  BY DEF PublishAuthorized, Settled
<1>2. RegistryInv' /\ Calm
  BY <1>1, AuthorizeRetirementKeeps, AuthorizeRetirementCalm DEF HostInv
<1> QED
  BY <1>1, <1>2, CalmMove

LEMMA TicketDropStep ==
    ASSUME HostInv, NEW j \in Jobs, TicketDrop(j)
    PROVE  HostInv' /\ Calm
<1>1. /\ UNCHANGED <<gate, call, lateRemove, phase, stopping, lease, late>>
      /\ step[j] \in Settled /\ step' = [step EXCEPT ![j] = "gone"]
      /\ "gone" \in Settled /\ (Retire(j) \/ UNCHANGED rtVars)
  BY DEF TicketDrop, Settled
<1>2. RegistryInv' /\ Calm
  BY <1>1, RetireKeeps, RetireCalm, RegistryStutter DEF HostInv
<1> QED
  BY <1>1, <1>2, CalmMove

LEMMA HostRetiresStep ==
    ASSUME HostInv, NEW j \in Jobs, HostRetires(j)
    PROVE  HostInv' /\ Calm
<1>1. /\ UNCHANGED <<gate, call, lateRemove, phase, stopping, step, lease, late>>
      /\ Retire(j)
  BY DEF HostRetires
<1>2. RegistryInv' /\ Calm
  BY <1>1, RetireKeeps, RetireCalm DEF HostInv
<1> QED
  BY <1>1, <1>2, CalmStand

LEMMA PluginSubmitsStep ==
    ASSUME HostInv, NEW j \in Jobs, PluginSubmits(j)
    PROVE  HostInv' /\ Calm
<1>1. /\ UNCHANGED <<gate, call, lateRemove, phase, stopping, step, lease, late>>
      /\ Submit(j)
  BY DEF PluginSubmits, hostVars
<1>2. RegistryInv' /\ Calm
  BY <1>1, SubmitKeeps, SubmitCalm DEF HostInv
<1> QED
  BY <1>1, <1>2, CalmStand

LEMMA PluginMisbehavesStep ==
    ASSUME HostInv, NEW j \in Jobs, PluginMisbehaves(j)
    PROVE  HostInv' /\ Calm
<1>1. /\ UNCHANGED <<gate, call, lateRemove, phase, stopping, step, lease, late>>
      /\ SubmitMalformed(j)
  BY DEF PluginMisbehaves
<1>2. RegistryInv' /\ Calm
  BY <1>1, SubmitMalformedKeeps, SubmitMalformedCalm DEF HostInv
<1> QED
  BY <1>1, <1>2, CalmStand

\* A request of the UI: the view moves on, the source is replaced, the job's
\* batches are purged or it is cancelled.
LEMMA UiRequestStep ==
    ASSUME HostInv, NEW j \in Jobs, UiRequest(j)
    PROVE  HostInv' /\ Calm
<1>1. UNCHANGED <<gate, call, lateRemove, phase, stopping, step, lease, late>>
  BY DEF UiRequest
<1>2. RegistryInv' /\ Calm
  <2>1. CASE AdvanceGeneration(j)
    BY <2>1, AdvanceGenerationKeeps, AdvanceGenerationCalm DEF HostInv
  <2>2. CASE ReplaceSource(j)
    BY <2>2, ReplaceSourceKeeps, ReplaceSourceCalm DEF HostInv
  <2>3. CASE Purge(j)
    BY <2>3, PurgeKeeps, PurgeCalm DEF HostInv
  <2>4. CASE RequestControl(j, "cancelled")
    BY <2>4, RequestControlKeeps, RequestControlCalm DEF HostInv
  <2>5. CASE RequestControl(j, "deadline")
    BY <2>5, RequestControlKeeps, RequestControlCalm DEF HostInv
  <2> QED
    BY <2>1, <2>2, <2>3, <2>4, <2>5 DEF UiRequest
<1> QED
  BY <1>1, <1>2, CalmStand

LEMMA UiStepStep ==
    ASSUME HostInv, UiStep
    PROVE  HostInv' /\ Calm
<1>1. UNCHANGED <<gate, call, lateRemove, phase, stopping, step, lease, late>>
  BY DEF UiStep, hostVars
<1>2. RegistryInv' /\ Calm
  <2>1. ASSUME NEW s \in Tokens, Signal(s)
        PROVE  RegistryInv' /\ Calm
    <3>1. UNCHANGED <<job, live, tombstones>>
      BY <2>1 DEF Signal
    <3> QED
      BY <2>1, <3>1, SignalKeeps, ViewCalm DEF HostInv
  <2>2. ASSUME NEW s \in Tokens, Drain(s)
        PROVE  RegistryInv' /\ Calm
    BY <2>2, DrainKeeps, DrainCalm DEF HostInv
  <2>3. ASSUME NEW s \in Tokens, DrainNothing(s)
        PROVE  RegistryInv' /\ Calm
    <3>1. UNCHANGED <<job, live, tombstones>>
      BY <2>3 DEF DrainNothing
    <3> QED
      BY <2>3, <3>1, DrainNothingKeeps, ViewCalm DEF HostInv
  <2>4. CASE TakeReady
    <3>1. UNCHANGED <<job, live, tombstones>>
      BY <2>4 DEF TakeReady
    <3> QED
      BY <2>4, <3>1, TakeReadyKeeps, ViewCalm DEF HostInv
  <2>5. CASE Rescan
    <3>1. UNCHANGED <<job, live, tombstones>>
      BY <2>5 DEF Rescan
    <3> QED
      BY <2>5, <3>1, RescanKeeps, ViewCalm DEF HostInv
  <2>6. CASE AcknowledgeRescan
    <3>1. UNCHANGED <<job, live, tombstones>>
      BY <2>6 DEF AcknowledgeRescan
    <3> QED
      BY <2>6, <3>1, AcknowledgeRescanKeeps, ViewCalm DEF HostInv
  <2>7. ASSUME NEW b \in ui.held, Apply(b)
        PROVE  RegistryInv' /\ Calm
    <3>1. UNCHANGED <<job, live, tombstones>>
      BY <2>7 DEF Apply
    <3> QED
      BY <2>7, <3>1, ApplyKeeps, ViewCalm DEF HostInv
  <2>8. ASSUME NEW b \in ui.held, ApplyRefused(b)
        PROVE  RegistryInv' /\ Calm
    <3>1. UNCHANGED <<job, live, tombstones>>
      BY <2>8 DEF ApplyRefused
    <3> QED
      BY <2>8, <3>1, ApplyRefusedKeeps, ViewCalm DEF HostInv
  <2> QED
    BY <2>1, <2>2, <2>3, <2>4, <2>5, <2>6, <2>7, <2>8 DEF UiStep, MailStep
<1> QED
  BY <1>1, <1>2, CalmStand

Final == \A k \in Jobs : FinalKept(k)

LEMMA CalmFinal == Calm => Final
  BY DEF Calm, CalmFor, Final

\* The new job is opened under the lease of its thread; if its feature was
\* closed meanwhile it counts as late.
LEMMA PrepareStep ==
    ASSUME HostInv, NEW j \in Jobs, Prepare(j)
    PROVE  HostInv' /\ Final /\ \A k \in Jobs : SameKey(k)
<1>1. /\ UNCHANGED <<gate, call, lateRemove, phase, stopping, lease>>
      /\ step[j] = "leased" /\ step' = [step EXCEPT ![j] = "prepared"] /\ OpenJob(j)
      /\ late' = IF gate[job[j].f].state = "enabled" \/ call[job[j].f].pc = "cancel"
                 THEN late ELSE late \cup {j}
  BY DEF Prepare
<1>2. HostTypes /\ RegistryInv /\ job \in [Jobs -> JobRecords]
  BY DEF HostInv, RegistryInv, RegistryTypes
<1>3. step' \in [Jobs -> Steps] /\ step'[j] = "prepared"
      /\ \A k \in Jobs : k # j => step'[k] = step[k]
  BY <1>1, <1>2, Moved DEF Steps
<1>4. j \in lease /\ ~job[j].open /\ ~job[j].active
  BY <1>1 DEF HostInv, Scopes, ScopeOf
<1>5. RegistryInv'
  BY <1>1, <1>2, <1>4, OpenJobKeeps
<1>6. /\ SameJobsBut(j) /\ SameKey(j) /\ SameState(j)
      /\ (job'[j].active <=> job[j].active) /\ job'[j].open
  BY <1>1, <1>2, OpenedJob
<1>7. \A k \in Jobs : SameKey(k) /\ (k # j => job'[k] = job[k])
  BY <1>6 DEF SameJobsBut, SameKey
<1>8. /\ \A t \in tombstones' : t \in tombstones \/ t[1] = j
      /\ \A t \in live' : t \in live \/ t[1] = j
  BY <1>1 DEF OpenJob, Remember, Token
<1>9. Final
  <2>1. ASSUME NEW k \in Jobs
        PROVE  FinalKept(k)
    <3>1. CASE k = j
      BY <1>4, <1>6, <3>1 DEF FinalKept, Retirable, SameState
    <3>2. CASE k # j
      BY <1>7, <3>2, FinalSame
    <3> QED
      BY <3>1, <3>2
  <2> QED
    BY <2>1 DEF Final
<1>10. HostTypes'
  <2>1. late' \subseteq Jobs
    BY <1>1, <1>2 DEF HostTypes
  <2> QED
    BY <1>1, <1>2, <1>3, <2>1 DEF HostTypes
<1>11. Scopes'
  <2>1. ASSUME NEW k \in Jobs
        PROVE  ScopeOf(k)'
    <3>1. ScopeOf(k)
      BY DEF HostInv, Scopes
    <3>2. CASE k = j
      BY <1>1, <1>3, <1>4, <1>6, <3>2 DEF ScopeOf
    <3>3. CASE k # j
      BY <1>1, <1>3, <1>7, <1>8, <3>1, <3>3 DEF ScopeOf
    <3> QED
      BY <3>2, <3>3
  <2> QED
    BY <2>1 DEF Scopes
<1>12. ASSUME NEW g \in Features
       PROVE  FeatureIn(g)'
  <2>1. FeatureIn(g) /\ lease \subseteq Jobs
    BY <1>2 DEF HostInv, HostTypes
  <2>2. LeasesOf(g)' = LeasesOf(g) /\ LeasesOf(g) \subseteq Jobs
    BY <1>1, <1>7, <2>1 DEF LeasesOf, SameKey
  <2>3. LeasesIn(g)'
    BY <1>1, <1>7, <2>1, <2>2 DEF FeatureIn, LeasesIn, SameKey
  <2>4. GateIn(g)'
    BY <1>1, <2>1 DEF FeatureIn, GateIn, Running
  <2>5. ASSUME Running', NEW k \in Jobs, job'[k].f = g, <<k, 1>> \in live', k \notin late'
        PROVE  /\ job'[k].e = gate'[g].epoch
               /\ gate'[g].state \in {"enabled", "restart"} \/ call'[g].pc = "cancel"
    <3>1. CASE k = j
      <4>1. job[j].f = g /\ job'[j].e = job[j].e
        BY <1>7, <2>5, <3>1 DEF SameKey
      <4>2. j \in LeasesOf(g)
        BY <1>4, <4>1 DEF LeasesOf
      <4>3. job[j].e = gate[g].epoch
        BY <2>1, <4>2 DEF FeatureIn, LeasesIn
      <4>4. gate[g].state = "enabled" \/ call[g].pc = "cancel"
        BY <1>1, <2>5, <3>1, <4>1
      <4> QED
        BY <1>1, <3>1, <4>1, <4>3, <4>4
    <3>2. CASE k # j
      <4>1. job[k].f = g /\ <<k, 1>> \in live /\ k \notin late /\ job'[k].e = job[k].e
        BY <1>1, <1>7, <1>8, <2>5, <3>2 DEF SameKey
      <4> QED
        BY <1>1, <2>1, <2>5, <4>1 DEF FeatureIn, HiddenIn, Running
    <3> QED
      BY <3>1, <3>2
  <2>6. HiddenIn(g)'
    BY <2>5 DEF HiddenIn
  <2> QED
    BY <2>3, <2>4, <2>6 DEF FeatureIn
<1> QED
  BY <1>5, <1>7, <1>9, <1>10, <1>11, <1>12 DEF HostInv

\* Entering or leaving plugin code: only the job's scope and its thread move.
LEMMA ScopeStep ==
    ASSUME HostInv, RegistryInv', NEW j \in Jobs, NEW s \in Steps,
           s \notin {"idle", "leased"}, step[j] \notin {"idle", "leased"},
           SameJobsBut(j), SameKey(j),
           job'[j].open <=> job[j].open, job'[j].active <=> s = "inside",
           step' = [step EXCEPT ![j] = s],
           UNCHANGED <<tombstones, live, gate, call, lateRemove, phase, stopping, lease, late>>
    PROVE  HostInv' /\ \A k \in Jobs : SameKey(k)
<1>1. HostTypes
  BY DEF HostInv
<1>2. step' \in [Jobs -> Steps] /\ step'[j] = s
      /\ \A k \in Jobs : k # j => step'[k] = step[k]
  BY <1>1, Moved
<1>3. \A k \in Jobs : SameKey(k) /\ (k # j => job'[k] = job[k])
  BY DEF SameJobsBut, SameKey
<1>4. HostTypes'
  BY <1>1, <1>2 DEF HostTypes
<1>5. Scopes'
  <2>1. ASSUME NEW k \in Jobs
        PROVE  ScopeOf(k)'
    <3>1. ScopeOf(k)
      BY DEF HostInv, Scopes
    <3>2. CASE k = j
      BY <1>2, <3>1, <3>2 DEF ScopeOf
    <3>3. CASE k # j
      BY <1>2, <1>3, <3>1, <3>3 DEF ScopeOf
    <3> QED
      BY <3>2, <3>3
  <2> QED
    BY <2>1 DEF Scopes
<1>6. ASSUME NEW g \in Features
      PROVE  FeatureIn(g)'
  <2>1. FeatureIn(g) /\ lease \subseteq Jobs
    BY <1>1 DEF HostInv, HostTypes
  <2>2. LeasesOf(g)' = LeasesOf(g) /\ LeasesOf(g) \subseteq Jobs
    BY <1>3, <2>1 DEF LeasesOf, SameKey
  <2>3. \A k \in Jobs : job'[k].f = job[k].f /\ job'[k].e = job[k].e
    BY <1>3 DEF SameKey
  <2> QED
    BY <2>1, <2>2, <2>3, FeatureFrame DEF Running
<1> QED
  BY <1>3, <1>4, <1>5, <1>6 DEF HostInv

LEMMA CallProviderStep ==
    ASSUME HostInv, NEW j \in Jobs, CallProvider(j)
    PROVE  HostInv' /\ Final /\ \A k \in Jobs : SameKey(k)
<1>1. /\ UNCHANGED <<gate, call, lateRemove, phase, stopping, lease, late>>
      /\ step[j] = "prepared" /\ step' = [step EXCEPT ![j] = "inside"] /\ EnterScope(j)
  BY DEF CallProvider
<1>2. RegistryInv /\ job \in [Jobs -> JobRecords] /\ UNCHANGED <<tombstones, live>>
  BY <1>1 DEF HostInv, RegistryInv, RegistryTypes, EnterScope
<1>3. RegistryInv'
  BY <1>1, <1>2, EnterScopeKeeps
<1>4. /\ SameJobsBut(j) /\ SameKey(j) /\ (job'[j].open <=> job[j].open)
      /\ job'[j].active /\ job[j].terminal = "none"
  BY <1>1, <1>2, EnteredJob DEF EnterAllowed
<1>5. ASSUME NEW k \in Jobs
      PROVE  FinalKept(k)
  <2>1. CASE k = j
    BY <1>4, <2>1 DEF FinalKept, Retirable
  <2>2. CASE k # j
    BY <1>4, <2>2, FinalSame DEF SameJobsBut
  <2> QED
    BY <2>1, <2>2
<1>6. HostInv' /\ \A k \in Jobs : SameKey(k)
  <2>1. "inside" \in Steps /\ "inside" \notin {"idle", "leased"} /\ step[j] \notin {"idle", "leased"}
    BY <1>1 DEF Steps
  <2> QED
    BY <1>1, <1>2, <1>3, <1>4, <2>1, ScopeStep
<1> QED
  BY <1>5, <1>6 DEF Final

LEMMA PluginReturnsStep ==
    ASSUME HostInv, NEW j \in Jobs, PluginReturns(j)
    PROVE  HostInv' /\ Final /\ \A k \in Jobs : SameKey(k)
<1>1. /\ UNCHANGED <<gate, call, lateRemove, phase, stopping, lease, late>>
      /\ step[j] = "inside" /\ step' = [step EXCEPT ![j] = "returned"] /\ LeaveScope(j)
  BY DEF PluginReturns
<1>2. RegistryInv /\ job \in [Jobs -> JobRecords] /\ UNCHANGED <<tombstones, live>>
  BY <1>1 DEF HostInv, RegistryInv, RegistryTypes, LeaveScope
<1>3. RegistryInv'
  BY <1>1, <1>2, LeaveScopeKeeps
<1>4. /\ SameJobsBut(j) /\ SameKey(j) /\ (job'[j].open <=> job[j].open)
      /\ ~job'[j].active /\ job[j].active /\ job'[j].terminal = job[j].terminal
  BY <1>1, <1>2, LeftJob DEF SameState
<1>5. ASSUME NEW k \in Jobs
      PROVE  FinalKept(k)
  <2>1. CASE k = j
    BY <1>4, <2>1 DEF FinalKept, Retirable
  <2>2. CASE k # j
    BY <1>4, <2>2, FinalSame DEF SameJobsBut
  <2> QED
    BY <2>1, <2>2
<1>6. HostInv' /\ \A k \in Jobs : SameKey(k)
  <2>1. "returned" \in Steps /\ "returned" \notin {"idle", "leased"} /\ step[j] \notin {"idle", "leased"}
    BY <1>1 DEF Steps
  <2>2. job'[j].active <=> "returned" = "inside"
    BY <1>4
  <2> QED
    BY <1>1, <1>2, <1>3, <1>4, <2>1, <2>2, ScopeStep
<1> QED
  BY <1>5, <1>6 DEF Final

\* A new dispatch takes a lease of an open feature.
LEMMA TryEnterJob ==
    ASSUME HostInv, NEW j \in Jobs, NEW f \in Features, TryEnter(j, f)
    PROVE  /\ job' \in [Jobs -> JobRecords] /\ SameJobsBut(j)
           /\ SameScope(j) /\ SameState(j) /\ SameView(j) /\ SameQueue(j)
           /\ job'[j].f = f /\ job'[j].e = gate[f].epoch
<1> DEFINE old == job[j]
           epoch == gate[f].epoch
           new == [old EXCEPT !.f = f, !.e = epoch]
<1>1. job' = [job EXCEPT ![j] = new]
  BY DEF TryEnter
<1>2. old \in JobRecords /\ old = job[j] /\ job \in [Jobs -> JobRecords]
  BY DEF HostInv, RegistryInv, RegistryTypes
<1>3. epoch \in Epochs /\ epoch = gate[f].epoch
  BY DEF HostInv, HostTypes, GateRecords
<1> HIDE DEF old, epoch
<1>4. new \in JobRecords
  BY <1>2, <1>3 DEF JobRecords
<1>5. /\ (new.open <=> old.open) /\ (new.active <=> old.active) /\ new.control = old.control
      /\ new.terminal = old.terminal /\ new.final = old.final /\ new.gen = old.gen
      /\ (new.fresh <=> old.fresh) /\ new.queue = old.queue /\ new.next = old.next
      /\ new.f = f /\ new.e = epoch
  BY <1>2, <1>3 DEF JobRecords
<1> HIDE DEF new
<1>6. job'[j] = new /\ job' \in [Jobs -> JobRecords] /\ SameJobsBut(j)
  BY <1>1, <1>2, <1>4 DEF SameJobsBut
<1> QED
  BY <1>2, <1>3, <1>5, <1>6 DEF SameScope, SameState, SameView, SameQueue

LEMMA TryEnterRegistry ==
    ASSUME HostInv, NEW j \in Jobs, NEW f \in Features, TryEnter(j, f)
    PROVE  RegistryInv'
<1>1. /\ UNCHANGED <<setup, revoked, tombstones, live, applied, rowCount, queuedCount,
                     activeCount, mail, sending, ui>>
      /\ step[j] = "idle"
  BY DEF TryEnter
<1>2. RegistryInv /\ ~job[j].open /\ \A t \in tombstones : t[1] # j
  BY <1>1 DEF HostInv, Scopes, ScopeOf
<1>3. /\ job' \in [Jobs -> JobRecords] /\ SameJobsBut(j)
      /\ SameScope(j) /\ SameState(j) /\ SameView(j) /\ SameQueue(j)
  BY TryEnterJob
<1>4. ASSUME NEW k \in Jobs
      PROVE  /\ SameScope(k) /\ SameState(k) /\ SameView(k) /\ SameQueue(k)
             /\ Token(k)' = Token(k)
             /\ k # j => job'[k] = job[k] /\ Key(k)' = Key(k)
  <2>1. /\ SameScope(k) /\ SameState(k) /\ SameView(k) /\ SameQueue(k)
        /\ k # j => job'[k] = job[k]
    BY <1>3 DEF SameJobsBut, SameScope, SameState, SameView, SameQueue
  <2> QED
    BY <2>1 DEF Key, Token, SameView
<1>5. RegistryTypes'
  BY <1>1, <1>2, <1>3 DEF RegistryInv, RegistryTypes
<1>6. Dormant'
  BY <1>2, <1>4 DEF RegistryInv, Dormant, SameScope, SameState, SameQueue
<1>7. Credits'
  <2>1. (\A k \in Jobs : job'[k].queue = job[k].queue) /\ \A k \in Jobs : job'[k].open <=> job[k].open
    BY <1>4 DEF SameQueue, SameScope
  <2>2. IsFiniteSet(applied') /\ rowCount' = Cardinality(applied') /\ rowCount' <= MaxRows
    BY <1>1, <1>2 DEF RegistryInv, Credits
  <2> QED
    BY <1>1, <1>2, <2>1, <2>2, CreditsKept DEF RegistryInv
<1>8. Values'
  <2>1. \A t \in live : t[1] \in Jobs /\ t[1] # j
    BY <1>2, TokenOwner DEF RegistryInv, RegistryTypes, Values
  <2> QED
    BY <1>1, <1>2, <1>4, <2>1 DEF RegistryInv, Values
<1>9. Contents'
  <2>1. \A r \in applied : r[1] \in Jobs /\ r[1] # j
    BY <1>2 DEF RegistryInv, RegistryTypes, Contents
  <2>2. ~job'[j].open
    BY <1>2, <1>4 DEF SameScope
  <2> QED
    BY <1>1, <1>2, <1>4, <2>1, <2>2 DEF RegistryInv, Contents
<1>10. ASSUME NEW k \in Jobs, Pending(k)'
       PROVE  Pending(k) /\ job'[k].gen = job[k].gen
  <2>1. k # j
    BY <1>2, <1>4, <1>10 DEF Pending, SameScope
  <2>2. job'[k] = job[k] /\ Token(k)' = Token(k)
    BY <1>4, <2>1
  <2> QED
    BY <1>1, <1>10, <2>2 DEF Pending, UiCurrent
<1>11. Signalled'
  BY <1>1, <1>2, <1>10, SignalledKept DEF RegistryInv
<1> QED
  BY <1>5, <1>6, <1>7, <1>8, <1>9, <1>11 DEF RegistryInv

LEMMA TryEnterStep ==
    ASSUME HostInv, NEW j \in Jobs, NEW f \in Features, TryEnter(j, f)
    PROVE  /\ HostInv' /\ Final
           /\ j \notin lease /\ job'[j].f = f
           /\ \A k \in Jobs : k # j => job'[k] = job[k]
<1>1. /\ UNCHANGED <<tombstones, live, call, lateRemove, phase, stopping, late>>
      /\ step[j] = "idle" /\ step' = [step EXCEPT ![j] = "leased"]
      /\ gate[f].state = "enabled" /\ lease' = lease \cup {j} /\ Running
  BY DEF TryEnter
<1>2. HostTypes /\ RegistryInv
  BY DEF HostInv
<1>3. step' \in [Jobs -> Steps] /\ step'[j] = "leased"
      /\ \A k \in Jobs : k # j => step'[k] = step[k]
  BY <1>1, <1>2, Moved DEF Steps
<1>4. /\ j \notin lease /\ ~job[j].open /\ (\A t \in tombstones : t[1] # j) /\ ~job[j].active
  BY <1>1 DEF HostInv, Scopes, ScopeOf
<1>5. RegistryInv'
  BY TryEnterRegistry
<1>6. /\ SameJobsBut(j) /\ SameScope(j) /\ SameState(j)
      /\ job'[j].f = f /\ job'[j].e = gate[f].epoch
  BY TryEnterJob
<1>7. /\ gate' \in [Features -> GateRecords] /\ SameGatesBut(f)
      /\ gate'[f].state = gate[f].state /\ (gate'[f].accepting <=> gate[f].accepting)
      /\ gate'[f].inFlight = gate[f].inFlight + 1 /\ gate'[f].epoch = gate[f].epoch
      /\ gate'[f].op = gate[f].op
  BY <1>2, LeasedGate DEF HostTypes
<1>8. \A k \in Jobs : k # j => job'[k] = job[k]
  BY <1>6 DEF SameJobsBut
<1>9. Final
  <2>1. ASSUME NEW k \in Jobs
        PROVE  FinalKept(k)
    <3>1. CASE k = j
      BY <1>4, <1>6, <3>1 DEF FinalKept, Retirable, SameScope
    <3>2. CASE k # j
      BY <1>8, <3>2, FinalSame
    <3> QED
      BY <3>1, <3>2
  <2> QED
    BY <2>1 DEF Final
<1>10. HostTypes'
  <2>1. lease' \subseteq Jobs
    BY <1>1, <1>2 DEF HostTypes
  <2> QED
    BY <1>1, <1>2, <1>3, <1>7, <2>1 DEF HostTypes
<1>11. Scopes'
  <2>1. ASSUME NEW k \in Jobs
        PROVE  ScopeOf(k)'
    <3>1. ScopeOf(k)
      BY DEF HostInv, Scopes
    <3>2. CASE k = j
      BY <1>1, <1>3, <1>4, <1>6, <3>2 DEF ScopeOf, SameScope
    <3>3. CASE k # j
      BY <1>1, <1>3, <1>8, <3>1, <3>3 DEF ScopeOf
    <3> QED
      BY <3>2, <3>3
  <2> QED
    BY <2>1 DEF Scopes
<1>12. <<j, 1>> \notin live
  BY <1>2, <1>4 DEF RegistryInv, Values
<1>13. lease \subseteq Jobs
  BY <1>2 DEF HostTypes
<1>14. ASSUME NEW g \in Features, g # f
       PROVE  FeatureIn(g)'
  <2>1. FeatureIn(g) /\ gate'[g] = gate[g]
    BY <1>7, <1>14 DEF HostInv, SameGatesBut
  <2>2. LeasesOf(g)' = LeasesOf(g) /\ \A k \in LeasesOf(g) : k \in Jobs /\ k # j
    BY <1>1, <1>4, <1>6, <1>8, <1>13, <1>14 DEF LeasesOf
  <2> QED
    BY <1>1, <1>6, <1>8, <1>14, <2>1, <2>2, FeatureFrame DEF Running
<1>15. FeatureIn(f)'
  <2>1. FeatureIn(f)
    BY DEF HostInv
  <2>2. LeasesOf(f)' = LeasesOf(f) \cup {j} /\ j \notin LeasesOf(f) /\ LeasesOf(f) \subseteq Jobs
    BY <1>1, <1>4, <1>6, <1>8, <1>13 DEF LeasesOf
  <2>3. Cardinality(LeasesOf(f) \cup {j}) = Cardinality(LeasesOf(f)) + 1
    <3>1. IsFiniteSet(LeasesOf(f))
      BY <2>2, ConstantTypes, FS_Subset
    <3> QED
      BY <2>2, <3>1, FS_AddElement
  <2>4. gate'[f].inFlight = Cardinality(LeasesOf(f)')
    BY <1>7, <2>1, <2>2, <2>3 DEF FeatureIn, LeasesIn
  <2>5. \A k \in LeasesOf(f)' : job'[k].e = gate'[f].epoch
    <3>1. \A k \in LeasesOf(f) : job'[k].e = job[k].e
      BY <1>8, <2>2
    <3> QED
      BY <1>6, <1>7, <2>1, <2>2, <3>1 DEF FeatureIn, LeasesIn
  <2>6. LeasesIn(f)'
    BY <2>4, <2>5 DEF LeasesIn
  <2>7. GateIn(f)'
    <3>1. call[f].pc \notin {"port", "finish"}
      BY <1>1, <2>1 DEF FeatureIn, GateIn, Closing
    <3> QED
      BY <1>1, <1>7, <2>1, <3>1 DEF FeatureIn, GateIn, Running
  <2>8. HiddenIn(f)'
    <3>1. \A k \in Jobs : <<k, 1>> \in live' => job'[k] = job[k]
      BY <1>1, <1>8, <1>12
    <3> QED
      BY <1>1, <1>7, <2>1, <3>1 DEF FeatureIn, HiddenIn, Running
  <2> QED
    BY <2>6, <2>7, <2>8 DEF FeatureIn
<1>16. \A g \in Features : FeatureIn(g)'
  BY <1>14, <1>15
<1> QED
  BY <1>4, <1>5, <1>6, <1>8, <1>9, <1>10, <1>11, <1>16 DEF HostInv

\* A job that left the registry gives its lease back.
LEMMA LeaseDropStep ==
    ASSUME HostInv, NEW j \in Jobs, LeaseDrop(j)
    PROVE  /\ HostInv' /\ Calm
           /\ j \in lease /\ lease' = lease \ {j} /\ step[j] # "inside"
           /\ \A g \in Features : gate'[g].state = gate[g].state
<1>0. job[j].f \in Features
  BY DEF HostInv, RegistryInv, RegistryTypes, JobRecords
<1>3. PICK f \in Features : f = job[j].f
  BY <1>0
<1> DEFINE less == gate[f].inFlight - 1
           new == [gate[f] EXCEPT !.inFlight = less]
<1>1. /\ UNCHANGED <<rtVars, call, lateRemove, phase, stopping, step, late>>
      /\ j \in lease /\ ~job[j].open /\ step[j] # "leased"
      /\ lease' = lease \ {j} /\ gate' = [gate EXCEPT ![f] = new]
  BY <1>3 DEF LeaseDrop
<1>2. HostTypes /\ RegistryInv' /\ Calm
  BY <1>1, RegistryStutter DEF HostInv
<1>4. job' = job /\ live' = live /\ tombstones' = tombstones
  BY <1>1 DEF rtVars
<1>5. step[j] # "inside" /\ step[j] # "idle"
  <2>1. ~job[j].active /\ ScopeOf(j)
    BY <1>1 DEF HostInv, RegistryInv, Dormant, Scopes
  <2> QED
    BY <1>1, <2>1 DEF ScopeOf
<1>6. LeasesOf(f)' = LeasesOf(f) \ {j} /\ j \in LeasesOf(f) /\ LeasesOf(f) \subseteq Jobs
  <2>1. LeasesOf(f)' = {k \in lease' : job[k].f = f}
    BY <1>4 DEF LeasesOf
  <2> QED
    BY <1>1, <1>2, <1>3, <2>1 DEF LeasesOf, HostTypes
<1>7. /\ Cardinality(LeasesOf(f) \ {j}) = Cardinality(LeasesOf(f)) - 1
      /\ Cardinality(LeasesOf(f) \ {j}) \in Nat
  <2>1. IsFiniteSet(LeasesOf(f)) /\ IsFiniteSet(LeasesOf(f) \ {j})
    BY <1>6, ConstantTypes, FS_Subset
  <2> QED
    BY <1>6, <2>1, FS_RemoveElement, FS_CardinalityType
<1>8. less = Cardinality(LeasesOf(f)') /\ less \in Nat
  <2>1. gate[f].inFlight = Cardinality(LeasesOf(f))
    BY <1>3 DEF HostInv, FeatureIn, LeasesIn
  <2> QED
    BY <1>6, <1>7, <2>1
<1>9. gate[f] \in GateRecords /\ gate \in [Features -> GateRecords]
  BY <1>2, <1>3 DEF HostTypes
<1> HIDE DEF less
<1>10. /\ new \in GateRecords /\ new.state = gate[f].state
       /\ (new.accepting <=> gate[f].accepting) /\ new.inFlight = less
       /\ new.epoch = gate[f].epoch /\ new.op = gate[f].op
  BY <1>8, <1>9 DEF GateRecords
<1> HIDE DEF new
<1>11. /\ gate' \in [Features -> GateRecords] /\ gate'[f] = new
       /\ \A g \in Features : g # f => gate'[g] = gate[g]
  BY <1>1, <1>3, <1>9, <1>10
<1>12. HostTypes'
  <2>1. lease' \subseteq Jobs
    BY <1>1, <1>2 DEF HostTypes
  <2> QED
    BY <1>1, <1>2, <1>11, <2>1 DEF HostTypes
<1>13. Scopes'
  <2>1. ASSUME NEW k \in Jobs
        PROVE  ScopeOf(k)'
    <3>1. ScopeOf(k)
      BY DEF HostInv, Scopes
    <3>2. CASE k = j
      BY <1>1, <1>4, <1>5, <3>1, <3>2 DEF ScopeOf
    <3>3. CASE k # j
      BY <1>1, <1>4, <3>1, <3>3 DEF ScopeOf
    <3> QED
      BY <3>2, <3>3
  <2> QED
    BY <2>1 DEF Scopes
<1>14. ASSUME NEW g \in Features, g # f
       PROVE  FeatureIn(g)'
  <2>1. FeatureIn(g) /\ gate'[g] = gate[g]
    BY <1>11, <1>14 DEF HostInv
  <2>2. LeasesOf(g)' = LeasesOf(g)
    <3>1. LeasesOf(g)' = {k \in lease' : job[k].f = g}
      BY <1>4 DEF LeasesOf
    <3> QED
      BY <1>1, <1>3, <1>14, <3>1 DEF LeasesOf
  <2> QED
    BY <1>1, <1>4, <2>1, <2>2, FeatureFrame DEF Running
<1>15. FeatureIn(f)'
  <2>1. FeatureIn(f)
    BY <1>3 DEF HostInv
  <2>2. LeasesIn(f)'
    BY <1>4, <1>6, <1>8, <1>10, <1>11, <2>1 DEF FeatureIn, LeasesIn
  <2>3. gate[f].inFlight # 0
    <3>1. gate[f].inFlight - 1 \in Nat /\ gate[f].inFlight \in Nat
      BY <1>8, <1>9 DEF less, GateRecords
    <3> QED
      BY <3>1
  <2>4. GateIn(f)'
    BY <1>1, <1>10, <1>11, <2>1, <2>3 DEF FeatureIn, GateIn, Running
  <2>5. HiddenIn(f)'
    BY <1>1, <1>4, <1>10, <1>11, <2>1 DEF FeatureIn, HiddenIn, Running
  <2> QED
    BY <2>2, <2>4, <2>5 DEF FeatureIn
<1>16. \A g \in Features : FeatureIn(g)'
  BY <1>14, <1>15
<1>17. \A g \in Features : gate'[g].state = gate[g].state
  BY <1>10, <1>11
<1> QED
  BY <1>1, <1>2, <1>5, <1>12, <1>13, <1>16, <1>17 DEF HostInv

-----------------------------------------------------------------------------
(* The steps of the lifecycle                                                *)

\* A feature whose gate counts no lease has none.
LEMMA NoLeases ==
    ASSUME HostInv, NEW f \in Features, gate[f].inFlight = 0
    PROVE  LeasesOf(f) = {}
<1>1. LeasesOf(f) \subseteq Jobs /\ Cardinality(LeasesOf(f)) = 0
  BY DEF HostInv, HostTypes, FeatureIn, LeasesIn, LeasesOf
<1>2. IsFiniteSet(LeasesOf(f))
  BY <1>1, ConstantTypes, FS_Subset
<1> QED
  BY <1>1, <1>2, FS_EmptySet

\* A lifecycle call works on the gate and the call of one feature.
LEMMA GateStep ==
    ASSUME HostInv, UNCHANGED <<rtVars, step, lease, late>>, HostTypes',
           NEW f \in Features, SameGatesBut(f), SameCallsBut(f), Running' <=> Running,
           stopping' \subseteq stopping,
           gate'[f].inFlight = gate[f].inFlight,
           gate'[f].epoch = gate[f].epoch \/ gate[f].inFlight = 0,
           GateIn(f)', HiddenIn(f)'
    PROVE  HostInv' /\ Calm /\ job' = job
<1>1. RegistryInv' /\ Calm /\ job' = job
  BY RegistryStutter DEF rtVars
<1>2. Scopes'
  BY <1>1, CalmScopes
<1>3. ASSUME NEW g \in Features, g # f
      PROVE  FeatureIn(g)'
  <2>1. gate'[g] = gate[g] /\ call'[g] = call[g]
    BY <1>3 DEF SameGatesBut, SameCallsBut
  <2> QED
    BY <1>1, <2>1, CalmFeatures
<1>4. LeasesIn(f)'
  <2>1. LeasesIn(f) /\ LeasesOf(f)' = LeasesOf(f)
    BY <1>1 DEF HostInv, FeatureIn, LeasesOf
  <2>2. CASE gate'[f].epoch = gate[f].epoch
    BY <1>1, <2>1, <2>2 DEF LeasesIn
  <2>3. CASE gate[f].inFlight = 0
    <3>1. LeasesOf(f) = {}
      BY <2>3, NoLeases
    <3> QED
      BY <2>1, <3>1 DEF LeasesIn
  <2> QED
    BY <2>2, <2>3
<1>5. \A g \in Features : FeatureIn(g)'
  BY <1>3, <1>4 DEF FeatureIn
<1> QED
  BY <1>1, <1>2, <1>5 DEF HostInv

\* A gate that is not open hides what its feature published, unless its
\* revocation is still to come.
LEMMA NothingCurrent ==
    ASSUME HostInv, NEW f \in Features, Running, gate[f].state \notin {"enabled", "restart"},
           call[f].pc # "cancel", NEW j \in Jobs, job[j].f = f, j \notin late
    PROVE  <<j, 1>> \notin live
  BY DEF HostInv, FeatureIn, HiddenIn

LEMMA CloseGateStep ==
    ASSUME HostInv, NEW f \in Features, NEW op \in {"disabling", "removing"}, CloseGate(f, op)
    PROVE  HostInv' /\ Calm /\ job' = job
<1>1. /\ UNCHANGED <<rtVars, lateRemove, phase, stopping, step, lease, late>>
      /\ Running /\ gate[f].state = "enabled"
  BY DEF CloseGate
<1>2. HostTypes /\ FeatureIn(f)
  BY DEF HostInv
<1>3. /\ gate' \in [Features -> GateRecords] /\ SameGatesBut(f)
      /\ gate'[f].state = "disabling" /\ ~gate'[f].accepting
      /\ gate'[f].inFlight = gate[f].inFlight
      /\ gate'[f].epoch = gate[f].epoch /\ gate'[f].op = op
  BY <1>2, ClosedGate DEF HostTypes
<1>4. /\ call' \in [Features -> CallRecords] /\ SameCallsBut(f) /\ call'[f].pc = "cancel"
  BY <1>2, ClosingCall DEF HostTypes
<1>5. HostTypes'
  BY <1>1, <1>2, <1>3, <1>4 DEF HostTypes
<1>6. GateIn(f)'
  BY <1>1, <1>2, <1>3, <1>4 DEF FeatureIn, GateIn, Running, Closing
<1>7. HiddenIn(f)'
  <2>1. job' = job /\ live' = live /\ late' = late
    BY <1>1 DEF rtVars
  <2> QED
    BY <1>1, <1>2, <1>3, <1>4, <2>1 DEF FeatureIn, HiddenIn
<1> QED
  BY <1>1, <1>3, <1>4, <1>5, <1>6, <1>7, GateStep DEF Running

\* A step that leaves every gate and call alone.
LEMMA GateStutter ==
    ASSUME HostInv, HostTypes', NEW f \in Features,
           UNCHANGED <<rtVars, gate, call, phase, stopping, step, lease, late>>
    PROVE  HostInv' /\ Calm /\ job' = job
<1>1. job' = job /\ live' = live /\ late' = late
  BY DEF rtVars
<1>2. GateIn(f)' /\ HiddenIn(f)'
  BY <1>1 DEF HostInv, FeatureIn, GateIn, HiddenIn, Running
<1> QED
  BY <1>2, GateStep DEF Running, SameGatesBut, SameCallsBut

LEMMA RemoveResidentStep ==
    ASSUME HostInv, NEW f \in Features, RemoveResident(f)
    PROVE  HostInv' /\ Calm /\ job' = job
<1>1. /\ UNCHANGED <<rtVars, gate, call, phase, stopping, step, lease, late>>
      /\ lateRemove' = lateRemove \cup {f}
  BY DEF RemoveResident
<1>2. HostTypes'
  BY <1>1 DEF HostInv, HostTypes
<1> QED
  BY <1>1, <1>2, GateStutter

LEMMA FinishRemoveResidentStep ==
    ASSUME HostInv, NEW f \in Features, FinishRemoveResident(f)
    PROVE  HostInv' /\ Calm /\ job' = job
<1>1. /\ UNCHANGED <<rtVars, call, phase, stopping, step, lease, late>>
      /\ lateRemove' \subseteq lateRemove
  BY DEF FinishRemoveResident
<1>2. HostTypes /\ FeatureIn(f)
  BY DEF HostInv
<1>3. CASE ~Running
  <2>1. gate' = gate
    BY <1>3 DEF FinishRemoveResident
  <2>2. HostTypes'
    BY <1>1, <1>2, <2>1 DEF HostTypes
  <2> QED
    BY <1>1, <2>1, <2>2, GateStutter
<1>4. CASE Running
  <2>1. /\ gate' \in [Features -> GateRecords] /\ SameGatesBut(f)
        /\ gate'[f].state = "restart" /\ ~gate'[f].accepting
        /\ gate'[f].inFlight = gate[f].inFlight
        /\ gate'[f].epoch = gate[f].epoch /\ gate'[f].op = "idle"
    BY <1>2, <1>4, LateClosedGate DEF HostTypes
  <2>2. HostTypes'
    BY <1>1, <1>2, <2>1 DEF HostTypes
  <2>3. GateIn(f)'
    BY <1>1, <1>2, <1>4, <2>1 DEF FeatureIn, GateIn, Running
  <2>4. HiddenIn(f)'
    <3>1. job' = job /\ live' = live /\ late' = late
      BY <1>1 DEF rtVars
    <3> QED
      BY <1>2, <1>4, <2>1, <3>1 DEF FeatureIn, HiddenIn
  <2>5. SameCallsBut(f)
    BY <1>1 DEF SameCallsBut
  <2> QED
    BY <1>1, <2>1, <2>2, <2>3, <2>4, <2>5, GateStep DEF Running
<1> QED
  BY <1>3, <1>4

\* The revocation leaves no value of the epoch current.
LEMMA CancelScopeStep ==
    ASSUME HostInv, NEW f \in Features, CancelScope(f)
    PROVE  HostInv' /\ Calm
<1> DEFINE key == <<f, gate[f].epoch>>
<1>1. /\ UNCHANGED <<gate, lateRemove, phase, stopping, step, lease, late>>
      /\ call[f].pc = "cancel" /\ RevokeFeature(key)
  BY DEF CancelScope
<1>2. HostTypes /\ FeatureIn(f) /\ RegistryInv
  BY DEF HostInv
<1>3. key \in Keys
  BY <1>2 DEF HostTypes, GateRecords, Keys
<1>4. RegistryInv' /\ Calm /\ \A t \in live' : t[2] = 1 => Key(t[1]) # key
  BY <1>1, <1>2, <1>3, RevokeFeatureKeeps, RevokeFeatureCalm
<1>5. /\ call' \in [Features -> CallRecords] /\ SameCallsBut(f)
      /\ call'[f].pc = "leases" /\ (call'[f].drained <=> call[f].drained)
  BY <1>2, CancelledCall DEF HostTypes
<1>6. HostTypes'
  BY <1>1, <1>2, <1>5 DEF HostTypes
<1>7. Scopes'
  BY <1>1, <1>4, CalmScopes
<1>8. ASSUME NEW g \in Features, g # f
      PROVE  FeatureIn(g)'
  <2>1. call'[g] = call[g]
    BY <1>5, <1>8 DEF SameCallsBut
  <2> QED
    BY <1>1, <1>4, <2>1, CalmFeatures DEF Running
<1>9. FeatureIn(f)'
  <2>1. \A k \in Jobs : /\ job'[k].f = job[k].f /\ job'[k].e = job[k].e
                        /\ (<<k, 1>> \in live' => <<k, 1>> \in live)
    BY <1>4 DEF Calm, CalmFor, SameKey
  <2>2. LeasesOf(f)' = LeasesOf(f) /\ LeasesOf(f) \subseteq Jobs
    BY <1>1, <1>2, <2>1 DEF LeasesOf, HostTypes
  <2>3. LeasesIn(f)'
    BY <1>1, <1>2, <2>1, <2>2 DEF FeatureIn, LeasesIn
  <2>4. GateIn(f)'
    BY <1>1, <1>2, <1>5 DEF FeatureIn, GateIn, Running, Closing
  <2>5. ASSUME Running, NEW k \in Jobs, job'[k].f = f, <<k, 1>> \in live', k \notin late'
        PROVE  FALSE
    <3>1. job[k].f = f /\ <<k, 1>> \in live /\ k \notin late
      BY <1>1, <2>1, <2>5
    <3>2. job[k].e = gate[f].epoch
      BY <1>2, <2>5, <3>1 DEF FeatureIn, HiddenIn
    <3>3. Key(k) = key
      BY <3>1, <3>2 DEF Key
    <3> QED
      BY <1>4, <2>5, <3>3
  <2>6. HiddenIn(f)'
    BY <1>1, <2>5 DEF HiddenIn, Running
  <2> QED
    BY <2>3, <2>4, <2>6 DEF FeatureIn
<1>10. \A g \in Features : FeatureIn(g)'
  BY <1>8, <1>9
<1> QED
  BY <1>4, <1>6, <1>7, <1>10 DEF HostInv

LEMMA CancelRetiresStep ==
    ASSUME HostInv, NEW f \in Features, NEW j \in Jobs, CancelRetires(f, j)
    PROVE  HostInv' /\ Calm
<1>1. /\ UNCHANGED <<gate, lateRemove, phase, stopping, step, lease, late>>
      /\ Retire(j) \/ UNCHANGED rtVars
  BY DEF CancelRetires
<1>2. HostTypes /\ RegistryInv
  BY DEF HostInv
<1>3. RegistryInv' /\ Calm
  BY <1>1, <1>2, RetireKeeps, RetireCalm, RegistryStutter
<1>4. /\ call' \in [Features -> CallRecords] /\ SameCallsBut(f)
      /\ call'[f].pc = call[f].pc /\ (call'[f].drained <=> call[f].drained)
  BY <1>2, RetiringCall DEF HostTypes
<1>5. HostTypes'
  BY <1>1, <1>2, <1>4 DEF HostTypes
<1>6. Scopes'
  BY <1>1, <1>3, CalmScopes
<1>7. ASSUME NEW g \in Features
      PROVE  FeatureIn(g)'
  <2>1. call'[g].pc = call[g].pc /\ (call'[g].drained <=> call[g].drained)
    BY <1>4 DEF SameCallsBut
  <2> QED
    BY <1>1, <1>3, <2>1, CalmFeatures DEF Running
<1> QED
  BY <1>3, <1>5, <1>6, <1>7 DEF HostInv

LEMMA WaitLeasesStep ==
    ASSUME HostInv, NEW f \in Features, WaitLeases(f)
    PROVE  HostInv' /\ Calm /\ job' = job
<1>1. /\ UNCHANGED <<rtVars, gate, lateRemove, phase, stopping, step, lease, late>>
      /\ call[f].pc = "leases" /\ gate[f].inFlight = 0
  BY DEF WaitLeases
<1>2. HostTypes /\ FeatureIn(f)
  BY DEF HostInv
<1>3. call' \in [Features -> CallRecords] /\ SameCallsBut(f) /\ call'[f].pc = "port"
  BY <1>2, WaitedCall DEF HostTypes
<1>4. HostTypes'
  BY <1>1, <1>2, <1>3 DEF HostTypes
<1>5. GateIn(f)'
  BY <1>1, <1>2, <1>3 DEF FeatureIn, GateIn, Running, Closing
<1>6. HiddenIn(f)'
  <2>1. job' = job /\ live' = live /\ late' = late
    BY <1>1 DEF rtVars
  <2> QED
    BY <1>1, <1>2, <1>3, <2>1 DEF FeatureIn, HiddenIn, Running
<1> QED
  BY <1>1, <1>3, <1>4, <1>5, <1>6, GateStep DEF Running, SameGatesBut

LEMMA LeasesTimeOutStep ==
    ASSUME HostInv, NEW f \in Features, LeasesTimeOut(f)
    PROVE  HostInv' /\ Calm /\ job' = job
<1>1. /\ UNCHANGED <<rtVars, gate, lateRemove, phase, stopping, step, lease, late>>
      /\ call[f].pc = "leases"
  BY DEF LeasesTimeOut
<1>2. HostTypes /\ FeatureIn(f)
  BY DEF HostInv
<1>3. /\ call' \in [Features -> CallRecords] /\ SameCallsBut(f) /\ call'[f].pc = "port"
      /\ ~call'[f].drained
  BY <1>2, TimedOutCall DEF HostTypes
<1>4. HostTypes'
  BY <1>1, <1>2, <1>3 DEF HostTypes
<1>5. GateIn(f)'
  BY <1>1, <1>2, <1>3 DEF FeatureIn, GateIn, Running, Closing
<1>6. HiddenIn(f)'
  <2>1. job' = job /\ live' = live /\ late' = late
    BY <1>1 DEF rtVars
  <2> QED
    BY <1>1, <1>2, <1>3, <2>1 DEF FeatureIn, HiddenIn, Running
<1> QED
  BY <1>1, <1>3, <1>4, <1>5, <1>6, GateStep DEF Running, SameGatesBut

LEMMA WaitPortStep ==
    ASSUME HostInv, NEW f \in Features, WaitPort(f)
    PROVE  HostInv' /\ Calm /\ job' = job
<1>1. /\ UNCHANGED <<rtVars, gate, lateRemove, phase, stopping, step, lease, late>>
      /\ call[f].pc = "port"
  BY DEF WaitPort
<1>2. HostTypes /\ FeatureIn(f)
  BY DEF HostInv
<1>3. /\ call' \in [Features -> CallRecords] /\ SameCallsBut(f) /\ call'[f].pc = "finish"
      /\ call'[f].drained => call[f].drained
  BY <1>2, PortCall DEF HostTypes
<1>4. HostTypes'
  BY <1>1, <1>2, <1>3 DEF HostTypes
<1>5. GateIn(f)'
  BY <1>1, <1>2, <1>3 DEF FeatureIn, GateIn, Running, Closing
<1>6. HiddenIn(f)'
  <2>1. job' = job /\ live' = live /\ late' = late
    BY <1>1 DEF rtVars
  <2> QED
    BY <1>1, <1>2, <1>3, <2>1 DEF FeatureIn, HiddenIn, Running
<1> QED
  BY <1>1, <1>3, <1>4, <1>5, <1>6, GateStep DEF Running, SameGatesBut

LEMMA FinishDisableStep ==
    ASSUME HostInv, NEW f \in Features, FinishDisable(f)
    PROVE  HostInv' /\ Calm /\ job' = job
<1>1. /\ UNCHANGED <<rtVars, lateRemove, phase, stopping, step, lease, late>>
      /\ Running /\ call[f].pc = "finish" /\ gate[f].op = "disabling"
  BY DEF FinishDisable
<1>2. HostTypes /\ FeatureIn(f)
  BY DEF HostInv
<1>3. /\ gate' \in [Features -> GateRecords] /\ SameGatesBut(f)
      /\ gate'[f].state = (IF call[f].drained THEN "disabled" ELSE "restart")
      /\ (gate'[f].accepting <=> gate[f].accepting)
      /\ gate'[f].inFlight = gate[f].inFlight /\ gate'[f].epoch = gate[f].epoch
      /\ gate'[f].op = "idle"
  BY <1>2, DisabledGate DEF HostTypes
<1>4. call' \in [Features -> CallRecords] /\ SameCallsBut(f) /\ call'[f].pc = "idle"
  BY <1>2, DisabledCall DEF HostTypes
<1>5. gate[f].state = "disabling"
  BY <1>1, <1>2 DEF FeatureIn, GateIn
<1>6. HostTypes'
  BY <1>1, <1>2, <1>3, <1>4 DEF HostTypes
<1>7. GateIn(f)'
  BY <1>1, <1>2, <1>3, <1>4, <1>5 DEF FeatureIn, GateIn, Running, Closing
<1>8. HiddenIn(f)'
  <2>1. job' = job /\ live' = live /\ late' = late
    BY <1>1 DEF rtVars
  <2>2. \A j \in Jobs : (job[j].f = f /\ j \notin late) => <<j, 1>> \notin live
    BY <1>1, <1>5, NothingCurrent
  <2> QED
    BY <2>1, <2>2 DEF HiddenIn
<1> QED
  BY <1>1, <1>3, <1>4, <1>6, <1>7, <1>8, GateStep DEF Running

LEMMA FinishRemoveStep ==
    ASSUME HostInv, NEW f \in Features, FinishRemove(f)
    PROVE  HostInv' /\ Calm /\ job' = job
<1>1. /\ UNCHANGED <<rtVars, lateRemove, phase, stopping, step, lease, late>>
      /\ Running /\ call[f].pc = "finish" /\ gate[f].op = "removing"
  BY DEF FinishRemove
<1>2. HostTypes /\ FeatureIn(f)
  BY DEF HostInv
<1>3. /\ gate' \in [Features -> GateRecords] /\ SameGatesBut(f)
      /\ gate'[f].state = "restart" /\ (gate'[f].accepting <=> gate[f].accepting)
      /\ gate'[f].inFlight = gate[f].inFlight /\ gate'[f].epoch = gate[f].epoch
      /\ gate'[f].op = "idle"
  BY <1>2, RemovedGate DEF HostTypes
<1>4. call' \in [Features -> CallRecords] /\ SameCallsBut(f) /\ call'[f].pc = "idle"
  BY <1>2, RemovedCall DEF HostTypes
<1>5. gate[f].state = "disabling"
  BY <1>1, <1>2 DEF FeatureIn, GateIn
<1>6. HostTypes'
  BY <1>1, <1>2, <1>3, <1>4 DEF HostTypes
<1>7. GateIn(f)'
  BY <1>1, <1>2, <1>3, <1>4, <1>5 DEF FeatureIn, GateIn, Running, Closing
<1>8. HiddenIn(f)'
  <2>1. job' = job /\ live' = live /\ late' = late
    BY <1>1 DEF rtVars
  <2>2. \A j \in Jobs : (job[j].f = f /\ j \notin late) => <<j, 1>> \notin live
    BY <1>1, <1>5, NothingCurrent
  <2> QED
    BY <2>1, <2>2 DEF HiddenIn
<1> QED
  BY <1>1, <1>3, <1>4, <1>6, <1>7, <1>8, GateStep DEF Running

LEMMA EnableStep ==
    ASSUME HostInv, NEW f \in Features, Enable(f)
    PROVE  HostInv' /\ Calm /\ job' = job
<1>1. /\ UNCHANGED <<rtVars, lateRemove, phase, stopping, step, lease, late>>
      /\ Running /\ gate[f].state = "disabled" /\ gate[f].epoch < MaxEpoch
  BY DEF Enable
<1>2. HostTypes /\ FeatureIn(f)
  BY DEF HostInv
<1>3. /\ gate' \in [Features -> GateRecords] /\ SameGatesBut(f)
      /\ gate'[f].state = gate[f].state /\ (gate'[f].accepting <=> gate[f].accepting)
      /\ gate'[f].inFlight = gate[f].inFlight /\ gate'[f].epoch = gate[f].epoch
      /\ gate'[f].op = "enabling"
  BY <1>2, EnablingGate DEF HostTypes
<1>4. call' \in [Features -> CallRecords] /\ SameCallsBut(f) /\ call'[f].pc = "restore"
  BY <1>2, EnablingCall DEF HostTypes
<1>5. call[f].pc # "cancel"
  BY <1>1, <1>2 DEF FeatureIn, GateIn, Closing
<1>6. HostTypes'
  BY <1>1, <1>2, <1>3, <1>4 DEF HostTypes
<1>7. GateIn(f)'
  BY <1>1, <1>2, <1>3, <1>4 DEF FeatureIn, GateIn, Running, Closing
<1>8. HiddenIn(f)'
  <2>1. job' = job /\ live' = live /\ late' = late
    BY <1>1 DEF rtVars
  <2>2. \A j \in Jobs : (job[j].f = f /\ j \notin late) => <<j, 1>> \notin live
    BY <1>1, <1>5, NothingCurrent
  <2> QED
    BY <2>1, <2>2 DEF HiddenIn
<1> QED
  BY <1>1, <1>3, <1>4, <1>6, <1>7, <1>8, GateStep DEF Running

LEMMA FinishEnableStep ==
    ASSUME HostInv, NEW f \in Features, FinishEnable(f)
    PROVE  HostInv' /\ Calm /\ job' = job
<1>1. /\ UNCHANGED <<rtVars, lateRemove, phase, stopping, step, lease, late>>
      /\ Running /\ call[f].pc = "restore" /\ gate[f].op = "enabling"
  BY DEF FinishEnable
<1>2. HostTypes /\ FeatureIn(f)
  BY DEF HostInv
<1>3. gate[f].state = "disabled" /\ gate[f].epoch < MaxEpoch /\ gate[f].inFlight = 0
  BY <1>1, <1>2 DEF FeatureIn, GateIn
<1>4. /\ gate' \in [Features -> GateRecords] /\ SameGatesBut(f)
      /\ gate'[f].state = "enabled" /\ gate'[f].accepting
      /\ gate'[f].inFlight = gate[f].inFlight /\ gate'[f].op = "idle"
  BY <1>2, <1>3, EnabledGate DEF HostTypes
<1>5. call' \in [Features -> CallRecords] /\ SameCallsBut(f) /\ call'[f].pc = "idle"
  BY <1>2, EnabledCall DEF HostTypes
<1>6. HostTypes'
  BY <1>1, <1>2, <1>4, <1>5 DEF HostTypes
<1>7. GateIn(f)'
  BY <1>1, <1>2, <1>3, <1>4, <1>5 DEF FeatureIn, GateIn, Running, Closing
<1>8. HiddenIn(f)'
  <2>1. job' = job /\ live' = live /\ late' = late
    BY <1>1 DEF rtVars
  <2>2. \A j \in Jobs : (job[j].f = f /\ j \notin late) => <<j, 1>> \notin live
    BY <1>1, <1>3, NothingCurrent
  <2> QED
    BY <2>1, <2>2 DEF HiddenIn
<1> QED
  BY <1>1, <1>3, <1>4, <1>5, <1>6, <1>7, <1>8, GateStep DEF Running

LEMMA SupersededStep ==
    ASSUME HostInv, NEW f \in Features, Superseded(f)
    PROVE  HostInv' /\ Calm /\ job' = job
<1>1. /\ UNCHANGED <<rtVars, gate, lateRemove, phase, stopping, step, lease, late>>
      /\ call[f].pc \in {"finish", "restore"} /\ (~Running \/ gate[f].op = "idle")
  BY DEF Superseded
<1>2. HostTypes /\ FeatureIn(f)
  BY DEF HostInv
<1>3. call' \in [Features -> CallRecords] /\ SameCallsBut(f) /\ call'[f].pc = "idle"
  BY <1>2, SupersededCall DEF HostTypes
<1>4. HostTypes'
  BY <1>1, <1>2, <1>3 DEF HostTypes
<1>5. gate[f].op = "idle"
  BY <1>1, <1>2 DEF FeatureIn, GateIn
<1>6. GateIn(f)'
  BY <1>1, <1>2, <1>3, <1>5 DEF FeatureIn, GateIn, Running, Closing
<1>7. HiddenIn(f)'
  <2>1. job' = job /\ live' = live /\ late' = late
    BY <1>1 DEF rtVars
  <2> QED
    BY <1>1, <1>2, <1>3, <2>1 DEF FeatureIn, HiddenIn, Running
<1> QED
  BY <1>1, <1>3, <1>4, <1>6, <1>7, GateStep DEF Running, SameGatesBut

-----------------------------------------------------------------------------
(* The shutdown                                                              *)

\* A calm step of the shutdown before it reaches the lifecycle.
LEMMA ShutdownCalm ==
    ASSUME HostInv, RegistryInv', Calm, Running, phase' \in {"closing", "revoked"},
           UNCHANGED <<gate, call, lateRemove, stopping, step, lease, late>>
    PROVE  HostInv'
<1>1. HostTypes'
  BY DEF HostInv, HostTypes
<1>2. Scopes'
  BY CalmScopes
<1>3. \A g \in Features : FeatureIn(g)'
  BY CalmFeatures DEF Running
<1> QED
  BY <1>1, <1>2, <1>3 DEF HostInv

LEMMA ShutdownMailboxStep ==
    ASSUME HostInv, ShutdownMailbox
    PROVE  HostInv' /\ Calm
<1>1. /\ UNCHANGED <<gate, call, lateRemove, stopping, step, lease, late>>
      /\ CloseMailbox /\ phase' \in {"closing", "revoked"} /\ Running
  BY DEF ShutdownMailbox, Running
<1>2. UNCHANGED <<job, live, tombstones>>
  BY <1>1 DEF CloseMailbox
<1>3. RegistryInv' /\ Calm
  BY <1>1, <1>2, CloseMailboxKeeps, ViewCalm DEF HostInv
<1> QED
  BY <1>1, <1>3, ShutdownCalm

LEMMA ShutdownRegistryStep ==
    ASSUME HostInv, ShutdownRegistry
    PROVE  HostInv' /\ Calm
<1>1. /\ UNCHANGED <<gate, call, lateRemove, stopping, step, lease, late>>
      /\ RevokeAll /\ phase' \in {"closing", "revoked"} /\ Running
  BY DEF ShutdownRegistry, Running
<1>2. RegistryInv' /\ Calm
  BY <1>1, RevokeAllKeeps, RevokeAllCalm DEF HostInv
<1> QED
  BY <1>1, <1>2, ShutdownCalm

\* The features a shutdown has to drain.
Undrained == {f \in Features : gate[f].state \in {"enabled", "disabling"} \/ gate[f].op # "idle"}

\* The shutdown closes every gate, also those a call was working on.
LEMMA StoppedGates ==
    ASSUME HostInv, ShutdownLifecycle
    PROVE  /\ gate' \in [Features -> GateRecords] /\ phase' = "stopped"
           /\ stopping' = Undrained
           /\ \A g \in Features :
                 /\ ~gate'[g].accepting /\ gate'[g].op = "idle"
                 /\ gate'[g].inFlight = gate[g].inFlight /\ gate'[g].epoch = gate[g].epoch
                 /\ g \in Undrained => gate'[g].state = "disabling"
                 /\ g \notin Undrained => gate'[g].state = gate[g].state
<1>1. /\ phase' = "stopped" /\ stopping' = Undrained
      /\ gate' = [f \in Features |->
                    [gate[f] EXCEPT !.accepting = FALSE, !.op = "idle",
                                    !.state = IF f \in Undrained THEN "disabling"
                                              ELSE gate[f].state]]
  BY DEF ShutdownLifecycle, Undrained
<1>2. ASSUME NEW r \in GateRecords, NEW s \in States
      PROVE  LET n == [r EXCEPT !.accepting = FALSE, !.op = "idle", !.state = s]
             IN  /\ n \in GateRecords /\ ~n.accepting /\ n.op = "idle"
                 /\ n.inFlight = r.inFlight /\ n.epoch = r.epoch /\ n.state = s
  BY <1>2 DEF GateRecords, Operations
<1>3. \A g \in Features : gate[g] \in GateRecords /\ gate[g].state \in States
  BY DEF HostInv, HostTypes, GateRecords
<1>4. ASSUME NEW g \in Features
      PROVE  /\ gate'[g] \in GateRecords
             /\ ~gate'[g].accepting /\ gate'[g].op = "idle"
             /\ gate'[g].inFlight = gate[g].inFlight /\ gate'[g].epoch = gate[g].epoch
             /\ g \in Undrained => gate'[g].state = "disabling"
             /\ g \notin Undrained => gate'[g].state = gate[g].state
  <2> DEFINE s == IF g \in Undrained THEN "disabling" ELSE gate[g].state
  <2>1. /\ s \in States /\ (g \in Undrained => s = "disabling")
        /\ g \notin Undrained => s = gate[g].state
    BY <1>3 DEF States
  <2>2. gate'[g] = [gate[g] EXCEPT !.accepting = FALSE, !.op = "idle", !.state = s]
    BY <1>1
  <2> HIDE DEF s
  <2> DEFINE n == [gate[g] EXCEPT !.accepting = FALSE, !.op = "idle", !.state = s]
  <2>3. /\ n \in GateRecords /\ ~n.accepting /\ n.op = "idle"
        /\ n.inFlight = gate[g].inFlight /\ n.epoch = gate[g].epoch /\ n.state = s
    BY <1>2, <1>3, <2>1
  <2>4. gate'[g] = n
    BY <2>2
  <2> HIDE DEF n
  <2> QED
    BY <2>1, <2>3, <2>4
<1>5. gate' \in [Features -> GateRecords]
  BY <1>1, <1>4
<1> QED
  BY <1>1, <1>4, <1>5

LEMMA ShutdownLifecycleStep ==
    ASSUME HostInv, ShutdownLifecycle
    PROVE  HostInv' /\ Calm /\ job' = job
<1>1. UNCHANGED <<rtVars, call, lateRemove, step, lease, late>>
  BY DEF ShutdownLifecycle
<1>2. RegistryInv' /\ Calm /\ job' = job /\ HostTypes
  BY <1>1, RegistryStutter DEF rtVars, HostInv
<1>3. /\ gate' \in [Features -> GateRecords] /\ phase' = "stopped"
      /\ stopping' = Undrained
      /\ \A g \in Features :
            /\ ~gate'[g].accepting /\ gate'[g].op = "idle"
            /\ gate'[g].inFlight = gate[g].inFlight /\ gate'[g].epoch = gate[g].epoch
            /\ g \in Undrained => gate'[g].state = "disabling"
            /\ g \notin Undrained => gate'[g].state = gate[g].state
  BY StoppedGates
<1>4. HostTypes'
  <2>1. stopping' \subseteq Features
    BY <1>3 DEF Undrained
  <2> QED
    BY <1>1, <1>2, <1>3, <2>1 DEF HostTypes
<1>5. Scopes'
  BY <1>1, <1>2, CalmScopes
<1>6. ASSUME NEW g \in Features
      PROVE  FeatureIn(g)'
  <2>1. FeatureIn(g)
    BY DEF HostInv
  <2>2. LeasesOf(g)' = LeasesOf(g)
    BY <1>1, <1>2 DEF LeasesOf
  <2>3. LeasesIn(g)'
    BY <1>2, <1>3, <2>1, <2>2 DEF FeatureIn, LeasesIn
  <2>4. g \notin Undrained => gate[g].state \notin {"enabled", "disabling"}
    BY DEF Undrained
  <2>5. GateIn(g)'
    BY <1>1, <1>3, <2>1, <2>4 DEF FeatureIn, GateIn, Running
  <2>6. HiddenIn(g)'
    BY <1>3 DEF HiddenIn, Running
  <2> QED
    BY <2>3, <2>5, <2>6 DEF FeatureIn
<1> QED
  BY <1>2, <1>4, <1>5, <1>6 DEF HostInv

LEMMA ShutdownDrainedStep ==
    ASSUME HostInv, NEW f \in Features, ShutdownDrained(f)
    PROVE  HostInv' /\ Calm /\ job' = job
<1>1. /\ UNCHANGED <<rtVars, call, lateRemove, phase, step, lease, late>>
      /\ f \in stopping /\ gate[f].inFlight = 0 /\ stopping' = stopping \ {f}
  BY DEF ShutdownDrained
<1>2. HostTypes /\ FeatureIn(f)
  BY DEF HostInv
<1>3. /\ gate' \in [Features -> GateRecords] /\ SameGatesBut(f)
      /\ gate'[f].state = "disabled" /\ (gate'[f].accepting <=> gate[f].accepting)
      /\ gate'[f].inFlight = gate[f].inFlight
      /\ gate'[f].epoch = gate[f].epoch /\ gate'[f].op = gate[f].op
  BY <1>2, DrainedGate DEF HostTypes
<1>4. ~Running /\ gate[f].state = "disabling" /\ gate[f].op = "idle" /\ ~gate[f].accepting
  BY <1>1, <1>2 DEF FeatureIn, GateIn
<1>5. HostTypes'
  BY <1>1, <1>2, <1>3 DEF HostTypes
<1>6. GateIn(f)'
  BY <1>1, <1>2, <1>3, <1>4 DEF FeatureIn, GateIn, Running
<1>7. HiddenIn(f)'
  BY <1>1, <1>4 DEF HiddenIn, Running
<1>8. SameCallsBut(f)
  BY <1>1 DEF SameCallsBut
<1> QED
  BY <1>1, <1>3, <1>5, <1>6, <1>7, <1>8, GateStep DEF Running

LEMMA ShutdownTimesOutStep ==
    ASSUME HostInv, NEW f \in Features, ShutdownTimesOut(f)
    PROVE  HostInv' /\ Calm /\ job' = job
<1>1. /\ UNCHANGED <<rtVars, call, lateRemove, phase, step, lease, late>>
      /\ f \in stopping /\ stopping' = stopping \ {f}
  BY DEF ShutdownTimesOut
<1>2. HostTypes /\ FeatureIn(f)
  BY DEF HostInv
<1>3. /\ gate' \in [Features -> GateRecords] /\ SameGatesBut(f)
      /\ gate'[f].state = "restart" /\ (gate'[f].accepting <=> gate[f].accepting)
      /\ gate'[f].inFlight = gate[f].inFlight
      /\ gate'[f].epoch = gate[f].epoch /\ gate'[f].op = gate[f].op
  BY <1>2, TimedOutGate DEF HostTypes
<1>4. ~Running /\ gate[f].state = "disabling" /\ gate[f].op = "idle" /\ ~gate[f].accepting
  BY <1>1, <1>2 DEF FeatureIn, GateIn
<1>5. HostTypes'
  BY <1>1, <1>2, <1>3 DEF HostTypes
<1>6. GateIn(f)'
  BY <1>1, <1>2, <1>3, <1>4 DEF FeatureIn, GateIn, Running
<1>7. HiddenIn(f)'
  BY <1>1, <1>4 DEF HiddenIn, Running
<1>8. SameCallsBut(f)
  BY <1>1 DEF SameCallsBut
<1> QED
  BY <1>1, <1>3, <1>5, <1>6, <1>7, <1>8, GateStep DEF Running

\* The host starts with every feature enabled and nothing registered.
LEMMA HostInvInit ==
    ASSUME HostInit
    PROVE  HostInv
<1> DEFINE g0 == [state |-> "enabled", accepting |-> TRUE, inFlight |-> 0, epoch |-> 1,
                  op |-> "idle"]
<1>1. /\ RuntimeInit /\ gate = [f \in Features |-> g0] /\ call = [f \in Features |-> NoCall]
      /\ lateRemove = {} /\ phase = "running" /\ stopping = {}
      /\ step = [j \in Jobs |-> "idle"] /\ lease = {} /\ late = {}
  BY DEF HostInit
<1>2. RegistryInv
  BY <1>1, RegistryInvInit
<1>3. /\ g0 \in GateRecords /\ g0.state = "enabled" /\ g0.accepting /\ g0.inFlight = 0
      /\ g0.epoch = 1 /\ g0.op = "idle"
  BY ConstantTypes DEF GateRecords, States, Operations
<1>4. NoCall \in CallRecords /\ NoCall.pc = "idle"
  BY DEF NoCall, CallRecords, CallSteps
<1> HIDE DEF g0
<1>5. HostTypes
  BY <1>1, <1>3, <1>4 DEF HostTypes, Steps
<1>6. Scopes
  <2>1. ASSUME NEW j \in Jobs
        PROVE  ScopeOf(j)
    <3>1. ~job[j].open
      <4>1. activeCount = 0 /\ IsFiniteSet(OpenJobs)
        BY <1>1, ConstantTypes, FS_Subset DEF RuntimeInit, OpenJobs
      <4>2. OpenJobs = {}
        BY <1>2, <4>1, FS_EmptySet DEF RegistryInv, Credits
      <4> QED
        BY <4>2 DEF OpenJobs
    <3>2. ~job[j].active
      BY <1>2, <3>1 DEF RegistryInv, Dormant
    <3>3. tombstones = {}
      BY <1>1 DEF RuntimeInit
    <3> QED
      BY <1>1, <3>1, <3>2, <3>3 DEF ScopeOf
  <2> QED
    BY <2>1 DEF Scopes
<1>7. ASSUME NEW f \in Features
      PROVE  FeatureIn(f)
  <2>1. LeasesOf(f) = {} /\ Cardinality({}) = 0
    BY <1>1, FS_EmptySet DEF LeasesOf
  <2>2. LeasesIn(f)
    BY <1>1, <1>3, <2>1 DEF LeasesIn
  <2>3. GateIn(f)
    BY <1>1, <1>3, <1>4 DEF GateIn, Running, Closing
  <2>4. HiddenIn(f)
    <3>1. live = {}
      BY <1>1 DEF RuntimeInit
    <3> QED
      BY <3>1 DEF HiddenIn
  <2> QED
    BY <2>2, <2>3, <2>4 DEF FeatureIn
<1> QED
  BY <1>2, <1>5, <1>6, <1>7 DEF HostInv

-----------------------------------------------------------------------------
(* Every step                                                                *)

LEMMA ThreadSteps ==
    ASSUME HostInv, NEW j \in Jobs, ThreadStep(j)
    PROVE  HostInv' /\ Final
<1>1. CASE Prepare(j)
  BY <1>1, PrepareStep
<1>2. CASE PrepareRefused(j)
  BY <1>2, PrepareRefusedStep, CalmFinal
<1>3. CASE CallProvider(j)
  BY <1>3, CallProviderStep
<1>4. CASE CallRefused(j)
  BY <1>4, CallRefusedStep, CalmFinal
<1>5. CASE Abandon(j)
  BY <1>5, AbandonStep, CalmFinal
<1>6. CASE PublishTerminal(j)
  BY <1>6, PublishTerminalStep, CalmFinal
<1>7. CASE PublishAuthorized(j)
  BY <1>7, PublishAuthorizedStep, CalmFinal
<1>8. CASE MarkerClearFails(j)
  BY <1>8, MarkerClearFailsStep, CalmFinal
<1>9. CASE TicketDrop(j)
  BY <1>9, TicketDropStep, CalmFinal
<1>10. CASE LeaseDrop(j)
  BY <1>10, LeaseDropStep, CalmFinal
<1> QED
  BY <1>1, <1>2, <1>3, <1>4, <1>5, <1>6, <1>7, <1>8, <1>9, <1>10 DEF ThreadStep

LEMMA FeatureCallSteps ==
    ASSUME HostInv, NEW f \in Features, CallStep(f)
    PROVE  HostInv' /\ Final
<1>1. CASE CancelScope(f)
  BY <1>1, CancelScopeStep, CalmFinal
<1>2. CASE WaitLeases(f)
  BY <1>2, WaitLeasesStep, CalmFinal
<1>3. CASE LeasesTimeOut(f)
  BY <1>3, LeasesTimeOutStep, CalmFinal
<1>4. CASE WaitPort(f)
  BY <1>4, WaitPortStep, CalmFinal
<1>5. CASE FinishDisable(f)
  BY <1>5, FinishDisableStep, CalmFinal
<1>6. CASE FinishRemove(f)
  BY <1>6, FinishRemoveStep, CalmFinal
<1>7. CASE FinishEnable(f)
  BY <1>7, FinishEnableStep, CalmFinal
<1>8. CASE Superseded(f)
  BY <1>8, SupersededStep, CalmFinal
<1>9. CASE \E j \in Jobs : CancelRetires(f, j)
  BY <1>9, CancelRetiresStep, CalmFinal
<1> QED
  BY <1>1, <1>2, <1>3, <1>4, <1>5, <1>6, <1>7, <1>8, <1>9 DEF CallStep

LEMMA LifecycleSteps ==
    ASSUME HostInv, NEW f \in Features,
           \/ Disable(f) \/ Remove(f) \/ RemoveResident(f) \/ FinishRemoveResident(f)
           \/ Enable(f) \/ CallStep(f)
    PROVE  HostInv' /\ Final
<1>1. CASE Disable(f)
  <2>1. CloseGate(f, "disabling")
    BY <1>1 DEF Disable
  <2> QED
    BY <2>1, CloseGateStep, CalmFinal
<1>2. CASE Remove(f)
  <2>1. CloseGate(f, "removing")
    BY <1>2 DEF Remove
  <2> QED
    BY <2>1, CloseGateStep, CalmFinal
<1>3. CASE RemoveResident(f)
  BY <1>3, RemoveResidentStep, CalmFinal
<1>4. CASE FinishRemoveResident(f)
  BY <1>4, FinishRemoveResidentStep, CalmFinal
<1>5. CASE Enable(f)
  BY <1>5, EnableStep, CalmFinal
<1>6. CASE CallStep(f)
  BY <1>6, FeatureCallSteps
<1> QED
  BY <1>1, <1>2, <1>3, <1>4, <1>5, <1>6

LEMMA HostInvNext ==
    ASSUME HostInv, [Next]_vars
    PROVE  HostInv' /\ Final
<1>1. ASSUME NEW j \in Jobs, NEW f \in setup.features, TryEnter(j, f)
      PROVE  HostInv' /\ Final
  BY <1>1, SetupFeatures, TryEnterStep
<1>2. ASSUME NEW j \in Jobs,
             \/ ThreadStep(j) \/ PluginSubmits(j) \/ PluginMisbehaves(j) \/ PluginReturns(j)
             \/ HostRetires(j) \/ UiRequest(j)
      PROVE  HostInv' /\ Final
  <2>1. CASE ThreadStep(j)
    BY <2>1, ThreadSteps
  <2>2. CASE PluginSubmits(j)
    BY <2>2, PluginSubmitsStep, CalmFinal
  <2>3. CASE PluginMisbehaves(j)
    BY <2>3, PluginMisbehavesStep, CalmFinal
  <2>4. CASE PluginReturns(j)
    BY <2>4, PluginReturnsStep
  <2>5. CASE HostRetires(j)
    BY <2>5, HostRetiresStep, CalmFinal
  <2>6. CASE UiRequest(j)
    BY <2>6, UiRequestStep, CalmFinal
  <2> QED
    BY <1>2, <2>1, <2>2, <2>3, <2>4, <2>5, <2>6
<1>3. ASSUME NEW f \in setup.features,
             \/ Disable(f) \/ Remove(f) \/ RemoveResident(f) \/ FinishRemoveResident(f)
             \/ Enable(f) \/ CallStep(f)
      PROVE  HostInv' /\ Final
  BY <1>3, SetupFeatures, LifecycleSteps
<1>4. ASSUME NEW f \in Features, ShutdownDrained(f) \/ ShutdownTimesOut(f)
      PROVE  HostInv' /\ Final
  BY <1>4, ShutdownDrainedStep, ShutdownTimesOutStep, CalmFinal
<1>5. CASE ShutdownMailbox
  BY <1>5, ShutdownMailboxStep, CalmFinal
<1>6. CASE ShutdownRegistry
  BY <1>6, ShutdownRegistryStep, CalmFinal
<1>7. CASE ShutdownLifecycle
  BY <1>7, ShutdownLifecycleStep, CalmFinal
<1>8. CASE UiStep
  BY <1>8, UiStepStep, CalmFinal
<1>9. CASE UNCHANGED vars
  <2>1. UNCHANGED <<rtVars, gate, call, lateRemove, phase, stopping, step, lease, late>>
    BY <1>9 DEF vars, hostVars
  <2> QED
    BY <2>1, RegistryStutter, CalmStand, CalmFinal
<1> QED
  BY <1>1, <1>2, <1>3, <1>4, <1>5, <1>6, <1>7, <1>8, <1>9 DEF Next

LEMMA HostInvAlways == Spec => []HostInv
<1>1. HostInit => HostInv
  BY HostInvInit
<1>2. HostInv /\ [Next]_vars => HostInv'
  BY HostInvNext
<1> QED
  BY <1>1, <1>2, PTL DEF Spec

-----------------------------------------------------------------------------
(* The properties of the host                                                *)

\* Every gate, call, job, value token and mailbox keeps its shape: no gate
\* counts more leases than there are dispatches, an operation in progress has
\* its call, and only an enabled gate accepts.
THEOREM HostTypeCorrect == Spec => []TypeOK
<1>1. ASSUME HostInv
      PROVE  TypeOK
  <2>1. HostTypes /\ RegistryTypes /\ \A f \in Features : FeatureIn(f)
    BY <1>1 DEF HostInv, RegistryInv
  <2>2. ASSUME NEW f \in Features
        PROVE  gate[f] \in [state : {"enabled", "disabling", "disabled", "restart"},
                            accepting : BOOLEAN, inFlight : 0..Cardinality(Jobs),
                            epoch : Epochs,
                            op : {"idle", "enabling", "disabling", "removing"}]
    <3>1. LeasesOf(f) \subseteq Jobs /\ IsFiniteSet(Jobs)
      BY <2>1, ConstantTypes DEF LeasesOf, HostTypes
    <3>2. Cardinality(LeasesOf(f)) <= Cardinality(Jobs) /\ Cardinality(LeasesOf(f)) \in Nat
          /\ Cardinality(Jobs) \in Nat
      BY <3>1, FS_Subset, FS_CardinalityType
    <3>3. gate[f].inFlight = Cardinality(LeasesOf(f))
      BY <2>1 DEF FeatureIn, LeasesIn
    <3>4. gate[f].inFlight \in 0..Cardinality(Jobs)
      BY <3>2, <3>3
    <3>5. gate[f] \in GateRecords
      BY <2>1 DEF HostTypes
    <3> QED
      BY <3>4, <3>5 DEF GateRecords, States, Operations
  <2>3. gate \in [Features -> [state : {"enabled", "disabling", "disabled", "restart"},
                               accepting : BOOLEAN, inFlight : 0..Cardinality(Jobs),
                               epoch : Epochs,
                               op : {"idle", "enabling", "disabling", "removing"}]]
    BY <2>1, <2>2 DEF HostTypes
  <2>4. call \in [Features -> [pc : {"idle", "cancel", "leases", "port", "finish", "restore"},
                               todo : SUBSET Jobs, drained : BOOLEAN]]
    BY <2>1 DEF HostTypes, CallRecords, CallSteps
  <2>5. /\ lateRemove \subseteq Features /\ stopping \subseteq Features
        /\ phase \in {"running", "closing", "revoked", "stopped"}
        /\ step \in [Jobs -> {"idle", "leased", "prepared", "inside", "returned", "finished",
                              "published", "gone"}]
        /\ lease \subseteq Jobs /\ late \subseteq Jobs
    BY <2>1 DEF HostTypes, Steps
  <2>6. ASSUME NEW j \in Jobs
        PROVE  /\ job[j].terminal \in Terminals \cup {"none"}
               /\ job[j].control \in Controls
               /\ job[j].final \in {"idle", "pending", "authorized"}
               /\ job[j].gen \in Gens /\ job[j].e \in Epochs /\ job[j].f \in Features
    <3>1. job[j] \in JobRecords
      BY <2>1 DEF RegistryTypes
    <3> QED
      BY <3>1 DEF JobRecords
  <2>7. /\ revoked \subseteq Keys /\ tombstones \subseteq Tokens /\ live \subseteq Tokens
        /\ mail.ready \subseteq Tokens /\ Cardinality(mail.ready) <= ReadyCap
        /\ sending \subseteq Tokens
        /\ ui.todo \subseteq Tokens /\ ui.shown \subseteq Tokens
    BY <2>1 DEF RegistryTypes
  <2>8. \A f \in Features : /\ gate[f].op # "idle" => call[f].pc # "idle"
                            /\ gate[f].accepting => gate[f].state = "enabled"
    <3> SUFFICES ASSUME NEW f \in Features
                 PROVE  /\ gate[f].op # "idle" => call[f].pc # "idle"
                        /\ gate[f].accepting => gate[f].state = "enabled"
      OBVIOUS
    <3>1. GateIn(f)
      BY <2>1 DEF FeatureIn
    <3>2. gate[f].op \in Operations
      BY <2>1 DEF HostTypes, GateRecords
    <3> QED
      BY <3>1, <3>2 DEF GateIn, Operations, Closing
  <2> QED
    BY <2>3, <2>4, <2>5, <2>6, <2>7, <2>8 DEF TypeOK
<1> QED
  BY <1>1, HostInvAlways, PTL

\* The three counters of the registry and the leases of every gate count what
\* they stand for, within the limits, so the checked subtractions of
\* extension_job_runtime.rs never fail.
THEOREM HostCountersAgree == Spec => []CountersAgree
<1>1. ASSUME HostInv
      PROVE  CountersAgree
  <2>1. /\ Credits /\ \A f \in Features : LeasesIn(f)
    BY <1>1 DEF HostInv, RegistryInv, FeatureIn
  <2> QED
    BY <2>1 DEF CountersAgree, Credits, OpenJobs, LeasesIn, LeasesOf
<1> QED
  BY <1>1, HostInvAlways, PTL

\* Once revoke_generation_and_close has run, nothing of the generation is
\* current any more: no value the UI was given, no batch it holds, no row and
\* no queue of the registry.
THEOREM RevocationIsComplete == Spec => []RevokedShowsNothing
<1>1. ASSUME HostInv
      PROVE  RevokedShowsNothing
  <2>1. /\ Values /\ Contents
    BY <1>1 DEF HostInv, RegistryInv
  <2>2. \A t \in UiTokens : t[2] = 1
    BY <2>1 DEF UiTokens, Contents
  <2>3. \A t \in live \cap UiTokens : Key(t[1]) \notin revoked
    BY <2>1, <2>2 DEF Values
  <2> QED
    BY <2>1, <2>3 DEF RevokedShowsNothing, Contents
<1> QED
  BY <1>1, HostInvAlways, PTL

\* Rows and batches of an older generation of the host's view are never
\* current, though the UI still holds them.
THEOREM OldRowsStayDead == Spec => []OldRowsAreDead
<1>1. HostInv => OldRowsAreDead
  BY DEF HostInv, RegistryInv, Values, OldRowsAreDead
<1> QED
  BY <1>1, HostInvAlways, PTL

\* A feature that disable reported as resident shows nothing of the epoch it
\* ended, unless the job was prepared after the revocation.
THEOREM DisabledShowsNothing == Spec => []DisabledHidesValues
<1>1. ASSUME HostInv
      PROVE  DisabledHidesValues
  <2> SUFFICES ASSUME NEW f \in Features, Running, gate[f].state = "disabled",
                      NEW t \in live \cap ui.shown, job[t[1]].f = f, t[1] \notin late
               PROVE  FALSE
    BY DEF DisabledHidesValues
  <2>1. GateIn(f) /\ HiddenIn(f) /\ RegistryTypes /\ Contents
    BY <1>1 DEF HostInv, FeatureIn, RegistryInv
  <2>2. t = <<t[1], 1>> /\ t[1] \in Jobs
    BY <2>1 DEF RegistryTypes, Tokens, Contents
  <2>3. call[f].pc # "cancel"
    BY <2>1 DEF GateIn, Closing
  <2> QED
    BY <2>1, <2>2, <2>3 DEF HiddenIn
<1> QED
  BY <1>1, HostInvAlways, PTL

\* While the mailbox is open, a job with batches the UI could show is announced
\* somewhere, or a rescan that will find it is due: no wake-up is lost between
\* the registry's lock, the mailbox and the UI.
THEOREM NoWakeupIsLost == Spec => []QueuedIsAnnounced
<1>1. HostInv => QueuedIsAnnounced
  BY DEF HostInv, RegistryInv, Signalled, Pending, Told, RescanDue, RescanTaken,
         QueuedIsAnnounced
<1> QED
  BY <1>1, HostInvAlways, PTL

\* A job that may retire keeps that right until it is removed, and its terminal
\* changes only in the step that revokes its generation.
THEOREM RetirementStaysFinal == Spec => RetirementIsFinal
<1>1. HostInv /\ [Next]_vars =>
        [\A j \in Jobs :
          /\ (Retirable(j) /\ job'[j].open) => Retirable(j)'
          /\ (job'[j].open /\ job[j].terminal # "none" /\ job'[j].terminal # job[j].terminal) =>
                /\ Key(j) \in revoked' \ revoked
                /\ job'[j].terminal \in {"cancelled", "incompatible"}]_vars
  BY HostInvNext DEF Final, FinalKept
<1> QED
  BY <1>1, HostInvAlways, PTL DEF Spec, RetirementIsFinal

-----------------------------------------------------------------------------
(* The host implements the callback fence                                    *)

\* What the fence sees of the host.
Entered == {<<j, job[j].f>> : j \in lease}
Inside == {j \in Jobs : step[j] = "inside"}

LEMMA FenceVars ==
    ASSUME FenceStatus' = FenceStatus, Entered' = Entered, Inside' = Inside
    PROVE  UNCHANGED Fence!fenceVars
  BY DEF Fence!fenceVars, Entered, Inside

\* The state of a gate as the fence sees it.
LEMMA StatusOf ==
    ASSUME HostTypes, NEW f \in Features
    PROVE  /\ FenceStatus[f] = "open" <=> gate[f].state = "enabled"
           /\ FenceStatus[f] = "closing" <=> gate[f].state = "disabling"
           /\ FenceStatus[f] = "closed" <=> gate[f].state = "disabled"
           /\ FenceStatus[f] = "broken" <=> gate[f].state = "restart"
           /\ FenceStatus[f] \in {"open", "closing", "closed", "broken"}
<1>1. gate[f].state \in States
  BY DEF HostTypes, GateRecords
<1> QED
  BY <1>1 DEF FenceStatus, States

LEMMA SameStatus ==
    ASSUME \A f \in Features : gate'[f].state = gate[f].state
    PROVE  FenceStatus' = FenceStatus
  BY DEF FenceStatus

LEMMA SameEntered ==
    ASSUME lease' = lease, \A j \in lease : job'[j].f = job[j].f
    PROVE  Entered' = Entered
<1>1. \A x : x \in Entered' <=> x \in Entered
  BY DEF Entered
<1> QED
  BY <1>1

\* Most steps of the host are invisible.
LEMMA FenceStutter ==
    ASSUME HostInv, Calm, UNCHANGED <<gate, lease>>,
           \A k \in Jobs : step'[k] = "inside" <=> step[k] = "inside"
    PROVE  UNCHANGED Fence!fenceVars
<1>1. \A k \in lease : job'[k].f = job[k].f
  BY DEF Calm, CalmFor, SameKey, HostInv, HostTypes
<1>2. Entered' = Entered
  BY <1>1, SameEntered
<1>3. FenceStatus' = FenceStatus
  BY SameStatus
<1>4. Inside' = Inside
  BY DEF Inside
<1> QED
  BY <1>2, <1>3, <1>4, FenceVars

\* A thread outside plugin code moves.
LEMMA FenceMove ==
    ASSUME HostInv, Calm, UNCHANGED <<gate, lease>>, NEW j \in Jobs, NEW s,
           s # "inside", step[j] # "inside", step' = [step EXCEPT ![j] = s]
    PROVE  UNCHANGED Fence!fenceVars
<1>1. step \in [Jobs -> Steps]
  BY DEF HostInv, HostTypes
<1>2. \A k \in Jobs : step'[k] = "inside" <=> step[k] = "inside"
  BY <1>1
<1> QED
  BY <1>2, FenceStutter

\* A step on one gate changes one status.
LEMMA FenceGate ==
    ASSUME HostInv, NEW f \in Features, SameGatesBut(f), job' = job,
           UNCHANGED <<step, lease>>
    PROVE  /\ Entered' = Entered /\ Inside' = Inside
           /\ FenceStatus' = [FenceStatus EXCEPT ![f] = FenceStatus'[f]]
<1>1. Entered' = Entered /\ Inside' = Inside
  BY DEF Entered, Inside
<1>2. \A g \in Features : g # f => FenceStatus'[g] = FenceStatus[g]
  BY DEF FenceStatus, SameGatesBut
<1>3. FenceStatus \in [Features -> {FenceStatus[g] : g \in Features}]
      /\ FenceStatus' \in [Features -> {FenceStatus'[g] : g \in Features}]
  BY DEF FenceStatus
<1> QED
  BY <1>1, <1>2, <1>3

\* No dispatch is in a feature without leases.
LEMMA NobodyEntered ==
    ASSUME HostInv, NEW f \in Features, gate[f].inFlight = 0
    PROVE  \A d \in Jobs : <<d, f>> \notin Entered
<1>1. LeasesOf(f) = {}
  BY NoLeases
<1> QED
  BY <1>1 DEF LeasesOf, Entered

LEMMA TryEnterFence ==
    ASSUME HostInv, NEW j \in Jobs, NEW f \in Features, TryEnter(j, f)
    PROVE  Fence!Enter(j, f)
<1>1. /\ step[j] = "idle" /\ step' = [step EXCEPT ![j] = "leased"]
      /\ gate[f].state = "enabled" /\ lease' = lease \cup {j}
      /\ j \notin lease /\ job'[j].f = f /\ \A k \in Jobs : k # j => job'[k] = job[k]
  BY TryEnterStep DEF TryEnter
<1>2. HostTypes
  BY DEF HostInv
<1>3. /\ gate' \in [Features -> GateRecords] /\ SameGatesBut(f)
      /\ gate'[f].state = gate[f].state
  BY <1>2, LeasedGate DEF HostTypes
<1>4. FenceStatus' = FenceStatus
  BY <1>3, SameStatus DEF SameGatesBut
<1>5. Inside' = Inside
  BY <1>1, <1>2 DEF Inside, HostTypes
<1>6. Entered' = Entered \cup {<<j, f>>}
  <2>1. \A x : x \in Entered' <=> x \in Entered \/ x = <<j, f>>
    BY <1>1, <1>2 DEF Entered, HostTypes
  <2> QED
    BY <2>1
<1>7. FenceStatus[f] = "open" /\ \A g \in Features : <<j, g>> \notin Entered
  BY <1>1, <1>2, StatusOf DEF Entered
<1> QED
  BY <1>4, <1>5, <1>6, <1>7 DEF Fence!Enter, Entered, Inside

LEMMA CallProviderFence ==
    ASSUME HostInv, NEW j \in Jobs, CallProvider(j)
    PROVE  Fence!Begin(j)
<1>1. /\ step[j] = "prepared" /\ step' = [step EXCEPT ![j] = "inside"]
      /\ UNCHANGED <<gate, lease>> /\ EnterScope(j)
  BY DEF CallProvider
<1>2. HostTypes /\ job[j].f \in Features /\ job[j].open
  BY <1>1 DEF HostInv, RegistryInv, RegistryTypes, JobRecords, EnterScope, EnterAllowed
<1>3. j \in lease
  BY <1>2 DEF HostInv, Scopes, ScopeOf
<1>4. <<j, job[j].f>> \in Entered
  BY <1>3 DEF Entered
<1>5. \A k \in lease : job'[k].f = job[k].f
  BY <1>2, CallProviderStep DEF SameKey, HostTypes
<1>6. Entered' = Entered /\ FenceStatus' = FenceStatus
  BY <1>1, <1>5, SameEntered, SameStatus
<1>7. Inside' = Inside \cup {j}
  BY <1>1, <1>2 DEF Inside, HostTypes
<1> QED
  BY <1>2, <1>4, <1>6, <1>7 DEF Fence!Begin, Entered, Inside

LEMMA PluginReturnsFence ==
    ASSUME HostInv, NEW j \in Jobs, PluginReturns(j)
    PROVE  Fence!End(j)
<1>1. /\ step[j] = "inside" /\ step' = [step EXCEPT ![j] = "returned"]
      /\ UNCHANGED <<gate, lease>>
  BY DEF PluginReturns
<1>2. HostTypes
  BY DEF HostInv
<1>3. \A k \in lease : job'[k].f = job[k].f
  BY <1>2, PluginReturnsStep DEF SameKey, HostTypes
<1>4. Entered' = Entered /\ FenceStatus' = FenceStatus
  BY <1>1, <1>3, SameEntered, SameStatus
<1>5. Inside' = Inside \ {j} /\ j \in Inside
  BY <1>1, <1>2 DEF Inside, HostTypes
<1> QED
  BY <1>4, <1>5 DEF Fence!End, Entered, Inside

LEMMA LeaseDropFence ==
    ASSUME HostInv, NEW j \in Jobs, LeaseDrop(j)
    PROVE  \E f \in Features : Fence!Leave(j, f)
<1>1. /\ Calm /\ j \in lease /\ lease' = lease \ {j} /\ step[j] # "inside"
      /\ \A g \in Features : gate'[g].state = gate[g].state
  BY LeaseDropStep
<1>2. /\ step' = step /\ job' = job
  BY DEF LeaseDrop, rtVars
<1>3. PICK f \in Features : f = job[j].f
  BY DEF HostInv, RegistryInv, RegistryTypes, JobRecords
<1>4. Inside' = Inside /\ FenceStatus' = FenceStatus
  BY <1>1, <1>2, SameStatus DEF Inside
<1>5. Entered' = Entered \ {<<j, f>>} /\ <<j, f>> \in Entered
  <2>1. \A x : x \in Entered' <=> x \in Entered /\ x # <<j, f>>
    BY <1>1, <1>2, <1>3 DEF Entered
  <2>2. <<j, f>> \in Entered
    BY <1>1, <1>3 DEF Entered
  <2> QED
    BY <2>1, <2>2
<1>6. j \notin Inside
  BY <1>1 DEF Inside
<1>7. Fence!Leave(j, f)
  BY <1>4, <1>5, <1>6 DEF Fence!Leave, Entered, Inside
<1> QED
  BY <1>7

\* Closing one gate is closing a set of one.
LEMMA CloseGateFence ==
    ASSUME HostInv, NEW f \in Features, NEW op \in {"disabling", "removing"}, CloseGate(f, op)
    PROVE  Fence!Close({f})
<1>1. HostTypes /\ gate[f].state = "enabled" /\ UNCHANGED <<step, lease>> /\ job' = job
  BY DEF HostInv, CloseGate, rtVars
<1>2. /\ SameGatesBut(f) /\ gate'[f].state = "disabling"
  BY <1>1, ClosedGate DEF HostTypes
<1>3. Entered' = Entered /\ Inside' = Inside
  BY <1>1, <1>2, FenceGate
<1>4. FenceStatus[f] # "broken"
  BY <1>1, StatusOf
<1>5. FenceStatus' = [g \in Features |-> IF g \in {f} THEN "closing" ELSE FenceStatus[g]]
  <2>1. FenceStatus'[f] = "closing"
    BY <1>2 DEF FenceStatus
  <2>2. \A g \in Features : g # f => FenceStatus'[g] = FenceStatus[g]
    BY <1>2 DEF FenceStatus, SameGatesBut
  <2>3. FenceStatus' = [g \in Features |-> FenceStatus'[g]]
    BY DEF FenceStatus
  <2> QED
    BY <2>1, <2>2, <2>3
<1> QED
  BY <1>3, <1>4, <1>5 DEF Fence!Close, Entered, Inside

LEMMA ShutdownLifecycleFence ==
    ASSUME HostInv, ShutdownLifecycle
    PROVE  Undrained \subseteq Features /\ Fence!Close(Undrained)
<1>1. HostTypes /\ UNCHANGED <<step, lease>> /\ job' = job
  BY DEF HostInv, ShutdownLifecycle, rtVars
<1>2. /\ \A g \in Undrained : gate'[g].state = "disabling"
      /\ \A g \in Features : g \notin Undrained => gate'[g].state = gate[g].state
  BY StoppedGates DEF Undrained
<1>3. Entered' = Entered /\ Inside' = Inside
  BY <1>1 DEF Entered, Inside
<1>4. \A g \in Undrained : FenceStatus[g] # "broken"
  <2> SUFFICES ASSUME NEW g \in Undrained
               PROVE  gate[g].state # "restart"
    BY <1>1, StatusOf DEF Undrained
  <2>1. g \in Features /\ GateIn(g) /\ gate[g].op \in Operations
    BY <1>1 DEF HostInv, FeatureIn, Undrained, HostTypes, GateRecords
  <2>2. gate[g].state \in {"enabled", "disabling"} \/ gate[g].op # "idle"
    BY DEF Undrained
  <2> QED
    BY <2>1, <2>2 DEF GateIn, Operations
<1>5. FenceStatus' = [g \in Features |-> IF g \in Undrained THEN "closing" ELSE FenceStatus[g]]
  <2>1. \A g \in Features : g \in Undrained => FenceStatus'[g] = "closing"
    BY <1>2 DEF FenceStatus
  <2>2. \A g \in Features : g \notin Undrained => FenceStatus'[g] = FenceStatus[g]
    BY <1>2 DEF FenceStatus
  <2>3. FenceStatus' = [g \in Features |-> FenceStatus'[g]]
    BY DEF FenceStatus
  <2> QED
    BY <2>1, <2>2, <2>3
<1>6. Undrained \subseteq Features
  BY DEF Undrained
<1> QED
  BY <1>3, <1>4, <1>5, <1>6 DEF Fence!Close, Entered, Inside

\* A gate that ends closed had been closing, and its leases are gone.
LEMMA ClosedFence ==
    ASSUME HostInv, NEW f \in Features, SameGatesBut(f), job' = job, UNCHANGED <<step, lease>>,
           gate[f].state = "disabling", gate[f].inFlight = 0, gate'[f].state = "disabled"
    PROVE  Fence!Closed(f)
<1>1. /\ Entered' = Entered /\ Inside' = Inside
      /\ FenceStatus' = [FenceStatus EXCEPT ![f] = FenceStatus'[f]]
  BY FenceGate
<1>2. FenceStatus[f] = "closing" /\ FenceStatus'[f] = "closed"
  BY DEF FenceStatus
<1>3. \A d \in Jobs : <<d, f>> \notin Entered
  BY NobodyEntered
<1> QED
  BY <1>1, <1>2, <1>3 DEF Fence!Closed, Entered, Inside

LEMMA BrokenFence ==
    ASSUME HostInv, NEW f \in Features, SameGatesBut(f), job' = job, UNCHANGED <<step, lease>>,
           gate'[f].state = "restart"
    PROVE  Fence!Break(f)
<1>1. /\ Entered' = Entered /\ Inside' = Inside
      /\ FenceStatus' = [FenceStatus EXCEPT ![f] = FenceStatus'[f]]
  BY FenceGate
<1>2. FenceStatus'[f] = "broken"
  BY DEF FenceStatus
<1> QED
  BY <1>1, <1>2 DEF Fence!Break, Entered, Inside

LEMMA FinishDisableFence ==
    ASSUME HostInv, NEW f \in Features, FinishDisable(f)
    PROVE  Fence!Closed(f) \/ Fence!Break(f)
<1>1. /\ HostTypes /\ GateIn(f) /\ UNCHANGED <<step, lease>> /\ job' = job
      /\ call[f].pc = "finish" /\ gate[f].op = "disabling"
  BY DEF HostInv, FeatureIn, FinishDisable, rtVars
<1>2. /\ SameGatesBut(f)
      /\ gate'[f].state = (IF call[f].drained THEN "disabled" ELSE "restart")
  BY <1>1, DisabledGate DEF HostTypes
<1>3. CASE call[f].drained
  <2>1. gate[f].state = "disabling" /\ gate[f].inFlight = 0 /\ gate'[f].state = "disabled"
    BY <1>1, <1>2, <1>3 DEF GateIn
  <2> QED
    BY <1>1, <1>2, <2>1, ClosedFence
<1>4. CASE ~call[f].drained
  BY <1>1, <1>2, <1>4, BrokenFence
<1> QED
  BY <1>3, <1>4

LEMMA FinishRemoveFence ==
    ASSUME HostInv, NEW f \in Features, FinishRemove(f)
    PROVE  Fence!Break(f)
<1>1. HostTypes /\ UNCHANGED <<step, lease>> /\ job' = job
  BY DEF HostInv, FinishRemove, rtVars
<1>2. SameGatesBut(f) /\ gate'[f].state = "restart"
  BY <1>1, RemovedGate DEF HostTypes
<1> QED
  BY <1>1, <1>2, BrokenFence

LEMMA FinishRemoveResidentFence ==
    ASSUME HostInv, NEW f \in Features, FinishRemoveResident(f)
    PROVE  Fence!Break(f) \/ UNCHANGED Fence!fenceVars
<1>1. HostTypes /\ UNCHANGED <<step, lease>> /\ job' = job
  BY DEF HostInv, FinishRemoveResident, rtVars
<1>2. CASE Running
  <2>1. SameGatesBut(f) /\ gate'[f].state = "restart"
    BY <1>1, <1>2, LateClosedGate DEF HostTypes
  <2> QED
    BY <1>1, <2>1, BrokenFence
<1>3. CASE ~Running
  <2>1. gate' = gate /\ Calm
    BY <1>3, FinishRemoveResidentStep DEF FinishRemoveResident
  <2> QED
    BY <1>1, <2>1, FenceStutter
<1> QED
  BY <1>2, <1>3

LEMMA FinishEnableFence ==
    ASSUME HostInv, NEW f \in Features, FinishEnable(f)
    PROVE  Fence!Reopen(f)
<1>1. /\ HostTypes /\ GateIn(f) /\ UNCHANGED <<step, lease>> /\ job' = job
      /\ gate[f].op = "enabling"
  BY DEF HostInv, FeatureIn, FinishEnable, rtVars
<1>2. gate[f].state = "disabled" /\ gate[f].epoch < MaxEpoch
  BY <1>1 DEF GateIn
<1>3. SameGatesBut(f) /\ gate'[f].state = "enabled"
  BY <1>1, <1>2, EnabledGate DEF HostTypes
<1>4. /\ Entered' = Entered /\ Inside' = Inside
      /\ FenceStatus' = [FenceStatus EXCEPT ![f] = FenceStatus'[f]]
  BY <1>1, <1>3, FenceGate
<1>5. FenceStatus[f] = "closed" /\ FenceStatus'[f] = "open"
  BY <1>2, <1>3 DEF FenceStatus
<1> QED
  BY <1>4, <1>5 DEF Fence!Reopen, Entered, Inside

LEMMA ShutdownDrainedFence ==
    ASSUME HostInv, NEW f \in Features, ShutdownDrained(f)
    PROVE  Fence!Closed(f)
<1>1. /\ HostTypes /\ GateIn(f) /\ UNCHANGED <<step, lease>> /\ job' = job
      /\ f \in stopping /\ gate[f].inFlight = 0
  BY DEF HostInv, FeatureIn, ShutdownDrained, rtVars
<1>2. SameGatesBut(f) /\ gate'[f].state = "disabled" /\ gate[f].state = "disabling"
  BY <1>1, DrainedGate DEF HostTypes, GateIn
<1> QED
  BY <1>1, <1>2, ClosedFence

LEMMA ShutdownTimesOutFence ==
    ASSUME HostInv, NEW f \in Features, ShutdownTimesOut(f)
    PROVE  Fence!Break(f)
<1>1. HostTypes /\ UNCHANGED <<step, lease>> /\ job' = job
  BY DEF HostInv, ShutdownTimesOut, rtVars
<1>2. SameGatesBut(f) /\ gate'[f].state = "restart"
  BY <1>1, TimedOutGate DEF HostTypes
<1> QED
  BY <1>1, <1>2, BrokenFence

\* Steps of a dispatching thread: into and out of plugin code and out of the
\* feature; all others the fence does not see.
LEMMA ThreadFence ==
    ASSUME HostInv, NEW j \in Jobs, ThreadStep(j)
    PROVE  [Fence!Next]_(Fence!fenceVars)
<1>1. CASE Prepare(j)
  <2>1. UNCHANGED <<gate, lease>> /\ step[j] = "leased" /\ step' = [step EXCEPT ![j] = "prepared"]
    BY <1>1 DEF Prepare
  <2>2. HostTypes /\ \A k \in lease : job'[k].f = job[k].f
    BY <1>1, PrepareStep DEF HostInv, HostTypes, SameKey
  <2>3. Entered' = Entered /\ FenceStatus' = FenceStatus
    BY <2>1, <2>2, SameEntered, SameStatus
  <2>4. Inside' = Inside
    BY <2>1, <2>2 DEF Inside, HostTypes
  <2> QED
    BY <2>3, <2>4, FenceVars
<1>2. CASE PrepareRefused(j)
  <2>1. /\ UNCHANGED <<gate, lease>> /\ step[j] = "leased" /\ step' = [step EXCEPT ![j] = "gone"]
        /\ Calm
    BY <1>2, PrepareRefusedStep DEF PrepareRefused
  <2> QED
    BY <2>1, FenceMove
<1>3. CASE CallProvider(j)
  BY <1>3, CallProviderFence DEF Fence!Next
<1>4. CASE CallRefused(j)
  <2>1. /\ UNCHANGED <<gate, lease>> /\ step[j] = "prepared"
        /\ step' = [step EXCEPT ![j] = "published"] /\ Calm
    BY <1>4, CallRefusedStep DEF CallRefused
  <2> QED
    BY <2>1, FenceMove
<1>5. CASE Abandon(j)
  <2>1. /\ UNCHANGED <<gate, lease>> /\ step[j] \in {"prepared", "returned"}
        /\ step' = [step EXCEPT ![j] = "published"] /\ Calm
    BY <1>5, AbandonStep DEF Abandon
  <2> QED
    BY <2>1, FenceMove
<1>6. CASE PublishTerminal(j)
  <2>1. /\ UNCHANGED <<gate, lease>> /\ step[j] = "returned"
        /\ step' = [step EXCEPT ![j] = "finished"] /\ Calm
    BY <1>6, PublishTerminalStep DEF PublishTerminal
  <2> QED
    BY <2>1, FenceMove
<1>7. CASE PublishAuthorized(j)
  <2>1. /\ UNCHANGED <<gate, lease>> /\ step[j] = "finished"
        /\ step' = [step EXCEPT ![j] = "published"] /\ Calm
    BY <1>7, PublishAuthorizedStep DEF PublishAuthorized
  <2> QED
    BY <2>1, FenceMove
<1>8. CASE MarkerClearFails(j)
  <2>1. /\ UNCHANGED <<gate, lease>> /\ step[j] = "returned"
        /\ step' = [step EXCEPT ![j] = "published"] /\ Calm
    BY <1>8, MarkerClearFailsStep DEF MarkerClearFails
  <2> QED
    BY <2>1, FenceMove
<1>9. CASE TicketDrop(j)
  <2>1. /\ UNCHANGED <<gate, lease>> /\ step[j] = "published"
        /\ step' = [step EXCEPT ![j] = "gone"] /\ Calm
    BY <1>9, TicketDropStep DEF TicketDrop
  <2> QED
    BY <2>1, FenceMove
<1>10. CASE LeaseDrop(j)
  <2>1. PICK f \in Features : Fence!Leave(j, f)
    BY <1>10, LeaseDropFence
  <2> QED
    BY <2>1 DEF Fence!Next
<1> QED
  BY <1>1, <1>2, <1>3, <1>4, <1>5, <1>6, <1>7, <1>8, <1>9, <1>10 DEF ThreadStep

\* Steps that leave gates, leases and threads where they are.
LEMMA QuietFence ==
    ASSUME HostInv, Calm, UNCHANGED <<gate, lease, step>>
    PROVE  [Fence!Next]_(Fence!fenceVars)
  BY FenceStutter

\* Steps of the lifecycle.
LEMMA LifecycleFence ==
    ASSUME HostInv, NEW f \in Features,
           \/ Disable(f) \/ Remove(f) \/ RemoveResident(f) \/ FinishRemoveResident(f)
           \/ Enable(f) \/ CallStep(f)
    PROVE  [Fence!Next]_(Fence!fenceVars)
<1>1. CASE Disable(f)
  <2>1. CloseGate(f, "disabling") /\ {f} \in SUBSET Features
    BY <1>1 DEF Disable
  <2> QED
    BY <2>1, CloseGateFence DEF Fence!Next
<1>2. CASE Remove(f)
  <2>1. CloseGate(f, "removing") /\ {f} \in SUBSET Features
    BY <1>2 DEF Remove
  <2> QED
    BY <2>1, CloseGateFence DEF Fence!Next
<1>3. CASE RemoveResident(f)
  BY <1>3, RemoveResidentStep, QuietFence DEF RemoveResident
<1>4. CASE FinishRemoveResident(f)
  BY <1>4, FinishRemoveResidentFence DEF Fence!Next
<1>5. CASE Enable(f)
  <2>1. HostTypes /\ UNCHANGED <<step, lease>> /\ Calm /\ gate[f].epoch < MaxEpoch
    BY <1>5, EnableStep DEF HostInv, Enable
  <2>2. SameGatesBut(f) /\ gate'[f].state = gate[f].state /\ job' = job
    BY <1>5, <2>1, EnablingGate, EnableStep DEF HostTypes
  <2>3. FenceStatus' = FenceStatus
    BY <2>2, SameStatus DEF SameGatesBut
  <2>4. Entered' = Entered /\ Inside' = Inside
    BY <2>1, <2>2 DEF Entered, Inside
  <2> QED
    BY <2>3, <2>4, FenceVars
<1>6. CASE CallStep(f)
  <2>1. CASE CancelScope(f)
    BY <2>1, CancelScopeStep, QuietFence DEF CancelScope
  <2>2. CASE WaitLeases(f)
    BY <2>2, WaitLeasesStep, QuietFence DEF WaitLeases
  <2>3. CASE LeasesTimeOut(f)
    BY <2>3, LeasesTimeOutStep, QuietFence DEF LeasesTimeOut
  <2>4. CASE WaitPort(f)
    BY <2>4, WaitPortStep, QuietFence DEF WaitPort
  <2>5. CASE FinishDisable(f)
    BY <2>5, FinishDisableFence DEF Fence!Next
  <2>6. CASE FinishRemove(f)
    BY <2>6, FinishRemoveFence DEF Fence!Next
  <2>7. CASE FinishEnable(f)
    BY <2>7, FinishEnableFence DEF Fence!Next
  <2>8. CASE Superseded(f)
    BY <2>8, SupersededStep, QuietFence DEF Superseded
  <2>9. CASE \E j \in Jobs : CancelRetires(f, j)
    BY <2>9, CancelRetiresStep, QuietFence DEF CancelRetires
  <2> QED
    BY <1>6, <2>1, <2>2, <2>3, <2>4, <2>5, <2>6, <2>7, <2>8, <2>9 DEF CallStep
<1> QED
  BY <1>1, <1>2, <1>3, <1>4, <1>5, <1>6

LEMMA FenceNext ==
    ASSUME HostInv, [Next]_vars
    PROVE  [Fence!Next]_(Fence!fenceVars)
<1>1. ASSUME NEW j \in Jobs, NEW f \in setup.features, TryEnter(j, f)
      PROVE  [Fence!Next]_(Fence!fenceVars)
  BY <1>1, SetupFeatures, TryEnterFence DEF Fence!Next
<1>2. ASSUME NEW j \in Jobs,
             \/ ThreadStep(j) \/ PluginSubmits(j) \/ PluginMisbehaves(j) \/ PluginReturns(j)
             \/ HostRetires(j) \/ UiRequest(j)
      PROVE  [Fence!Next]_(Fence!fenceVars)
  <2>1. CASE ThreadStep(j)
    BY <2>1, ThreadFence
  <2>2. CASE PluginSubmits(j)
    BY <2>2, PluginSubmitsStep, QuietFence DEF PluginSubmits, hostVars
  <2>3. CASE PluginMisbehaves(j)
    BY <2>3, PluginMisbehavesStep, QuietFence DEF PluginMisbehaves
  <2>4. CASE PluginReturns(j)
    BY <2>4, PluginReturnsFence DEF Fence!Next
  <2>5. CASE HostRetires(j)
    BY <2>5, HostRetiresStep, QuietFence DEF HostRetires
  <2>6. CASE UiRequest(j)
    BY <2>6, UiRequestStep, QuietFence DEF UiRequest
  <2> QED
    BY <1>2, <2>1, <2>2, <2>3, <2>4, <2>5, <2>6
<1>3. ASSUME NEW f \in setup.features,
             \/ Disable(f) \/ Remove(f) \/ RemoveResident(f) \/ FinishRemoveResident(f)
             \/ Enable(f) \/ CallStep(f)
      PROVE  [Fence!Next]_(Fence!fenceVars)
  BY <1>3, SetupFeatures, LifecycleFence
<1>4. ASSUME NEW f \in Features, ShutdownDrained(f) \/ ShutdownTimesOut(f)
      PROVE  [Fence!Next]_(Fence!fenceVars)
  BY <1>4, ShutdownDrainedFence, ShutdownTimesOutFence DEF Fence!Next
<1>5. CASE ShutdownMailbox
  BY <1>5, ShutdownMailboxStep, QuietFence DEF ShutdownMailbox
<1>6. CASE ShutdownRegistry
  BY <1>6, ShutdownRegistryStep, QuietFence DEF ShutdownRegistry
<1>7. CASE ShutdownLifecycle
  BY <1>7, ShutdownLifecycleFence DEF Fence!Next
<1>8. CASE UiStep
  BY <1>8, UiStepStep, QuietFence DEF UiStep, hostVars
<1>9. CASE UNCHANGED vars
  <2>1. UNCHANGED <<rtVars, gate, lease, step>>
    BY <1>9 DEF vars, hostVars
  <2> QED
    BY <2>1, RegistryStutter, QuietFence
<1> QED
  BY <1>1, <1>2, <1>3, <1>4, <1>5, <1>6, <1>7, <1>8, <1>9 DEF Next

\* The detailed host implements the fence, for any number of jobs and features:
\* try_enter enters, a lifecycle call closes before it revokes and waits, and a
\* feature is reported closed only when every dispatch that entered it has
\* left, whatever times out, is superseded or shuts down meanwhile.
THEOREM HostImplementsFence == Spec => ImplementsFence
<1>1. HostInit => Fence!Init
  <2> SUFFICES ASSUME HostInit
               PROVE  Fence!Init
    OBVIOUS
  <2>1. /\ \A f \in Features : gate[f].state = "enabled"
        /\ lease = {} /\ step = [j \in Jobs |-> "idle"]
    BY DEF HostInit
  <2>2. FenceStatus = [f \in Features |-> "open"]
    BY <2>1 DEF FenceStatus
  <2> QED
    BY <2>1, <2>2 DEF Fence!Init
<1>2. HostInv /\ [Next]_vars => [Fence!Next]_(Fence!fenceVars)
  BY FenceNext
<1> QED
  BY <1>1, <1>2, HostInvAlways, PTL DEF Spec, ImplementsFence, Fence!Spec
=============================================================================

-------------------------- MODULE PluginHostProofs ---------------------------
(* What is proved of the plugin host, for any number of threads, modules,     *)
(* processes and attempts: nothing is started behind the back of its handle,  *)
(* and no container outlives the host, short of a connect loop that ran out   *)
(* or a docker stop that failed.                                              *)
EXTENDS PluginHost, FiniteSetTheorems, TLAPS

-----------------------------------------------------------------------------
(* Types *)

Infos == {Nobody} \cup {RemoteId[m] : m \in Modules}
HostIds == {ConfigId[m] : m \in Modules} \cup {RemoteId[m] : m \in Modules}
AnyPort == Ports \cup {NoPort}

ProcTypes == [mod : Modules, port : AnyPort, state : {"starting", "listening", "mute", "gone"}]
ExtTypes == [info : Infos, channel : AnyPort, child : Nat, container : Nat, dropped : BOOLEAN]
CallTypes == [step : {"idle", "client", "channel", "start", "connect", "rpc"},
              op : {"none", "register", "analyze", "explain", "describe"},
              mod : Modules \cup {Nobody}, port : AnyPort, attempt : Nat, todo : SUBSET HostIds]

TypeInv ==
    /\ \E n \in Nat : procs \in [1..n -> ProcTypes]
    /\ ext \in [Modules -> ExtTypes]
    /\ DOMAIN hosted \subseteq HostIds
    /\ channelLock \in [Modules -> Callers \cup {Nobody}]
    /\ call \in [Callers -> CallTypes]
    /\ exhausted \subseteq Modules

-----------------------------------------------------------------------------
(* The invariant *)

Connecting(c) == call[c].step \in {"start", "connect"}

\* A thread that starts or connects a module holds its mutex, and there is no channel.
LockInv ==
    \A c \in Callers : Connecting(c) =>
        channelLock[call[c].mod] = c /\ ext[call[c].mod].channel = NoPort

HostedModules == {hosted[id].mod : id \in DOMAIN hosted}

\* Calls are of modules that still exist; a registration has the host to itself.
Sound(c, k) ==
    /\ k.step = "idle" => k.op = "none"
    /\ k.step # "idle" => k.mod \in Modules /\ ~ext[k.mod].dropped
    /\ k.step = "connect" => k.port # NoPort
    /\ k.op = "register" => /\ k.mod \notin HostedModules
                            /\ \A d \in Callers \ {c} : call[d].step = "idle"
    /\ k.op = "explain" => k.todo \subseteq DOMAIN hosted

CallInv == \A c \in Callers : Sound(c, call[c])

HostInv ==
    /\ \A id \in DOMAIN hosted : hosted[id].mod \in Modules /\ ~ext[hosted[id].mod].dropped
    /\ \A m \in Modules : /\ ext[m].dropped => ext[m].container = 0
                          /\ Mode[m] = "container" => ext[m].child = 0

\* What was started for a module is being connected to or was; and while it is
\* alive it is what the module holds the handle of, or what docker would not stop.
HeldInv ==
    \A m \in Modules : (m \notin exhausted /\ Mode[m] # "grpc") =>
        \A i \in DOMAIN procs : procs[i].mod = m =>
            /\ \/ ext[m].channel # NoPort
               \/ \E c \in Callers : call[c].mod = m /\ call[c].step = "connect"
            /\ Alive(i) => i \in {ext[m].child, ext[m].container} \cup unstopped

PluginInv == TypeInv /\ LockInv /\ CallInv /\ HostInv /\ HeldInv

LEMMA PluginBegins == Init => PluginInv
<1> SUFFICES ASSUME Init PROVE PluginInv
  OBVIOUS
<1>1. /\ procs = <<>> /\ hosted = <<>> /\ exhausted = {}
      /\ ext = [m \in Modules |-> ExternalModuleNew]
      /\ channelLock = [m \in Modules |-> Nobody]
      /\ call = [c \in Callers |-> NoCall]
  BY DEF Init
<1>2. procs \in [1..0 -> ProcTypes]
  BY <1>1
<1>3. ExternalModuleNew \in ExtTypes /\ NoCall \in CallTypes
  BY DEF ExternalModuleNew, ExtTypes, NoCall, CallTypes, Infos, AnyPort
<1>4. TypeInv
  BY <1>1, <1>2, <1>3 DEF TypeInv
<1>5. \A c \in Callers : call[c].step = "idle" /\ call[c].op = "none"
  BY <1>1 DEF NoCall
<1>6. \A m \in Modules : ~ext[m].dropped /\ ext[m].child = 0
  BY <1>1 DEF ExternalModuleNew
<1>7. DOMAIN hosted = {} /\ DOMAIN procs = {}
  BY <1>1
<1>8. QED
  BY <1>4, <1>5, <1>6, <1>7 DEF PluginInv, LockInv, Connecting, CallInv, Sound, HostInv, HeldInv

-----------------------------------------------------------------------------
(* Processes *)

\* A process started has a number of its own, and the others stay as they are.
LEMMA Starting ==
    ASSUME NEW n \in Nat, procs \in [1..n -> ProcTypes],
           NEW m \in Modules, NEW p \in AnyPort, NEW s \in {"starting", "gone"}
    PROVE  /\ NextPid = n + 1
           /\ StartedAs(m, p, s) \in [1..(n + 1) -> ProcTypes]
           /\ StartedAs(m, p, s)[n + 1] = [mod |-> m, port |-> p, state |-> s]
           /\ \A i \in 1..n : StartedAs(m, p, s)[i] = procs[i]
<1>1. Cardinality(DOMAIN procs) = n
  <2>1. Cardinality(1..n) = IF 1 > n THEN 0 ELSE n - 1 + 1
    BY FS_Interval
  <2>2. QED
    BY <2>1
<1>2. StartedAs(m, p, s) = [i \in 1..(n + 1) |-> IF i \in 1..n THEN procs[i] ELSE [mod |-> m, port |-> p, state |-> s]]
  <2>1. DOMAIN procs = 1..n /\ (1..n) \cup {n + 1} = 1..(n + 1)
    OBVIOUS
  <2>2. QED
    BY <1>1, <2>1 DEF StartedAs, NextPid
<1>3. [mod |-> m, port |-> p, state |-> s] \in ProcTypes
  BY DEF ProcTypes
<1> HIDE DEF ProcTypes
<1>4. QED
  BY <1>1, <1>2, <1>3 DEF NextPid

\* Processes that begin to listen or die, and servers that others start.
LEMMA ProcessesKeepInv ==
    ASSUME PluginInv, UNCHANGED <<ext, hosted, channelLock, call, exhausted, unstopped>>,
           NEW n \in Nat, procs' \in [1..n -> ProcTypes],
           \A i \in 1..n : Mode[procs'[i].mod] # "grpc" =>
               /\ i \in DOMAIN procs /\ procs[i].mod = procs'[i].mod
               /\ procs'[i].state # "gone" => procs[i].state # "gone"
    PROVE  PluginInv'
<1>1. TypeInv'
  BY DEF PluginInv, TypeInv
<1>2. LockInv' /\ CallInv' /\ HostInv'
  BY DEF PluginInv, LockInv, Connecting, CallInv, Sound, HostInv, HostedModules
<1>3. HeldInv'
  <2> SUFFICES ASSUME NEW m \in Modules, m \notin exhausted, Mode[m] # "grpc",
                      NEW i \in 1..n, procs'[i].mod = m
               PROVE  /\ \/ ext[m].channel # NoPort
                         \/ \E c \in Callers : call[c].mod = m /\ call[c].step = "connect"
                      /\ Alive(i)' => i \in {ext[m].child, ext[m].container} \cup unstopped
    BY DEF HeldInv
  <2>1. i \in DOMAIN procs /\ procs[i].mod = m /\ (procs'[i].state # "gone" => procs[i].state # "gone")
    OBVIOUS
  <2>2. {procs[i].state, procs'[i].state} \subseteq {"starting", "listening", "mute", "gone"}
    BY <2>1 DEF PluginInv, TypeInv, ProcTypes
  <2>3. Alive(i)' => Alive(i)
    BY <2>1, <2>2 DEF Alive
  <2>4. QED
    BY <2>1, <2>3 DEF PluginInv, HeldInv
<1>4. QED
  BY <1>1, <1>2, <1>3 DEF PluginInv

-----------------------------------------------------------------------------
(* Calls *)

\* While one thread is in a call no other is registering.
LEMMA NobodyElseRegisters ==
    ASSUME PluginInv, NEW c \in Callers, call[c].step # "idle", NEW d \in Callers, d # c
    PROVE  call[d].op # "register"
  BY DEF PluginInv, CallInv, Sound

\* One thread goes on with its call: locks of others, and what the hosts and modules
\* promise, stay as they are; a channel is only set, and by the thread that connects.
LEMMA OneCallMoves ==
    ASSUME PluginInv, NEW c \in Callers, NEW k \in CallTypes, Sound(c, k),
           call' = [call EXCEPT ![c] = k], UNCHANGED hosted,
           \A d \in Callers \ {c} : call[d].op = "register" => k.step = "idle",
           \E n \in Nat : procs' \in [1..n -> ProcTypes],
           exhausted' \subseteq Modules,
           channelLock' \in [Modules -> Callers \cup {Nobody}],
           \A m \in Modules : channelLock[m] \in Callers \ {c} => channelLock'[m] = channelLock[m],
           k.step \in {"start", "connect"} =>
               channelLock'[k.mod] = c /\ ext'[k.mod].channel = NoPort,
           ext' \in [Modules -> ExtTypes],
           \A m \in Modules :
               /\ ext'[m].dropped = ext[m].dropped
               /\ ext'[m].dropped => ext'[m].container = 0
               /\ Mode[m] = "container" => ext'[m].child = 0
               /\ ext'[m].channel # ext[m].channel => channelLock[m] = c
    PROVE  TypeInv' /\ LockInv' /\ CallInv' /\ HostInv'
<1>1. TypeInv'
  BY DEF PluginInv, TypeInv
<1>2. call'[c] = k /\ \A d \in Callers \ {c} : call'[d] = call[d]
  BY DEF PluginInv, TypeInv
<1>3. LockInv'
  <2> SUFFICES ASSUME NEW d \in Callers, Connecting(d)'
               PROVE  channelLock'[call'[d].mod] = d /\ ext'[call'[d].mod].channel = NoPort
    BY DEF LockInv
  <2>1. CASE d = c
    BY <1>2, <2>1 DEF Connecting
  <2>2. CASE d # c
    <3>1. Connecting(d) /\ call[d].mod \in Modules
      BY <1>2, <2>2 DEF Connecting, PluginInv, CallInv, Sound
    <3>2. channelLock[call[d].mod] = d /\ ext[call[d].mod].channel = NoPort
      BY <3>1 DEF PluginInv, LockInv
    <3>3. QED
      BY <1>2, <2>2, <3>1, <3>2
  <2>3. QED
    BY <2>1, <2>2
<1>4. CallInv'
  <2> SUFFICES ASSUME NEW d \in Callers PROVE Sound(d, call[d])'
    BY DEF CallInv
  <2>1. HostedModules' = HostedModules
    BY DEF HostedModules
  <2>2. CASE d = c
    BY <1>2, <2>1, <2>2 DEF Sound
  <2>3. CASE d # c
    <3>1. Sound(d, call[d])
      BY DEF PluginInv, CallInv
    <3>2. QED
      BY <1>2, <2>1, <2>3, <3>1 DEF Sound
  <2>4. QED
    BY <2>2, <2>3
<1>5. HostInv'
  BY DEF PluginInv, HostInv
<1>6. QED
  BY <1>1, <1>3, <1>4, <1>5

\* ... and if it starts nothing, and leaves a connect loop only with a channel or
\* without hope, what was started keeps its handle.
LEMMA QuietCallMoves ==
    ASSUME PluginInv, NEW c \in Callers, NEW k \in CallTypes, Sound(c, k),
           call' = [call EXCEPT ![c] = k], UNCHANGED <<procs, hosted, unstopped>>,
           \A d \in Callers \ {c} : call[d].op # "register",
           exhausted \subseteq exhausted', exhausted' \subseteq Modules,
           channelLock' \in [Modules -> Callers \cup {Nobody}],
           \A m \in Modules : channelLock[m] \in Callers \ {c} => channelLock'[m] = channelLock[m],
           k.step \in {"start", "connect"} =>
               channelLock'[k.mod] = c /\ ext'[k.mod].channel = NoPort,
           ext' \in [Modules -> ExtTypes],
           \A m \in Modules :
               /\ ext'[m].dropped = ext[m].dropped
               /\ ext'[m].child = ext[m].child
               /\ ext'[m].container = ext[m].container
               /\ ext'[m].channel # ext[m].channel => channelLock[m] = c /\ ext'[m].channel # NoPort,
           call[c].step = "connect" =>
               \/ k.step = "connect" /\ k.mod = call[c].mod
               \/ ext'[call[c].mod].channel # NoPort
               \/ call[c].mod \in exhausted'
    PROVE  PluginInv'
<1>1. TypeInv' /\ LockInv' /\ CallInv' /\ HostInv'
  <2>1. \E n \in Nat : procs' \in [1..n -> ProcTypes]
    BY DEF PluginInv, TypeInv
  <2>2. \A m \in Modules : /\ ext'[m].dropped => ext'[m].container = 0
                           /\ Mode[m] = "container" => ext'[m].child = 0
    BY DEF PluginInv, HostInv
  <2>3. QED
    BY <2>1, <2>2, OneCallMoves
<1>2. call'[c] = k /\ \A d \in Callers \ {c} : call'[d] = call[d]
  BY DEF PluginInv, TypeInv
<1>3. HeldInv'
  <2> SUFFICES ASSUME NEW m \in Modules, m \notin exhausted', Mode[m] # "grpc",
                      NEW i \in DOMAIN procs, procs[i].mod = m
               PROVE  /\ \/ ext'[m].channel # NoPort
                         \/ \E d \in Callers : call'[d].mod = m /\ call'[d].step = "connect"
                      /\ Alive(i) => i \in {ext'[m].child, ext'[m].container} \cup unstopped'
    BY DEF HeldInv, Alive
  <2>1. /\ \/ ext[m].channel # NoPort
           \/ \E d \in Callers : call[d].mod = m /\ call[d].step = "connect"
        /\ Alive(i) => i \in {ext[m].child, ext[m].container} \cup unstopped
    BY DEF PluginInv, HeldInv
  <2>2. CASE ext[m].channel # NoPort
    BY <2>1, <2>2
  <2>3. ASSUME NEW d \in Callers, call[d].mod = m, call[d].step = "connect"
        PROVE  \/ ext'[m].channel # NoPort
               \/ \E e \in Callers : call'[e].mod = m /\ call'[e].step = "connect"
    BY <1>2, <2>3
  <2>4. QED
    BY <2>1, <2>2, <2>3
<1>4. QED
  BY <1>1, <1>3 DEF PluginInv

MovesOn(c, steps) ==
    \E k \in CallTypes : call' = [call EXCEPT ![c] = k] /\ Sound(c, k) /\ k.step \in steps

\* A call that enters a module, and one that ends or goes on to the next module.
LEMMA Entering ==
    ASSUME PluginInv, NEW c \in Callers, NEW m \in Modules, ~ext[m].dropped,
           NEW op \in {"register", "analyze", "explain", "describe"},
           NEW todo \in SUBSET (DOMAIN hosted), Into(c, m, op, todo),
           op = "register" => m \notin HostedModules /\ \A d \in Callers \ {c} : call[d].step = "idle"
    PROVE  MovesOn(c, {"client", "channel"})
<1> DEFINE k == [step |-> IF hostKind = "grpc" /\ op # "register" THEN "client" ELSE "channel",
                 op |-> op, mod |-> m, port |-> NoPort, attempt |-> 0, todo |-> todo]
<1>1. DOMAIN hosted \subseteq HostIds
  BY DEF PluginInv, TypeInv
<1>2. k \in CallTypes
  BY <1>1 DEF CallTypes, AnyPort
<1>3. Sound(c, k)
  BY DEF Sound
<1>4. call' = [call EXCEPT ![c] = k] /\ k.step \in {"client", "channel"}
  BY DEF Into
<1> HIDE DEF k
<1>5. QED
  BY <1>2, <1>3, <1>4 DEF MovesOn

LEMMA Ending ==
    ASSUME PluginInv, NEW c \in Callers, NEW ok \in BOOLEAN, Answered(c, ok)
    PROVE  MovesOn(c, {"idle", "client", "channel"})
<1>1. NoCall \in CallTypes /\ NoCall.step = "idle" /\ Sound(c, NoCall)
  BY DEF NoCall, CallTypes, AnyPort, Sound
<1>2. CASE call[c].op = "explain" /\ ~ok /\ call[c].todo # {}
  <2>1. PICK id \in call[c].todo : Into(c, hosted[id].mod, "explain", call[c].todo \ {id})
    BY <1>2 DEF Answered
  <2>2. call[c].todo \subseteq DOMAIN hosted
    BY <1>2 DEF PluginInv, CallInv, Sound
  <2>3. hosted[id].mod \in Modules /\ ~ext[hosted[id].mod].dropped
    BY <2>2 DEF PluginInv, HostInv
  <2>4. call[c].todo \ {id} \in SUBSET (DOMAIN hosted)
    BY <2>2
  <2>5. QED
    BY <2>1, <2>3, <2>4, Entering DEF MovesOn
<1>3. CASE ~(call[c].op = "explain" /\ ~ok /\ call[c].todo # {})
  BY <1>1, <1>3 DEF Answered, MovesOn
<1>4. QED
  BY <1>2, <1>3

-----------------------------------------------------------------------------
(* The actions of the callers *)

\* Callers that enter the host.
LEMMA CallsBegin ==
    ASSUME PluginInv, NEW c \in Callers,
           (\E m \in Modules : Register(c, m)) \/ Analyze(c) \/ Explain(c) \/ List(c)
    PROVE  PluginInv'
<1>1. /\ UNCHANGED <<procs, ext, hosted, channelLock, exhausted, unstopped>>
      /\ \A d \in Callers \ {c} : call[d].op # "register"
      /\ call[c].step = "idle"
  BY DEF Register, Analyze, Explain, List, Busy, Registering, PluginInv, CallInv, Sound
<1>2. MovesOn(c, {"client", "channel"})
  <2>1. ASSUME NEW m \in Modules, Register(c, m) PROVE MovesOn(c, {"client", "channel"})
    <3>1. /\ Into(c, m, "register", {}) /\ ~ext[m].dropped /\ m \notin HostedModules
          /\ \A d \in Callers \ {c} : call[d].step = "idle"
      BY <2>1 DEF Register, Enter, Busy, HostedModules
    <3>2. QED
      BY <3>1, Entering
  <2>2. ASSUME NEW id \in DOMAIN hosted, NEW op \in {"analyze", "explain", "describe"},
               NEW todo \in SUBSET (DOMAIN hosted), Enter(c, hosted[id].mod, op, todo)
        PROVE  MovesOn(c, {"client", "channel"})
    <3>1. hosted[id].mod \in Modules /\ ~ext[hosted[id].mod].dropped
      BY DEF PluginInv, HostInv
    <3>2. Into(c, hosted[id].mod, op, todo)
      BY <2>2 DEF Enter
    <3>3. QED
      BY <3>1, <3>2, Entering
  <2>3. \A id \in DOMAIN hosted : DOMAIN hosted \ {id} \in SUBSET (DOMAIN hosted)
    OBVIOUS
  <2>4. CASE Explain(c)
    BY <2>2, <2>3, <2>4 DEF Explain
  <2>5. {} \in SUBSET (DOMAIN hosted)
    OBVIOUS
  <2>6. CASE Analyze(c) \/ List(c)
    BY <2>2, <2>5, <2>6 DEF Analyze, List
  <2>7. QED
    BY <2>1, <2>4, <2>6
<1>3. PICK k \in CallTypes : call' = [call EXCEPT ![c] = k] /\ Sound(c, k) /\ k.step \in {"client", "channel"}
  BY <1>2 DEF MovesOn
<1>4. /\ exhausted' \subseteq Modules /\ ext' \in [Modules -> ExtTypes]
      /\ channelLock' \in [Modules -> Callers \cup {Nobody}]
  BY <1>1 DEF PluginInv, TypeInv
<1>5. QED
  BY <1>1, <1>3, <1>4, QuietCallMoves

\* The end of a registration, with an id or with a refusal.
LEMMA RegistrationEnds ==
    ASSUME PluginInv, NEW c \in Callers, call[c].op = "register", NEW info \in Infos, Described(c, info),
           exhausted \subseteq exhausted', exhausted' \subseteq Modules,
           channelLock' \in [Modules -> Callers \cup {Nobody}],
           call[c].step = "connect" => call[c].mod \in exhausted'
    PROVE  PluginInv'
<1> DEFINE m == call[c].mod
           id == DescribedId(m, info)
<1>0. PICK taken \in BOOLEAN : taken <=> id \in DOMAIN hosted
  OBVIOUS
<1>1. /\ m \in Modules /\ ~ext[m].dropped /\ m \notin HostedModules
      /\ \A d \in Callers \ {c} : call[d].step = "idle"
  BY DEF PluginInv, CallInv, Sound
<1>2. call' = [call EXCEPT ![c] = NoCall] /\ NoCall \in CallTypes
  BY DEF Described, NoCall, CallTypes, AnyPort
<1>3. \A d \in Callers : call'[d].step = "idle" /\ call'[d].op = "none"
  BY <1>1, <1>2 DEF PluginInv, TypeInv, NoCall, CallInv, Sound
<1>4. id \in HostIds
  BY <1>1 DEF DescribedId, HostIds, Infos
<1>5. hosted' = [h \in DOMAIN hosted \cup {id} |->
                   IF h \in DOMAIN hosted THEN hosted[h] ELSE [mod |-> m, info |-> id]]
  BY DEF Described
<1>6. ext' = [ext EXCEPT ![m].info = info, ![m].dropped = taken, ![m].container = IF taken THEN 0 ELSE @]
  BY <1>0 DEF Described
<1>7. ext \in [Modules -> ExtTypes]
  BY DEF PluginInv, TypeInv
<1> HIDE DEF id
<1>8. /\ ext' \in [Modules -> ExtTypes]
      /\ \A x \in Modules \ {m} : ext'[x] = ext[x]
      /\ ext'[m].channel = ext[m].channel /\ ext'[m].child = ext[m].child
      /\ ext'[m].container = IF taken THEN 0 ELSE ext[m].container
      /\ ext'[m].dropped = taken
  <2> HIDE DEF m
  <2>1. m \in Modules /\ taken \in BOOLEAN
    BY <1>0, <1>1
  <2>2. QED
    BY <1>6, <1>7, <2>1 DEF ExtTypes
<1>9. PICK n \in Nat : procs \in [1..n -> ProcTypes]
  BY DEF PluginInv, TypeInv
<1>10. PICK failing \in SUBSET Nat :
         /\ procs' = [i \in DOMAIN procs |->
                       IF taken /\ i = ext[m].container /\ i # 0 /\ i \notin failing
                       THEN [procs[i] EXCEPT !.state = "gone"] ELSE procs[i]]
         /\ unstopped' = unstopped \cup failing
  <2> DEFINE containers == IF taken THEN {ext[m].container} \ {0} ELSE {}
  <2>1. Stop(containers)
    BY <1>0 DEF Described, id
  <2>2. containers \subseteq Nat
    BY <1>1, <1>7 DEF ExtTypes
  <2>3. \A i : i \in containers <=> taken /\ i = ext[m].container /\ i # 0
    OBVIOUS
  <2> HIDE DEF containers, m
  <2>4. PICK failing \in SUBSET {i \in containers : Alive(i)} :
           /\ procs' = [i \in DOMAIN procs |->
                          IF i \in containers \ failing THEN [procs[i] EXCEPT !.state = "gone"] ELSE procs[i]]
           /\ unstopped' = unstopped \cup failing
    BY <2>1 DEF Stop
  <2>5. failing \in SUBSET Nat
    BY <2>2
  <2>6. \A i : i \in containers \ failing <=> taken /\ i = ext[m].container /\ i # 0 /\ i \notin failing
    BY <2>3
  <2>7. QED
    BY <2>4, <2>5, <2>6
<1>11. procs' \in [1..n -> ProcTypes]
  BY <1>9, <1>10 DEF ProcTypes
<1>12. TypeInv'
  BY <1>2, <1>4, <1>5, <1>8, <1>11 DEF PluginInv, TypeInv
<1>13. LockInv' /\ CallInv'
  BY <1>3 DEF LockInv, Connecting, CallInv, Sound
<1>14. HostInv'
  <2>1. \A x \in Modules : /\ ext'[x].dropped => ext'[x].container = 0
                           /\ Mode[x] = "container" => ext'[x].child = 0
    BY <1>1, <1>7, <1>8 DEF PluginInv, HostInv, ExtTypes
  <2> SUFFICES ASSUME NEW h \in DOMAIN hosted \cup {id}
               PROVE  hosted'[h].mod \in Modules /\ ~ext'[hosted'[h].mod].dropped
    BY <1>5, <2>1 DEF HostInv
  <2>2. CASE h \in DOMAIN hosted
    <3>1. hosted'[h] = hosted[h] /\ hosted[h].mod \in Modules /\ ~ext[hosted[h].mod].dropped
      BY <1>5, <2>2 DEF PluginInv, HostInv
    <3>2. hosted[h].mod # m
      BY <1>1, <2>2 DEF HostedModules
    <3>3. QED
      BY <1>8, <3>1, <3>2
  <2>3. CASE h \notin DOMAIN hosted
    <3>1. hosted'[h].mod = m /\ ~taken
      BY <1>0, <1>5, <2>3
    <3>2. QED
      BY <1>1, <1>7, <1>8, <3>1 DEF ExtTypes
  <2>4. QED
    BY <2>2, <2>3
<1>15. HeldInv'
  <2> SUFFICES ASSUME NEW x \in Modules, x \notin exhausted', Mode[x] # "grpc",
                      NEW i \in 1..n, procs'[i].mod = x
               PROVE  /\ ext'[x].channel # NoPort
                      /\ Alive(i)' => i \in {ext'[x].child, ext'[x].container} \cup unstopped'
    BY <1>11 DEF HeldInv
  <2>1. procs[i].mod = x /\ (Alive(i)' => Alive(i) /\ (~(taken /\ i = ext[m].container) \/ i \in unstopped'))
    BY <1>9, <1>10 DEF Alive, ProcTypes
  <2>2. ~\E d \in Callers : call[d].mod = x /\ call[d].step = "connect"
    BY <1>1
  <2>3. ext[x].channel # NoPort /\ (Alive(i) => i \in {ext[x].child, ext[x].container} \cup unstopped)
    BY <1>9, <2>1, <2>2 DEF PluginInv, HeldInv
  <2>4. /\ ext'[x].channel = ext[x].channel /\ ext'[x].child = ext[x].child
        /\ ext'[x].container = IF x = m /\ taken THEN 0 ELSE ext[x].container
    BY <1>7, <1>8 DEF ExtTypes
  <2>5. unstopped \subseteq unstopped'
    BY <1>10
  <2>6. QED
    BY <2>1, <2>3, <2>4, <2>5
<1>16. QED
  BY <1>12, <1>13, <1>14, <1>15 DEF PluginInv

\* A call that ends in an error, of connecting or of the request.
LEMMA FailingKeepsInv ==
    ASSUME PluginInv, NEW c \in Callers, call[c].step # "idle", Fails(c),
           exhausted \subseteq exhausted', exhausted' \subseteq Modules,
           channelLock' \in [Modules -> Callers \cup {Nobody}],
           \A m \in Modules : channelLock[m] \in Callers \ {c} => channelLock'[m] = channelLock[m],
           call[c].step = "connect" => call[c].mod \in exhausted'
    PROVE  PluginInv'
<1>1. CASE call[c].op = "register"
  <2>1. Nobody \in Infos
    BY DEF Infos
  <2>2. Described(c, Nobody)
    BY <1>1 DEF Fails
  <2>3. QED
    BY <1>1, <2>1, <2>2, RegistrationEnds
<1>2. CASE call[c].op # "register"
  <2>1. Answered(c, FALSE) /\ UNCHANGED <<procs, ext, hosted, unstopped>>
    BY <1>2 DEF Fails
  <2>2. PICK k \in CallTypes : /\ call' = [call EXCEPT ![c] = k] /\ Sound(c, k)
                              /\ k.step \in {"idle", "client", "channel"}
    BY <2>1, Ending DEF MovesOn
  <2>3. \A d \in Callers \ {c} : call[d].op # "register"
    BY NobodyElseRegisters
  <2>4. ext' \in [Modules -> ExtTypes]
    BY <2>1 DEF PluginInv, TypeInv
  <2>5. QED
    BY <2>1, <2>2, <2>3, <2>4, QuietCallMoves
<1>3. QED
  BY <1>1, <1>2

\* A thread takes a mutex, finds the channel, or is told the endpoint.
LEMMA GoingOnKeepsInv ==
    ASSUME PluginInv, NEW c \in Callers,
           LockClient(c) \/ GetChannel(c) \/ UseEndpoint(c)
    PROVE  PluginInv'
<1> DEFINE m == call[c].mod
<1>1. call[c].step \in {"client", "channel", "start"} /\ UNCHANGED <<procs, ext, hosted, exhausted, unstopped>>
  BY DEF LockClient, GetChannel, UseEndpoint
<1>2. /\ m \in Modules /\ call[c] \in CallTypes /\ Sound(c, call[c])
      /\ call \in [Callers -> CallTypes]
      /\ exhausted' \subseteq Modules /\ ext \in [Modules -> ExtTypes] /\ ext' \in [Modules -> ExtTypes]
      /\ channelLock \in [Modules -> Callers \cup {Nobody}]
  BY <1>1 DEF PluginInv, TypeInv, CallInv, Sound
<1>3. \A d \in Callers \ {c} : call[d].op # "register"
  BY <1>1, NobodyElseRegisters
<1> HIDE DEF m
<1>4. ASSUME NEW k \in CallTypes, call' = [call EXCEPT ![c] = k], k.step # "idle", k.step = "connect" => k.port # NoPort,
             k.mod = m, k.op = call[c].op, k.todo = call[c].todo,
             channelLock' \in [Modules -> Callers \cup {Nobody}],
             \A x \in Modules : channelLock[x] \in Callers \ {c} => channelLock'[x] = channelLock[x],
             k.step \in {"start", "connect"} => channelLock'[m] = c /\ ext[m].channel = NoPort
      PROVE  PluginInv'
  <2>1. Sound(c, k)
    BY <1>1, <1>2, <1>4 DEF Sound, m
  <2>2. QED
    BY <1>1, <1>2, <1>3, <1>4, <2>1, QuietCallMoves
<1>5. CASE LockClient(c)
  <2> DEFINE k == [call[c] EXCEPT !.step = "channel"]
  <2>1. call' = [call EXCEPT ![c] = k] /\ channelLock' = channelLock
    BY <1>2, <1>5 DEF LockClient
  <2>2. /\ k \in CallTypes /\ k.step = "channel" /\ k.mod = call[c].mod
        /\ k.op = call[c].op /\ k.todo = call[c].todo
    BY <1>2 DEF CallTypes
  <2> HIDE DEF k
  <2>3. QED
    BY <1>2, <1>4, <2>1, <2>2 DEF m
<1>6. CASE GetChannel(c) /\ ext[m].channel # NoPort
  <2> DEFINE k == [call[c] EXCEPT !.step = "rpc", !.port = ext[m].channel]
  <2>1. call' = [call EXCEPT ![c] = k] /\ channelLock' = channelLock
    BY <1>2, <1>6 DEF GetChannel, m
  <2>2. /\ k \in CallTypes /\ k.step = "rpc" /\ k.mod = call[c].mod
        /\ k.op = call[c].op /\ k.todo = call[c].todo
    BY <1>2 DEF CallTypes, ExtTypes
  <2> HIDE DEF k
  <2>3. QED
    BY <1>2, <1>4, <2>1, <2>2 DEF m
<1>7. CASE GetChannel(c) /\ ext[m].channel = NoPort
  <2> DEFINE k == [call[c] EXCEPT !.step = "start"]
  <2>1. /\ call' = [call EXCEPT ![c] = k] /\ channelLock' = [channelLock EXCEPT ![m] = c]
        /\ channelLock[m] = Nobody
    BY <1>2, <1>7 DEF GetChannel, Holder, m
  <2>2. /\ k \in CallTypes /\ k.step = "start" /\ k.mod = call[c].mod
        /\ k.op = call[c].op /\ k.todo = call[c].todo
    BY <1>2 DEF CallTypes
  <2>3. /\ channelLock' \in [Modules -> Callers \cup {Nobody}] /\ channelLock'[m] = c
        /\ \A x \in Modules : channelLock[x] \in Callers \ {c} => channelLock'[x] = channelLock[x]
    BY <1>2, <2>1, PluginAssumption
  <2> HIDE DEF k
  <2>4. QED
    BY <1>2, <1>4, <1>7, <2>1, <2>2, <2>3 DEF m
<1>8. CASE UseEndpoint(c)
  <2> DEFINE k == [call[c] EXCEPT !.step = "connect", !.port = ConfigPort[m]]
  <2>1. call' = [call EXCEPT ![c] = k] /\ channelLock' = channelLock /\ Mode[m] = "grpc" /\ call[c].step = "start"
    BY <1>2, <1>8 DEF UseEndpoint, m
  <2>2. ConfigPort[m] # NoPort /\ ConfigPort[m] \in AnyPort
    BY <1>2, <2>1, PluginAssumption DEF AnyPort
  <2>3. /\ k \in CallTypes /\ k.step = "connect" /\ k.port = ConfigPort[m] /\ k.mod = call[c].mod
        /\ k.op = call[c].op /\ k.todo = call[c].todo
    BY <1>2, <2>2 DEF CallTypes
  <2>4. channelLock[m] = c /\ ext[m].channel = NoPort
    BY <2>1 DEF PluginInv, LockInv, Connecting, m
  <2> HIDE DEF k
  <2>5. QED
    BY <1>2, <1>4, <2>1, <2>2, <2>3, <2>4 DEF m
<1>9. QED
  BY <1>5, <1>6, <1>7, <1>8

\* A process is started by the thread that holds the mutex. There is no channel and
\* nobody else connects, so no process of the module was started before.
LEMMA StartingKeepsInv ==
    ASSUME PluginInv, NEW c \in Callers, SpawnCommand(c) \/ RunContainer(c)
    PROVE  PluginInv'
<1> DEFINE m == call[c].mod
<1>1. /\ call[c].step = "start" /\ UNCHANGED <<hosted, channelLock, exhausted, unstopped>>
      /\ Mode[m] \in {"command", "container"}
  BY DEF SpawnCommand, RunContainer
<1>2. /\ m \in Modules /\ call[c] \in CallTypes /\ Sound(c, call[c])
      /\ call \in [Callers -> CallTypes]
      /\ exhausted' \subseteq Modules /\ ext \in [Modules -> ExtTypes]
      /\ channelLock' \in [Modules -> Callers \cup {Nobody}]
      /\ ~ext[m].dropped
  BY <1>1 DEF PluginInv, TypeInv, CallInv, Sound
<1>3. PICK n \in Nat : procs \in [1..n -> ProcTypes]
  BY DEF PluginInv, TypeInv
<1>4. \A d \in Callers \ {c} : call[d].op # "register"
  BY <1>1, NobodyElseRegisters
<1>5. channelLock[m] = c /\ ext[m].channel = NoPort
  BY <1>1 DEF PluginInv, LockInv, Connecting
<1>6. PICK p \in Ports, s \in {"starting", "gone"} :
         /\ procs' = StartedAs(m, p, s)
         /\ call' = [call EXCEPT ![c].step = "connect", ![c].port = p]
         /\ \/ Mode[m] = "command" /\ ext' = [ext EXCEPT ![m].child = NextPid]
            \/ Mode[m] = "container" /\ ext' = [ext EXCEPT ![m].container = NextPid]
            \/ Mode[m] = "container" /\ s = "gone" /\ ext' = [ext EXCEPT ![m].container = ext[m].container]
  <2>1. CASE SpawnCommand(c)
    <3>1. PortOf(m) \subseteq Ports
      BY <1>2, PluginAssumption DEF PortOf
    <3>2. QED
      BY <2>1, <3>1 DEF SpawnCommand
  <2>2. CASE RunContainer(c)
    <3>1. Mode[m] = "container" /\ ConfigPort[m] \in Ports
      BY <1>2, <2>2, PluginAssumption DEF RunContainer
    <3>2. CASE ~\E i \in DOMAIN procs : procs[i].port = ConfigPort[m] /\ Alive(i)
      BY <2>2, <3>1, <3>2 DEF RunContainer
    <3>3. CASE \E i \in DOMAIN procs : procs[i].port = ConfigPort[m] /\ Alive(i)
      <4>1. procs' = StartedAs(m, ConfigPort[m], "gone")
        BY <2>2, <3>3 DEF RunContainer
      <4>2. call' = [call EXCEPT ![c].step = "connect", ![c].port = ConfigPort[m]]
        BY <2>2 DEF RunContainer
      <4>3. PICK printed \in BOOLEAN : ext' = [ext EXCEPT ![m].container = IF printed THEN NextPid ELSE @]
        BY <2>2, <3>3 DEF RunContainer
      <4>4. \/ ext' = [ext EXCEPT ![m].container = NextPid]
            \/ ext' = [ext EXCEPT ![m].container = ext[m].container]
        BY <4>3
      <4>5. QED
        BY <3>1, <4>1, <4>2, <4>4
    <3>4. QED
      BY <3>2, <3>3
  <2>3. QED
    BY <2>1, <2>2
<1>7. /\ NextPid = n + 1 /\ procs' \in [1..(n + 1) -> ProcTypes]
      /\ procs'[n + 1] = [mod |-> m, port |-> p, state |-> s]
      /\ \A i \in 1..n : procs'[i] = procs[i]
  <2> HIDE DEF m
  <2>1. p \in AnyPort /\ s \in {"starting", "gone"} /\ m \in Modules
    BY <1>2, <1>6 DEF AnyPort
  <2> HIDE DEF m
  <2>2. StartedAs(m, p, s) \in [1..(n + 1) -> ProcTypes]
    BY <1>3, <2>1, Starting
  <2>3. StartedAs(m, p, s)[n + 1] = [mod |-> m, port |-> p, state |-> s]
    BY <1>3, <2>1, Starting
  <2>4. NextPid = n + 1 /\ \A i \in 1..n : StartedAs(m, p, s)[i] = procs[i]
    BY <1>3, <2>1, Starting
  <2>5. QED
    BY <1>6, <2>2, <2>3, <2>4
<1> HIDE DEF m
<1>8. /\ ext' \in [Modules -> ExtTypes]
      /\ \A x \in Modules : /\ ext'[x].channel = ext[x].channel /\ ext'[x].dropped = ext[x].dropped
                            /\ x # m => ext'[x] = ext[x]
      /\ Mode[m] = "container" => ext'[m].child = ext[m].child
      /\ s # "gone" => n + 1 \in {ext'[m].child, ext'[m].container}
  <2>1. NextPid \in Nat /\ ext[m] \in ExtTypes /\ ext[m].container \in Nat
    BY <1>2, <1>7 DEF ExtTypes
  <2>2. CASE Mode[m] = "command" /\ ext' = [ext EXCEPT ![m].child = NextPid]
    BY <1>2, <1>7, <2>1, <2>2 DEF ExtTypes
  <2>3. CASE Mode[m] = "container" /\ ext' = [ext EXCEPT ![m].container = NextPid]
    BY <1>2, <1>7, <2>1, <2>3 DEF ExtTypes
  <2>4. CASE s = "gone" /\ ext' = [ext EXCEPT ![m].container = ext[m].container]
    BY <1>2, <2>1, <2>4 DEF ExtTypes
  <2>5. QED
    BY <1>6, <2>2, <2>3, <2>4
<1> DEFINE k == [call[c] EXCEPT !.step = "connect", !.port = p]
<1>9. call' = [call EXCEPT ![c] = k]
  BY <1>2, <1>6
<1>10. /\ k \in CallTypes /\ k.step = "connect" /\ k.mod = m /\ k.port = p
       /\ k.op = call[c].op /\ k.todo = call[c].todo
  BY <1>2 DEF CallTypes, AnyPort, m
<1>11. p # NoPort
  BY PluginAssumption
<1> HIDE DEF k
<1>12. Sound(c, k)
  BY <1>1, <1>2, <1>10, <1>11 DEF Sound, m
<1>13. TypeInv' /\ LockInv' /\ CallInv' /\ HostInv'
  <2>1. \E l \in Nat : procs' \in [1..l -> ProcTypes]
    BY <1>3, <1>7
  <2>2. \A x \in Modules : /\ ext'[x].dropped => ext'[x].container = 0
                           /\ Mode[x] = "container" => ext'[x].child = 0
    <3>1. \A x \in Modules : /\ ext[x].dropped => ext[x].container = 0
                             /\ Mode[x] = "container" => ext[x].child = 0
      BY DEF PluginInv, HostInv
    <3>2. ~ext'[m].dropped /\ (Mode[m] = "container" => ext'[m].child = 0)
      BY <1>2, <1>8, <3>1
    <3>3. QED
      BY <1>8, <3>1, <3>2
  <2>3. channelLock'[k.mod] = c /\ ext'[k.mod].channel = NoPort
    BY <1>1, <1>2, <1>5, <1>8, <1>10
  <2>4. QED
    BY <1>1, <1>2, <1>4, <1>8, <1>9, <1>10, <1>12, <2>1, <2>2, <2>3, OneCallMoves
<1>14. HeldInv'
  <2> SUFFICES ASSUME NEW x \in Modules, x \notin exhausted, Mode[x] # "grpc",
                      NEW i \in 1..(n + 1), procs'[i].mod = x
               PROVE  /\ \/ ext'[x].channel # NoPort
                         \/ \E d \in Callers : call'[d].mod = x /\ call'[d].step = "connect"
                      /\ Alive(i)' => i \in {ext'[x].child, ext'[x].container} \cup unstopped'
    BY <1>1, <1>7 DEF HeldInv
  <2>1. call'[c].mod = m /\ call'[c].step = "connect" /\ \A d \in Callers \ {c} : call'[d] = call[d]
    BY <1>2, <1>9, <1>10
  <2>2. CASE i = n + 1
    <3>1. x = m /\ (Alive(i)' => s # "gone")
      BY <1>7, <2>2 DEF Alive
    <3>2. QED
      BY <1>1, <1>8, <2>1, <2>2, <3>1
  <2>3. CASE i # n + 1
    <3>1. i \in 1..n /\ procs[i].mod = x /\ (Alive(i)' => Alive(i))
      BY <1>3, <1>7, <2>3 DEF Alive
    <3>2. /\ \/ ext[x].channel # NoPort
             \/ \E d \in Callers : call[d].mod = x /\ call[d].step = "connect"
          /\ Alive(i) => i \in {ext[x].child, ext[x].container} \cup unstopped
      BY <1>3, <3>1 DEF PluginInv, HeldInv
    <3>3. x # m
      <4> SUFFICES ASSUME x = m PROVE FALSE
        OBVIOUS
      <4>1. PICK d \in Callers : call[d].mod = m /\ call[d].step = "connect"
        BY <1>5, <3>2 DEF m
      <4>2. channelLock[m] = d
        BY <4>1 DEF PluginInv, LockInv, Connecting
      <4>3. QED
        BY <1>1, <1>5, <4>1, <4>2 DEF m
    <3>4. QED
      <4>1. ext'[x] = ext[x]
        BY <1>8, <3>3
      <4>2. ASSUME NEW d \in Callers, call[d].mod = x, call[d].step = "connect"
            PROVE  call'[d].mod = x /\ call'[d].step = "connect"
        BY <1>1, <2>1, <4>2
      <4>3. QED
        BY <1>1, <3>1, <3>2, <4>1, <4>2
  <2>4. QED
    BY <2>2, <2>3
<1>15. QED
  BY <1>13, <1>14 DEF PluginInv

\* One attempt to connect. Only the holder of the mutex sets the channel or gives up.
LEMMA ConnectingKeepsInv ==
    ASSUME PluginInv, NEW c \in Callers, Connect(c)
    PROVE  PluginInv'
<1> DEFINE m == call[c].mod
<1>1. call[c].step = "connect"
  BY DEF Connect
<1>2. /\ m \in Modules /\ call[c] \in CallTypes /\ Sound(c, call[c])
      /\ call \in [Callers -> CallTypes]
      /\ exhausted \subseteq Modules /\ ext \in [Modules -> ExtTypes]
      /\ channelLock \in [Modules -> Callers \cup {Nobody}]
      /\ call[c].port # NoPort /\ call[c].port \in AnyPort
  BY <1>1 DEF PluginInv, TypeInv, CallInv, Sound, CallTypes
<1>3. \A d \in Callers \ {c} : call[d].op # "register"
  BY <1>1, NobodyElseRegisters
<1>4. channelLock[m] = c /\ ext[m].channel = NoPort
  BY <1>1 DEF PluginInv, LockInv, Connecting
<1>5. channelLock' \in [Modules -> Callers \cup {Nobody}]
      /\ \A x \in Modules : channelLock[x] \in Callers \ {c} => channelLock'[x] = channelLock[x]
  BY <1>2, <1>4 DEF Connect
<1>6. CASE Taken(call[c].port)
  <2> DEFINE k == [call[c] EXCEPT !.step = "rpc", !.attempt = 0]
  <2>1. /\ ext' = [ext EXCEPT ![m].channel = call[c].port]
        /\ call' = [call EXCEPT ![c].step = "rpc", ![c].attempt = 0]
        /\ UNCHANGED <<procs, hosted, exhausted, unstopped>>
    BY <1>6 DEF Connect
  <2>2. call' = [call EXCEPT ![c] = k]
    BY <1>2, <2>1
  <2>3. /\ k \in CallTypes /\ k.step = "rpc" /\ k.mod = call[c].mod
        /\ k.op = call[c].op /\ k.todo = call[c].todo
    BY <1>2 DEF CallTypes
  <2> HIDE DEF k
  <2>4. Sound(c, k)
    BY <1>1, <1>2, <2>3 DEF Sound
  <2> HIDE DEF m
  <2>5. /\ ext' \in [Modules -> ExtTypes] /\ ext'[m].channel # NoPort
        /\ \A x \in Modules : /\ ext'[x].dropped = ext[x].dropped
                              /\ ext'[x].child = ext[x].child
                              /\ ext'[x].container = ext[x].container
                              /\ x # m => ext'[x].channel = ext[x].channel
    BY <1>2, <2>1 DEF ExtTypes
  <2>6. /\ exhausted \subseteq exhausted' /\ exhausted' \subseteq Modules
        /\ UNCHANGED <<procs, hosted, unstopped>>
    BY <1>2, <2>1
  <2>7. \A x \in Modules : /\ ext'[x].dropped = ext[x].dropped
                           /\ ext'[x].child = ext[x].child
                           /\ ext'[x].container = ext[x].container
                           /\ ext'[x].channel # ext[x].channel =>
                                 channelLock[x] = c /\ ext'[x].channel # NoPort
    BY <1>4, <2>5
  <2>8. ext'[call[c].mod].channel # NoPort
    BY <2>5 DEF m
  <2>9. QED
    BY <1>3, <1>5, <2>2, <2>3, <2>4, <2>5, <2>6, <2>7, <2>8, QuietCallMoves
<1>7. CASE ~Taken(call[c].port) /\ call[c].attempt + 1 # MaxAttempts
  <2> DEFINE k == [call[c] EXCEPT !.attempt = @ + 1]
  <2>1. call' = [call EXCEPT ![c].attempt = @ + 1] /\ UNCHANGED <<procs, ext, hosted, channelLock, exhausted, unstopped>>
    BY <1>7 DEF Connect
  <2>2. call' = [call EXCEPT ![c] = k]
    BY <1>2, <2>1
  <2>3. /\ k \in CallTypes /\ k.step = "connect" /\ k.mod = call[c].mod /\ k.port = call[c].port
        /\ k.op = call[c].op /\ k.todo = call[c].todo
    BY <1>1, <1>2 DEF CallTypes
  <2> HIDE DEF k
  <2>4. Sound(c, k)
    BY <1>1, <1>2, <2>3 DEF Sound
  <2>5. /\ channelLock'[k.mod] = c /\ ext'[k.mod].channel = NoPort
        /\ exhausted \subseteq exhausted' /\ exhausted' \subseteq Modules
        /\ ext' \in [Modules -> ExtTypes] /\ UNCHANGED <<procs, hosted, unstopped>>
    BY <1>2, <1>4, <2>1, <2>3
  <2>6. QED
    BY <1>3, <1>5, <2>1, <2>2, <2>3, <2>4, <2>5, QuietCallMoves
<1>8. CASE ~Taken(call[c].port) /\ call[c].attempt + 1 = MaxAttempts
  <2>1. Fails(c) /\ exhausted' = exhausted \cup {m}
    BY <1>8 DEF Connect
  <2>2. QED
    BY <1>1, <1>2, <1>5, <2>1, FailingKeepsInv
<1>9. QED
  BY <1>6, <1>7, <1>8

\* Starting fails at once, or the request is answered or refused.
LEMMA EndingKeepsInv ==
    ASSUME PluginInv, NEW c \in Callers, StartFails(c) \/ Request(c)
    PROVE  PluginInv'
<1>1. call[c].step \in {"start", "rpc"} /\ exhausted' = exhausted
  BY DEF StartFails, Request
<1>2. /\ call[c].mod \in Modules
      /\ exhausted \subseteq Modules /\ ext \in [Modules -> ExtTypes]
      /\ channelLock \in [Modules -> Callers \cup {Nobody}]
  BY <1>1 DEF PluginInv, TypeInv, CallInv, Sound
<1>3. \A d \in Callers \ {c} : call[d].op # "register"
  BY <1>1, NobodyElseRegisters
<1>4. channelLock' \in [Modules -> Callers \cup {Nobody}]
      /\ \A x \in Modules : channelLock[x] \in Callers \ {c} => channelLock'[x] = channelLock[x]
  <2>1. CASE StartFails(c)
    <3>1. channelLock[call[c].mod] = c
      BY <2>1 DEF StartFails, PluginInv, LockInv, Connecting
    <3>2. QED
      BY <1>2, <2>1, <3>1 DEF StartFails
  <2>2. CASE Request(c)
    BY <1>2, <2>2 DEF Request
  <2>3. QED
    BY <2>1, <2>2
<1>5. CASE Fails(c)
  BY <1>1, <1>2, <1>4, <1>5, FailingKeepsInv
<1>6. CASE Request(c) /\ ~Fails(c)
  <2>1. \A i \in Listening(call[c].port) : RemoteId[procs[i].mod] \in Infos
    <3>1. \A i \in DOMAIN procs : procs[i].mod \in Modules
      BY DEF PluginInv, TypeInv, ProcTypes
    <3>2. QED
      BY <3>1 DEF Listening, Infos
  <2>2. CASE call[c].op = "register"
    <3>1. PICK i \in Listening(call[c].port) : Described(c, RemoteId[procs[i].mod])
      BY <1>6, <2>2 DEF Request
    <3>2. QED
      BY <1>1, <1>2, <1>4, <2>1, <2>2, <3>1, RegistrationEnds
  <2>3. CASE call[c].op # "register"
    <3>1. Answered(c, TRUE) /\ UNCHANGED <<procs, hosted, unstopped>>
      BY <1>6, <2>3 DEF Request
    <3>2. \/ ext' = ext
          \/ \E i \in Listening(call[c].port) : ext' = [ext EXCEPT ![call[c].mod].info = RemoteId[procs[i].mod]]
      BY <1>6, <2>3 DEF Request
    <3>3. /\ ext' \in [Modules -> ExtTypes]
          /\ \A x \in Modules : /\ ext'[x].dropped = ext[x].dropped
                                /\ ext'[x].child = ext[x].child
                                /\ ext'[x].container = ext[x].container
                                /\ ext'[x].channel = ext[x].channel
      <4>1. CASE ext' = ext
        BY <1>2, <4>1
      <4>2. CASE ext' # ext
        <5>1. PICK info \in Infos : ext' = [ext EXCEPT ![call[c].mod].info = info]
          BY <2>1, <3>2, <4>2
        <5>2. QED
          BY <1>2, <5>1 DEF ExtTypes
      <4>3. QED
        BY <4>1, <4>2
    <3>4. PICK k \in CallTypes : /\ call' = [call EXCEPT ![c] = k] /\ Sound(c, k)
                                /\ k.step \in {"idle", "client", "channel"}
      BY <3>1, Ending DEF MovesOn
    <3>5. exhausted \subseteq exhausted' /\ exhausted' \subseteq Modules
      BY <1>1, <1>2
    <3>6. QED
      BY <1>1, <1>3, <1>4, <3>1, <3>3, <3>4, <3>5, QuietCallMoves
  <2>4. QED
    BY <2>2, <2>3
<1>7. QED
  BY <1>5, <1>6 DEF StartFails

-----------------------------------------------------------------------------
(* The world outside, and the end of the host *)

LEMMA WorldKeepsInv ==
    ASSUME PluginInv, Listens \/ Dies \/ ServerStarts
    PROVE  PluginInv'
<1>1. PICK n \in Nat : procs \in [1..n -> ProcTypes]
  BY DEF PluginInv, TypeInv
<1>2. UNCHANGED <<ext, hosted, channelLock, call, exhausted, unstopped>>
  BY DEF Listens, Dies, ServerStarts
<1>3. CASE Listens \/ Dies
  <2>1. PICK i \in 1..n, s \in {"listening", "mute", "gone"} :
           procs[i].state # "gone" /\ procs' = [procs EXCEPT ![i].state = s]
    <3>1. CASE Listens
      BY <1>1, <3>1 DEF Listens
    <3>2. CASE Dies
      BY <1>1, <3>2 DEF Dies, Alive
    <3>3. QED
      BY <1>3, <3>1, <3>2
  <2>2. /\ procs' \in [1..n -> ProcTypes]
        /\ \A j \in 1..n : /\ procs'[j].mod = procs[j].mod
                           /\ procs'[j].state # "gone" => procs[j].state # "gone"
    BY <1>1, <2>1 DEF ProcTypes
  <2>3. QED
    BY <1>1, <1>2, <2>2, ProcessesKeepInv
<1>4. CASE ServerStarts
  <2>1. PICK m \in Modules : Mode[m] = "grpc" /\ procs' = StartedAs(m, ConfigPort[m], "starting")
    BY <1>4 DEF ServerStarts
  <2>2. ConfigPort[m] \in AnyPort
    BY PluginAssumption DEF AnyPort
  <2>3. /\ procs' \in [1..(n + 1) -> ProcTypes]
        /\ procs'[n + 1].mod = m /\ \A i \in 1..n : procs'[i] = procs[i]
    <3>1. StartedAs(m, ConfigPort[m], "starting") \in [1..(n + 1) -> ProcTypes]
      BY <1>1, <2>2, Starting
    <3>2. StartedAs(m, ConfigPort[m], "starting")[n + 1] = [mod |-> m, port |-> ConfigPort[m], state |-> "starting"]
      BY <1>1, <2>2, Starting
    <3>3. \A i \in 1..n : StartedAs(m, ConfigPort[m], "starting")[i] = procs[i]
      BY <1>1, <2>2, Starting
    <3>4. QED
      BY <2>1, <3>1, <3>2, <3>3
  <2>4. \A i \in 1..(n + 1) : Mode[procs'[i].mod] # "grpc" =>
            /\ i \in DOMAIN procs /\ procs[i].mod = procs'[i].mod
            /\ procs'[i].state # "gone" => procs[i].state # "gone"
    BY <1>1, <2>1, <2>3
  <2>5. QED
    BY <1>2, <2>3, <2>4, ProcessesKeepInv
<1>5. QED
  BY <1>3, <1>4

\* The host is dropped when no call is under way; its modules stop their containers.
LEMMA DroppingKeepsInv ==
    ASSUME PluginInv, DropHost
    PROVE  PluginInv'
<1>1. \A c \in Callers : call[c].step = "idle" /\ call[c].op = "none"
  BY DEF DropHost, Busy, PluginInv, CallInv, Sound
<1>2. UNCHANGED <<channelLock, call, exhausted>> /\ DOMAIN hosted' = {}
  <2>1. hosted' = <<>> /\ UNCHANGED <<channelLock, call, exhausted>>
    BY DEF DropHost
  <2>2. QED
    BY <2>1
<1>3. PICK n \in Nat : procs \in [1..n -> ProcTypes]
  BY DEF PluginInv, TypeInv
<1>4. ext \in [Modules -> ExtTypes]
  BY DEF PluginInv, TypeInv
<1>5. /\ ext' = [m \in Modules |-> IF m \in HostedModules
                                   THEN [ext[m] EXCEPT !.dropped = TRUE, !.container = 0] ELSE ext[m]]
      /\ Stop({ext[m].container : m \in HostedModules} \ {0})
  BY DEF DropHost, HostedModules
<1>stopping. PICK failing \in SUBSET ({ext[m].container : m \in HostedModules} \ {0}) :
         /\ procs' = [i \in DOMAIN procs |->
                       IF i \in ({ext[m].container : m \in HostedModules} \ {0}) \ failing
                       THEN [procs[i] EXCEPT !.state = "gone"] ELSE procs[i]]
         /\ unstopped' = unstopped \cup failing
  BY <1>5 DEF Stop
<1>6. procs' \in [1..n -> ProcTypes]
  BY <1>3, <1>stopping DEF ProcTypes
<1>7. /\ ext' \in [Modules -> ExtTypes]
      /\ \A m \in Modules : /\ ext'[m].channel = ext[m].channel /\ ext'[m].child = ext[m].child
                            /\ m \in HostedModules => ext'[m].container = 0
                            /\ m \notin HostedModules => ext'[m] = ext[m]
  BY <1>4, <1>5 DEF ExtTypes
<1>8. TypeInv'
  BY <1>2, <1>6, <1>7 DEF PluginInv, TypeInv
<1>9. LockInv' /\ CallInv'
  BY <1>1, <1>2 DEF LockInv, Connecting, CallInv, Sound
<1>10. HostInv'
  BY <1>2, <1>7 DEF PluginInv, HostInv
<1>11. HeldInv'
  <2> SUFFICES ASSUME NEW m \in Modules, m \notin exhausted, Mode[m] # "grpc",
                      NEW i \in 1..n, procs'[i].mod = m
               PROVE  /\ ext'[m].channel # NoPort
                      /\ Alive(i)' => i \in {ext'[m].child, ext'[m].container} \cup unstopped'
    BY <1>2, <1>6 DEF HeldInv
  <2>1. procs[i].mod = m
    BY <1>3, <1>stopping DEF ProcTypes
  <2>2. ext[m].channel # NoPort /\ (Alive(i) => i \in {ext[m].child, ext[m].container} \cup unstopped)
    BY <1>1, <1>3, <2>1 DEF PluginInv, HeldInv
  <2>3. Alive(i)' => Alive(i) /\ ((~\E x \in HostedModules : ext[x].container = i) \/ i \in unstopped')
    BY <1>3, <1>stopping DEF Alive, ProcTypes
  <2>4. unstopped \subseteq unstopped'
    BY <1>stopping
  <2>5. QED
    BY <1>7, <2>2, <2>3, <2>4
<1>12. QED
  BY <1>8, <1>9, <1>10, <1>11 DEF PluginInv

-----------------------------------------------------------------------------
(* Theorems *)

THEOREM HostInvariance == Spec => []PluginInv
<1>1. Init => PluginInv
  BY PluginBegins
<1>2. PluginInv /\ [Next]_vars => PluginInv'
  <2> SUFFICES ASSUME PluginInv, [Next]_vars PROVE PluginInv'
    OBVIOUS
  <2>1. CASE UNCHANGED vars
    <3>1. UNCHANGED <<procs, ext, hosted, channelLock, call, exhausted, unstopped>>
      BY <2>1 DEF vars
    <3>2. TypeInv' /\ LockInv' /\ HostInv'
      BY <3>1 DEF PluginInv, TypeInv, LockInv, Connecting, HostInv
    <3>3. CallInv' /\ HeldInv'
      BY <3>1 DEF PluginInv, CallInv, Sound, HostedModules, HeldInv, Alive
    <3>4. QED
      BY <3>2, <3>3 DEF PluginInv
  <2>2. CASE ServerStarts \/ Listens \/ Dies
    BY <2>2, WorldKeepsInv
  <2>3. CASE DropHost
    BY <2>3, DroppingKeepsInv
  <2>4. ASSUME NEW c \in Callers, (\E m \in Modules : Register(c, m)) \/ Analyze(c) \/ Explain(c) \/ List(c)
        PROVE  PluginInv'
    BY <2>4, CallsBegin
  <2>5. ASSUME NEW c \in Callers, LockClient(c) \/ GetChannel(c) \/ UseEndpoint(c)
        PROVE  PluginInv'
    BY <2>5, GoingOnKeepsInv
  <2>6. ASSUME NEW c \in Callers, SpawnCommand(c) \/ RunContainer(c)
        PROVE  PluginInv'
    BY <2>6, StartingKeepsInv
  <2>7. ASSUME NEW c \in Callers, Connect(c)
        PROVE  PluginInv'
    BY <2>7, ConnectingKeepsInv
  <2>8. ASSUME NEW c \in Callers, StartFails(c) \/ Request(c)
        PROVE  PluginInv'
    BY <2>8, EndingKeepsInv
  <2>9. QED
    BY <2>1, <2>2, <2>3, <2>4, <2>5, <2>6, <2>7, <2>8 DEF Next, Steps
<1>3. QED
  BY <1>1, <1>2, PTL DEF Spec

\* However many threads call at once, a module is started again only after one of its
\* connect loops ran out, or docker would not stop what it had: the check of the channel,
\* the spawn and the connecting are under one mutex (host.rs:65-120).
THEOREM ModulesAreStartedOnce == Spec => []StartedOncePerConnection
<1>1. PluginInv => StartedOncePerConnection
  BY DEF PluginInv, HeldInv, StartedOncePerConnection
<1>2. QED
  BY <1>1, HostInvariance, PTL

\* Once a module is dropped the only container of it that may run is one whose docker
\* stop failed, unless a connect loop ran out: the only id it ever kept is the one Drop
\* stops, and Drop looks at no result (host.rs:285-296).
THEOREM NoContainerOutlivesTheHost == Spec => []ContainersEndWithTheHost
<1>1. PluginInv => ContainersEndWithTheHost
  <2> SUFFICES ASSUME PluginInv, NEW m \in Modules, NEW i \in DOMAIN procs,
                      ext[m].dropped, m \notin exhausted, Mode[m] = "container", procs[i].mod = m, Alive(i)
               PROVE  i \in unstopped
    BY DEF ContainersEndWithTheHost
  <2>1. ext[m].child = 0 /\ ext[m].container = 0
    BY DEF PluginInv, HostInv
  <2>2. i # 0
    BY DEF PluginInv, TypeInv
  <2>3. QED
    BY <2>1, <2>2 DEF PluginInv, HeldInv
<1>2. QED
  BY <1>1, HostInvariance, PTL
=============================================================================

----------------------------- MODULE PluginHost -----------------------------
(***************************************************************************)
(* External modules behind a module host: chaffra-plugin/src/host.rs (the  *)
(* ExternalModule: spawn, connect with retries, cached channel, cached     *)
(* description, Drop) under either host of chaffra-core: the trait host    *)
(* of module.rs, which calls its modules directly, or the gRPC host of     *)
(* grpc.rs, which serialises the calls of one module behind a mutex and    *)
(* keeps the description of registration.                                  *)
(*                                                                         *)
(* A channel is the port it connects to: the transport reconnects by       *)
(* itself, so whoever listens there at the time of a call answers it.      *)
(* Processes are what the operating system and Docker run; they may be     *)
(* slow to listen, may never listen, may hold their port and answer        *)
(* nothing, and may die at any time. Nothing here has a timeout.           *)
(***************************************************************************)
EXTENDS Naturals, FiniteSets

CONSTANTS Hosts,        \* kinds of host, each with a kind of runtime its callers are on
          Callers,      \* threads that use the host
          Modules,      \* external modules of the configuration
          Mode,         \* TransportMode of each module
          ConfigPort,   \* the configured port, or NoPort: only a command has no default
          RemoteId,     \* the id the module's own program describes itself with
          ConfigId,     \* the id of its configuration entry
          Ports, NoPort,
          MaxAttempts,  \* 5 in the code; bound of the connect loop
          MaxProcs,     \* bound: processes and containers ever started
          MaxCalls,     \* bound: calls of the host
          Nobody

ASSUME PluginAssumption ==
    /\ Hosts \subseteq {"trait", "grpc"} \X {"none", "workers", "here"}
    /\ Mode \in [Modules -> {"command", "grpc", "container"}]
    /\ ConfigPort \in [Modules -> Ports \cup {NoPort}]
    /\ \A m \in Modules : Mode[m] # "command" => ConfigPort[m] # NoPort
    /\ NoPort \notin Ports /\ Nobody \notin Callers
    /\ MaxAttempts \in Nat \ {0}
    /\ MaxProcs \in Nat
    /\ MaxCalls \in Nat

VARIABLES hostKind,   \* "trait" (ModuleHost) or "grpc" (GrpcModuleHost)
          runtime,    \* tokio runtime the callers are on: "none", with "workers", or "here",
                      \* on the caller's own thread
          procs,      \* processes started so far
          ext,        \* the fields of each ExternalModule
          hosted,     \* the host's map from ids to modules
          client,     \* holder of each handle's client mutex (gRPC host)
          channelLock,\* holder of each module's channel mutex
          call,       \* what each caller is doing
          calls,      \* calls made so far
          exhausted,  \* history: modules one of whose connect loops ran out
          unstopped   \* history: containers whose docker stop failed

vars == <<hostKind, runtime, unstopped, procs, ext, hosted, client, channelLock, call, calls, exhausted>>

Pids == 1 .. MaxProcs
NoCall == [step |-> "idle", op |-> "none", mod |-> Nobody, port |-> NoPort, attempt |-> 0, todo |-> {}]
Alive(i) == i \in DOMAIN procs /\ procs[i].state \in {"starting", "listening", "mute"}
Listening(p) == {i \in DOMAIN procs : procs[i].port = p /\ procs[i].state = "listening"}
Mute(p) == {i \in DOMAIN procs : procs[i].port = p /\ procs[i].state = "mute"}
Taken(p) == Listening(p) # {} \/ Mute(p) # {}
Holder(lock, m) == lock[m] # Nobody

(***************************************************************************)
(* The world outside: programs and containers.                             *)
(***************************************************************************)

NextPid == Cardinality(DOMAIN procs) + 1

StartedAs(m, p, state) ==
    [i \in DOMAIN procs \cup {NextPid} |->
        IF i \in DOMAIN procs THEN procs[i] ELSE [mod |-> m, port |-> p, state |-> state]]

Listens ==
    \E i \in DOMAIN procs :
        /\ procs[i].state = "starting"
        /\ \E state \in IF Taken(procs[i].port) THEN {"gone"} ELSE {"listening", "mute"} :
              procs' = [procs EXCEPT ![i].state = state]
        /\ UNCHANGED <<hostKind, runtime, calls, ext, hosted, client, channelLock, call, exhausted, unstopped>>

Dies ==
    \E i \in DOMAIN procs :
        /\ Alive(i)
        /\ procs' = [procs EXCEPT ![i].state = "gone"]
        /\ UNCHANGED <<hostKind, runtime, calls, ext, hosted, client, channelLock, call, exhausted, unstopped>>

\* The server of a grpc module is started by somebody else.
ServerStarts ==
    \E m \in Modules :
        /\ Mode[m] = "grpc" /\ NextPid \in Pids
        /\ ~\E i \in DOMAIN procs : procs[i].mod = m /\ Alive(i)
        /\ procs' = StartedAs(m, ConfigPort[m], "starting")
        /\ UNCHANGED <<hostKind, runtime, calls, ext, hosted, client, channelLock, call, exhausted, unstopped>>

\* docker stop of each; when it fails the container runs on, and nobody looks.
Stop(containers) ==
    \E failing \in SUBSET {i \in containers : Alive(i)} :
        /\ procs' = [i \in DOMAIN procs |->
                       IF i \in containers \ failing THEN [procs[i] EXCEPT !.state = "gone"] ELSE procs[i]]
        /\ unstopped' = unstopped \cup failing

(***************************************************************************)
(* Callers of the host.                                                    *)
(***************************************************************************)

ExternalModuleNew == [info |-> Nobody, channel |-> NoPort, child |-> 0, container |-> 0, dropped |-> FALSE]

Registering == \E c \in Callers : call[c].op = "register"
Busy == \E c \in Callers : call[c].step # "idle"

\* A call enters a module: the gRPC host takes the handle's client mutex first.
Into(c, m, op, todo) ==
    call' = [call EXCEPT ![c] = [step |-> IF hostKind = "grpc" /\ op # "register" THEN "client" ELSE "channel",
                                 op |-> op, mod |-> m, port |-> NoPort, attempt |-> 0, todo |-> todo]]

Enter(c, m, op, todo) ==
    /\ calls < MaxCalls
    /\ calls' = calls + 1
    /\ Into(c, m, op, todo)

\* register takes &mut self, so nothing else of the host runs meanwhile.
Register(c, m) ==
    /\ ~Busy
    /\ ~ext[m].dropped
    /\ m \notin {hosted[id].mod : id \in DOMAIN hosted}
    /\ Enter(c, m, "register", {})
    /\ UNCHANGED <<hostKind, runtime, procs, ext, hosted, client, channelLock, exhausted, unstopped>>

\* analyze (and fix, through the handle) of a registered id.
Analyze(c) ==
    /\ call[c].step = "idle" /\ ~Registering
    /\ \E id \in DOMAIN hosted : Enter(c, hosted[id].mod, "analyze", {})
    /\ UNCHANGED <<hostKind, runtime, procs, ext, hosted, client, channelLock, exhausted, unstopped>>

\* explain of an id without a prefix: every module in turn, in the map's order.
Explain(c) ==
    /\ call[c].step = "idle" /\ ~Registering
    /\ \E id \in DOMAIN hosted : Enter(c, hosted[id].mod, "explain", DOMAIN hosted \ {id})
    /\ UNCHANGED <<hostKind, runtime, procs, ext, hosted, client, channelLock, exhausted, unstopped>>

\* list of the trait host describes its modules again; the gRPC host answers from its handles.
List(c) ==
    /\ call[c].step = "idle" /\ ~Registering
    /\ hostKind = "trait"
    /\ \E id \in DOMAIN hosted : ext[hosted[id].mod].info = Nobody /\ Enter(c, hosted[id].mod, "describe", {})
    /\ UNCHANGED <<hostKind, runtime, procs, ext, hosted, client, channelLock, exhausted, unstopped>>

LockClient(c) ==
    /\ call[c].step = "client"
    /\ ~Holder(client, call[c].mod)
    /\ client' = [client EXCEPT ![call[c].mod] = c]
    /\ call' = [call EXCEPT ![c].step = "channel"]
    /\ UNCHANGED <<hostKind, runtime, calls, procs, ext, hosted, channelLock, exhausted, unstopped>>

Unclient(c) == [m \in Modules |-> IF client[m] = c THEN Nobody ELSE client[m]]

(***************************************************************************)
(* get_or_connect_channel: the channel mutex is held to its end.           *)
(***************************************************************************)

\* Mutant: the channel is looked at without the mutex.
GetChannel_Unlocked(c) ==
    LET m == call[c].mod IN
    /\ call[c].step = "channel"
    /\ IF ext[m].channel # NoPort
       THEN /\ call' = [call EXCEPT ![c].step = "rpc", ![c].port = ext[m].channel]
            /\ UNCHANGED channelLock
       ELSE /\ call' = [call EXCEPT ![c].step = "start"]
            /\ channelLock' = [channelLock EXCEPT ![m] = c]
    /\ UNCHANGED <<hostKind, runtime, calls, procs, ext, hosted, client, exhausted, unstopped>>

GetChannel(c) ==
    LET m == call[c].mod IN
    /\ call[c].step = "channel"
    /\ ~Holder(channelLock, m)
    /\ IF ext[m].channel # NoPort
       THEN /\ call' = [call EXCEPT ![c].step = "rpc", ![c].port = ext[m].channel]
            /\ UNCHANGED channelLock
       ELSE /\ call' = [call EXCEPT ![c].step = "start"]
            /\ channelLock' = [channelLock EXCEPT ![m] = c]
    /\ UNCHANGED <<hostKind, runtime, calls, procs, ext, hosted, client, exhausted, unstopped>>

\* The port of a command without one: free when probed, released before the spawn.
PortOf(m) == IF ConfigPort[m] # NoPort THEN {ConfigPort[m]} ELSE {p \in Ports : ~Taken(p)}

\* What the end of a call leaves: its locks, and the modules explain still has to ask.
Answered(c, ok) ==
    IF call[c].op = "explain" /\ ~ok /\ call[c].todo # {}
    THEN \E id \in call[c].todo : Into(c, hosted[id].mod, "explain", call[c].todo \ {id})
    ELSE call' = [call EXCEPT ![c] = NoCall]

\* describe without an answer makes an id of the configuration's, and does not keep it.
DescribedId(m, info) == IF info = Nobody THEN ConfigId[m] ELSE info

\* Registration ends with an id; one that is taken refuses the module, which is dropped.
Described(c, info) ==
    LET m == call[c].mod
        id == DescribedId(m, info)
        taken == id \in DOMAIN hosted IN
    /\ hosted' = [h \in DOMAIN hosted \cup {id} |->
                     IF h \in DOMAIN hosted THEN hosted[h] ELSE [mod |-> m, info |-> id]]
    /\ ext' = [ext EXCEPT ![m].info = info, ![m].dropped = taken, ![m].container = IF taken THEN 0 ELSE @]
    /\ Stop(IF taken THEN {ext[m].container} \ {0} ELSE {})
    /\ call' = [call EXCEPT ![c] = NoCall]

\* A call that ends in an error: of connecting, or of the request itself.
Fails(c) ==
    IF call[c].op = "register"
    THEN Described(c, Nobody)
    ELSE Answered(c, FALSE) /\ UNCHANGED <<procs, ext, hosted, unstopped>>

\* Command: spawn, and forget whatever child was there before.
SpawnCommand(c) ==
    LET m == call[c].mod IN
    /\ call[c].step = "start" /\ Mode[m] = "command"
    /\ NextPid \in Pids
    /\ \E p \in PortOf(m) :
          /\ procs' = StartedAs(m, p, "starting")
          /\ ext' = [ext EXCEPT ![m].child = NextPid]
          /\ call' = [call EXCEPT ![c].step = "connect", ![c].port = p]
    /\ UNCHANGED <<hostKind, runtime, calls, hosted, client, channelLock, exhausted, unstopped>>

\* Container: docker run publishes the port. When the port is taken the container
\* does not start; its id is printed all the same, or not.
RunContainer(c) ==
    LET m == call[c].mod
        p == ConfigPort[m]
        free == ~\E i \in DOMAIN procs : procs[i].port = p /\ Alive(i) IN
    /\ call[c].step = "start" /\ Mode[m] = "container"
    /\ NextPid \in Pids
    /\ procs' = StartedAs(m, p, IF free THEN "starting" ELSE "gone")
    /\ \E printed \in IF free THEN {TRUE} ELSE BOOLEAN :
          ext' = [ext EXCEPT ![m].container = IF printed THEN NextPid ELSE @]
    /\ call' = [call EXCEPT ![c].step = "connect", ![c].port = p]
    /\ UNCHANGED <<hostKind, runtime, calls, hosted, client, channelLock, exhausted, unstopped>>

\* Grpc: the endpoint is configured; nothing is started.
UseEndpoint(c) ==
    /\ call[c].step = "start" /\ Mode[call[c].mod] = "grpc"
    /\ call' = [call EXCEPT ![c].step = "connect", ![c].port = ConfigPort[call[c].mod]]
    /\ UNCHANGED <<hostKind, runtime, calls, procs, ext, hosted, client, channelLock, exhausted, unstopped>>

\* The command cannot be spawned, or Docker is not there: the call ends at once.
StartFails(c) ==
    LET m == call[c].mod IN
    /\ call[c].step = "start" /\ Mode[m] # "grpc"
    /\ channelLock' = [channelLock EXCEPT ![m] = Nobody]
    /\ client' = Unclient(c)
    /\ Fails(c)
    /\ UNCHANGED <<hostKind, runtime, calls, exhausted>>

\* block_on of host.rs: on a thread of a runtime it hands the future to another
\* thread and waits there. The gRPC host without workers puts every call but
\* registration on a runtime of the call's own thread.
RuntimeOf(c) ==
    IF hostKind = "grpc" /\ call[c].op # "register" /\ runtime # "workers" THEN "here" ELSE runtime

\* Mutant: the mutex stays taken when the attempts run out.
Connect_KeepsLock(c) ==
    LET m == call[c].mod
        up == Taken(call[c].port)
        last == call[c].attempt + 1 = MaxAttempts IN
    /\ call[c].step = "connect"
    /\ \/ /\ up /\ RuntimeOf(c) # "here"
          /\ ext' = [ext EXCEPT ![m].channel = call[c].port]
          /\ channelLock' = [channelLock EXCEPT ![m] = Nobody]
          /\ call' = [call EXCEPT ![c].step = "rpc", ![c].attempt = 0]
          /\ UNCHANGED <<procs, hosted, client, exhausted, unstopped>>
       \/ /\ ~up /\ ~last
          /\ call' = [call EXCEPT ![c].attempt = @ + 1]
          /\ UNCHANGED <<procs, ext, hosted, client, channelLock, exhausted, unstopped>>
       \/ /\ ~up /\ last
          /\ exhausted' = exhausted \cup {m}
          /\ UNCHANGED channelLock
          /\ client' = Unclient(c)
          /\ Fails(c)
    /\ UNCHANGED <<hostKind, runtime, calls>>

\* One attempt of the connect loop. Where the waiting thread is the one that would
\* see the connection through, it never succeeds.
Connect(c) ==
    LET m == call[c].mod
        up == Taken(call[c].port)
        last == call[c].attempt + 1 = MaxAttempts IN
    /\ call[c].step = "connect"
    /\ \/ /\ up /\ RuntimeOf(c) # "here"
          /\ ext' = [ext EXCEPT ![m].channel = call[c].port]
          /\ channelLock' = [channelLock EXCEPT ![m] = Nobody]
          /\ call' = [call EXCEPT ![c].step = "rpc", ![c].attempt = 0]
          /\ UNCHANGED <<procs, hosted, client, exhausted, unstopped>>
       \/ /\ ~up /\ ~last
          /\ call' = [call EXCEPT ![c].attempt = @ + 1]
          /\ UNCHANGED <<procs, ext, hosted, client, channelLock, exhausted, unstopped>>
       \/ /\ ~up /\ last
          /\ exhausted' = exhausted \cup {m}
          /\ channelLock' = [channelLock EXCEPT ![m] = Nobody]
          /\ client' = Unclient(c)
          /\ Fails(c)
    /\ UNCHANGED <<hostKind, runtime, calls>>

\* The request itself: answered by whoever listens, or refused (by nobody, or by the
\* module). Without a runtime of the caller's the channel has lost its worker with the
\* runtime block_on connected it on, and refuses.
Request(c) ==
    LET m == call[c].mod
        at == Listening(call[c].port) IN
    /\ call[c].step = "rpc"
    /\ client' = Unclient(c)
    /\ \/ /\ at # {} /\ RuntimeOf(c) # "none"
          /\ IF call[c].op = "register"
             THEN \E i \in at : Described(c, RemoteId[procs[i].mod])
             ELSE /\ Answered(c, TRUE)
                  /\ IF call[c].op = "describe"
                     THEN \E i \in at : ext' = [ext EXCEPT ![m].info = RemoteId[procs[i].mod]]
                     ELSE UNCHANGED ext
                  /\ UNCHANGED <<procs, hosted, unstopped>>
       \/ Fails(c)
    /\ UNCHANGED <<hostKind, runtime, calls, channelLock, exhausted>>

\* Mutant: the containers are left running.
DropHost_Leaves ==
    /\ ~Busy
    /\ DOMAIN hosted # {}
    /\ LET ms == {hosted[id].mod : id \in DOMAIN hosted} IN
       /\ ext' = [m \in Modules |-> IF m \in ms THEN [ext[m] EXCEPT !.dropped = TRUE] ELSE ext[m]]
       /\ UNCHANGED procs
    /\ hosted' = <<>>
    /\ UNCHANGED <<hostKind, runtime, calls, client, channelLock, call, exhausted, unstopped>>

\* The host goes out of scope: Drop of every module stops the container it knows of.
DropHost ==
    /\ ~Busy
    /\ DOMAIN hosted # {}
    /\ LET ms == {hosted[id].mod : id \in DOMAIN hosted} IN
       /\ ext' = [m \in Modules |-> IF m \in ms THEN [ext[m] EXCEPT !.dropped = TRUE, !.container = 0] ELSE ext[m]]
       /\ Stop({ext[m].container : m \in ms} \ {0})
    /\ hosted' = <<>>
    /\ UNCHANGED <<hostKind, runtime, calls, client, channelLock, call, exhausted>>

Init ==
    /\ \E h \in Hosts : hostKind = h[1] /\ runtime = h[2]
    /\ procs = <<>>
    /\ ext = [m \in Modules |-> ExternalModuleNew]
    /\ hosted = <<>>
    /\ client = [m \in Modules |-> Nobody]
    /\ channelLock = [m \in Modules |-> Nobody]
    /\ call = [c \in Callers |-> NoCall]
    /\ exhausted = {}
    /\ unstopped = {}
    /\ calls = 0

Steps(c) ==
    \/ LockClient(c) \/ GetChannel(c)
    \/ SpawnCommand(c) \/ RunContainer(c) \/ UseEndpoint(c) \/ StartFails(c)
    \/ Connect(c) \/ Request(c)

Next ==
    \/ ServerStarts \/ Listens \/ Dies \/ DropHost
    \/ \E c \in Callers : \/ \E m \in Modules : Register(c, m)
                          \/ Analyze(c) \/ Explain(c) \/ List(c) \/ Steps(c)

\* A call that nothing obliges to go on: it connects where connecting never ends, or
\* whoever holds the port it speaks to stays mute. A channel without its worker fails.
Waits(c) ==
    \/ call[c].step = "connect" /\ (RuntimeOf(c) = "here" \/ Mute(call[c].port) # {})
    \/ call[c].step = "rpc" /\ RuntimeOf(c) # "none" /\ Mute(call[c].port) # {}

\* Threads run, docker ends, and requests are answered or refused by whoever is not
\* mute; a process owes nothing. No fairness of the mutexes is needed: the callers
\* call finitely often.
Spec == Init /\ [][Next]_vars /\ \A c \in Callers : WF_vars(~Waits(c) /\ Steps(c))

(***************************************************************************)
(* Properties.                                                             *)
(***************************************************************************)

\* However many threads call at once, a module is started again only after one of
\* its connect loops ran out: what it started is what it holds the handle of, or
\* what docker would not stop for it.
StartedOncePerConnection ==
    \A m \in Modules : (m \notin exhausted /\ Mode[m] # "grpc") =>
        \A i \in DOMAIN procs : (procs[i].mod = m /\ Alive(i)) => i \in {ext[m].child, ext[m].container} \cup unstopped

\* Once the host is gone no container of a module that always connected still runs,
\* but one whose docker stop failed: nothing tries again.
ContainersEndWithTheHost ==
    \A m \in Modules : \A i \in DOMAIN procs :
        (ext[m].dropped /\ m \notin exhausted /\ Mode[m] = "container" /\ procs[i].mod = m)
            => (Alive(i) => i \in unstopped)

\* Every call returns, whatever the processes do, unless some call of the same module
\* waits for a process that stays mute, or on the thread that would have to connect:
\* no mutex is held for good by a call that ended, and no two calls wait for each other.
CallsReturn ==
    \A c \in Callers :
        call[c].step # "idle" ~>
            \/ call[c].step = "idle"
            \/ \E d \in Callers : Waits(d) /\ call[d].mod = call[c].mod
=============================================================================

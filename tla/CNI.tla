--------------------------------- MODULE CNI ---------------------------------
(***************************************************************************)
(* internal/network/cni: Ensure, Attach and Detach, each a list of "ip"    *)
(* commands whose errors are dropped.  Ensure and Attach hold the mutex    *)
(* from start to end, Detach does not take it; a command is one step.      *)
(* The kernel is what the commands show of it: a link cannot be added when *)
(* its name or its peer's name is taken, and nothing is done to a link     *)
(* that is not there.  Addresses and the state of a bridge are left out.   *)
(***************************************************************************)
EXTENDS Naturals, Sequences, FiniteSets

CONSTANTS
  Callers,
  Projects,
  Networks,      \* IDs of networks
  Containers,    \* IDs of containers
  ShortID(_),    \* the first six characters without "-", or Panics
  Panics,        \* the slice expression of shortID is out of range
  None,
  MaxCalls,
  MaxFaults      \* commands that fail though they could succeed

\* None is nobody.
CallersAssumption == None \notin Callers

VARIABLES
  exec,      \* canExec: there is an "ip" command
  mu,        \* who holds the mutex
  networks,  \* m.networks: the bridge of each project
  bridges,   \* kernel: the bridges
  veths,     \* kernel: the host ends: master and whether they are up
  call,      \* each caller's call: the commands still to run
  calls, faults,
  tried      \* per host end, the bridges it was to be attached to since it was last deleted

vars == <<exec, mu, networks, bridges, veths, call, calls, faults, tried>>

Hosts == {ShortID(c) : c \in Containers} \ {Panics}
Idle == [op |-> "none", host |-> None, bridge |-> None, todo |-> <<>>, alone |-> FALSE]

Init ==
  /\ exec \in BOOLEAN
  /\ mu = None
  /\ networks = [p \in Projects |-> None]
  /\ bridges = {} /\ veths = << >>
  /\ call = [t \in Callers |-> Idle]
  /\ calls = 0 /\ faults = 0
  /\ tried = [h \in Hosts |-> {}]

Begin(t) == call[t] = Idle /\ calls < MaxCalls /\ calls' = calls + 1

\* Calls that return without a command, or panic in shortID.
Nothing == UNCHANGED <<mu, bridges, veths, call, faults, tried>>

Ensure(t, p, n) ==
  /\ Begin(t) /\ mu = None
  /\ UNCHANGED exec
  /\ IF ShortID(n) = Panics THEN Nothing /\ UNCHANGED networks
     ELSE /\ networks' = [networks EXCEPT ![p] = ShortID(n)]
          /\ IF ~exec THEN Nothing
             ELSE /\ mu' = t
                  /\ call' = [call EXCEPT ![t] = [Idle EXCEPT !.op = "ensure", !.bridge = ShortID(n), !.todo = <<"bridge">>]]
                  /\ UNCHANGED <<bridges, veths, faults, tried>>

\* No other pair is there and no Detach of this one is under way.
Alone(host) ==
  /\ DOMAIN veths \subseteq {host}
  /\ \A u \in Callers : call[u].op = "detach" => call[u].host # host

\* Mutant of Attach: the link is enslaved before it is made.
AttachInDisorder(t, p, c) ==
  /\ Begin(t) /\ mu = None
  /\ UNCHANGED <<exec, networks>>
  /\ IF networks[p] = None \/ ~exec \/ ShortID(c) = Panics THEN Nothing
     ELSE /\ mu' = t
          /\ call' = [call EXCEPT ![t] =
               [op |-> "attach", host |-> ShortID(c), bridge |-> networks[p], todo |-> <<"master", "add", "up">>,
                alone |-> Alone(ShortID(c))]]
          /\ tried' = [tried EXCEPT ![ShortID(c)] = @ \cup {networks[p]}]
          /\ UNCHANGED <<bridges, veths, faults>>

\* alone: no other pair was there, and no Detach of this one overlapped.
Attach(t, p, c) ==
  /\ Begin(t) /\ mu = None
  /\ UNCHANGED <<exec, networks>>
  /\ IF networks[p] = None \/ ~exec \/ ShortID(c) = Panics THEN Nothing
     ELSE /\ mu' = t
          /\ call' = [call EXCEPT ![t] =
               [op |-> "attach", host |-> ShortID(c), bridge |-> networks[p], todo |-> <<"add", "master", "up">>,
                alone |-> Alone(ShortID(c))]]
          /\ tried' = [tried EXCEPT ![ShortID(c)] = @ \cup {networks[p]}]
          /\ UNCHANGED <<bridges, veths, faults>>

Detach(t, c) ==
  /\ Begin(t)
  /\ UNCHANGED <<exec, networks>>
  /\ IF ~exec \/ ShortID(c) = Panics THEN Nothing
     ELSE /\ call' = [u \in Callers |->
               IF u = t THEN [Idle EXCEPT !.op = "detach", !.host = ShortID(c), !.todo = <<"del">>]
               ELSE IF call[u].host = ShortID(c) THEN [call[u] EXCEPT !.alone = FALSE] ELSE call[u]]
          /\ UNCHANGED <<mu, bridges, veths, faults, tried>>

\* What a command does to the kernel.  The peer of every pair is called eth0
\* and stays in the host's namespace, so there is one pair at a time.
Does(cmd, host, bridge) ==
  CASE cmd = "bridge" -> bridges' = bridges \cup {bridge} /\ UNCHANGED <<veths, tried>>
    [] cmd = "add"    -> /\ veths' = IF DOMAIN veths = {} THEN [h \in {host} |-> [master |-> None, up |-> FALSE]] ELSE veths
                         /\ UNCHANGED <<bridges, tried>>
    [] cmd = "master" -> /\ veths' = IF host \in DOMAIN veths /\ bridge \in bridges
                                     THEN [veths EXCEPT ![host].master = bridge] ELSE veths
                         /\ UNCHANGED <<bridges, tried>>
    [] cmd = "up"     -> /\ veths' = IF host \in DOMAIN veths THEN [veths EXCEPT ![host].up = TRUE] ELSE veths
                         /\ UNCHANGED <<bridges, tried>>
    [] cmd = "del"    -> /\ veths' = [h \in DOMAIN veths \ {host} |-> veths[h]]
                         /\ tried' = [tried EXCEPT ![host] =
                              {call[u].bridge : u \in {v \in Callers : call[v].op = "attach" /\ call[v].host = host}}]
                         /\ UNCHANGED bridges

\* The next command; after the last one the call returns.
Command(t) ==
  LET c == call[t]
  IN /\ c.todo # <<>>
     /\ \/ Does(Head(c.todo), c.host, c.bridge) /\ UNCHANGED faults
        \/ faults < MaxFaults /\ faults' = faults + 1 /\ UNCHANGED <<bridges, veths, tried>>
     /\ call' = [call EXCEPT ![t] = [c EXCEPT !.todo = Tail(c.todo)]]
     /\ UNCHANGED <<exec, mu, networks, calls>>

Return(t) ==
  /\ call[t] # Idle /\ call[t].todo = <<>>
  /\ call' = [call EXCEPT ![t] = Idle]
  /\ mu' = IF mu = t THEN None ELSE mu
  /\ UNCHANGED <<exec, networks, bridges, veths, calls, faults, tried>>

Next ==
  \E t \in Callers :
    \/ \E p \in Projects, n \in Networks : Ensure(t, p, n)
    \/ \E p \in Projects, c \in Containers : Attach(t, p, c)
    \/ \E c \in Containers : Detach(t, c)
    \/ Command(t) \/ Return(t)

Spec == Init /\ [][Next]_vars

-----------------------------------------------------------------------------
\* A host end hangs only on a bridge that an Attach of a container with its
\* short ID asked for since, or while, it was last deleted, though Detach does
\* not take the mutex.  And when no command failed by itself, no Detach of the
\* link overlapped and no other pair was there, the Attach that returns has
\* left its link up and on the bridge of its project.
LinksFollowCalls ==
  /\ \A h \in DOMAIN veths : veths[h].master # None => veths[h].master \in tried[h]
  /\ \A t \in Callers :
       (call[t].op = "attach" /\ call[t].todo = <<>> /\ call[t].alone /\ faults = 0)
         => call[t].host \in DOMAIN veths /\ veths[call[t].host] = [master |-> call[t].bridge, up |-> TRUE]
=============================================================================

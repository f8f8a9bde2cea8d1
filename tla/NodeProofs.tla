----------------------------- MODULE NodeProofs -----------------------------
(***************************************************************************)
(* Proofs about what runs on a node: the agent (NodeAgent), Exec and Logs  *)
(* of its runtime (Exec), and the bridges of the projects (CNI).           *)
(***************************************************************************)
EXTENDS Naturals, Sequences, AgentPart, NodeParts, TLAPS

-----------------------------------------------------------------------------
(* The agent: a sweep is exact.                                            *)

\* The types of the state that a pass of reconcileOnce works on.
PassTypes ==
  /\ created \subseteq Workloads /\ placed \subseteq created
  /\ conts \in [Workloads -> {"none", "creating", "running", "exited"}]
  /\ todo \subseteq Workloads /\ want \subseteq Workloads /\ extra \subseteq Workloads
  /\ steady \subseteq placed /\ away \subseteq Workloads \ placed
  /\ clean \in BOOLEAN

\* While a pass in which no call failed reads the placements, what was placed
\* all the time is wanted or still to be read, and what was placed at no time
\* is not wanted.
ScanInv ==
  pc = "scan" /\ clean => steady \subseteq want \cup todo /\ want \cap away = {}

\* While it removes containers, what was placed all the time is not among them,
\* and what was placed at no time is, if it is there and was when the pass
\* listed the containers.
RemovalInv ==
  pc = "sweep" /\ clean => steady \cap extra = {} /\ away \cap Ag!Present \subseteq extra \cup made

AgentInv == PassTypes /\ ScanInv /\ RemovalInv

LEMMA AgentInit == Ag!Init => AgentInv
  BY ZenonT(60) DEF Ag!Init, Ag!NewAgent, AgentInv, PassTypes, ScanInv, RemovalInv

LEMMA AgentStep == AgentInv /\ [Ag!Next]_(Ag!vars) => AgentInv'
<1> SUFFICES ASSUME AgentInv, [Ag!Next]_(Ag!vars) PROVE AgentInv'
  OBVIOUS
<1> USE DEF AgentInv, PassTypes, ScanInv, RemovalInv, Ag!Present
<1>1. ASSUME NEW w \in Workloads, Ag!CreateWorkload(w) PROVE AgentInv'
  BY Zenon, <1>1 DEF Ag!CreateWorkload, Ag!loop, Ag!runtime, Ag!past
<1>2. ASSUME NEW w \in Workloads, Ag!SetPlacements(w) PROVE AgentInv'
  BY Zenon, <1>2 DEF Ag!SetPlacements, Ag!loop, Ag!runtime
<1>3. ASSUME NEW w \in Workloads, Ag!Create(w) PROVE AgentInv'
  BY <1>3 DEF Ag!Create, Ag!store, Ag!loop
<1>4. ASSUME NEW w \in Workloads, Ag!Start(w) \/ Ag!Stop(w) \/ Ag!Exit(w) PROVE AgentInv'
  BY <1>4 DEF Ag!Start, Ag!Stop, Ag!Exit, Ag!store, Ag!loop, Ag!past
<1>5. CASE Ag!List
  BY Zenon, <1>5 DEF Ag!List, Ag!store, Ag!runtime
<1>6. CASE Ag!ListFails
  BY Zenon, <1>6 DEF Ag!ListFails, Ag!Fault, Ag!store, Ag!runtime
<1>7. ASSUME NEW w \in Workloads, Ag!GetPlacements(w) PROVE AgentInv'
  BY <1>7 DEF Ag!GetPlacements, Ag!store, Ag!runtime, Ag!past
<1>8. ASSUME NEW w \in Workloads, Ag!GetPlacementsFails(w) PROVE AgentInv'
  BY Zenon, <1>8 DEF Ag!GetPlacementsFails, Ag!Fault, Ag!store, Ag!runtime
<1>9. CASE Ag!ListContainers
  BY <1>9 DEF Ag!ListContainers, Ag!store, Ag!runtime, Ag!past
<1>10. ASSUME NEW w \in Workloads, Ag!Remove(w) PROVE AgentInv'
  BY <1>10 DEF Ag!Remove, Ag!store, Ag!past
<1>11. CASE Ag!EndPass
  BY Zenon, <1>11 DEF Ag!EndPass, Ag!store, Ag!runtime
<1>12. CASE Ag!Crash
  BY Zenon, <1>12 DEF Ag!Crash, Ag!Fault, Ag!store
<1>13. CASE Ag!Restart
  BY Zenon, <1>13 DEF Ag!Restart, Ag!store, Ag!runtime
<1>14. CASE UNCHANGED Ag!vars
  BY Zenon, <1>14 DEF Ag!vars, Ag!store, Ag!loop, Ag!runtime, Ag!past
<1> QED
  BY Zenon, <1>1, <1>2, <1>3, <1>4, <1>5, <1>6, <1>7, <1>8, <1>9, <1>10, <1>11, <1>12, <1>13, <1>14
     DEF Ag!Next, Ag!Run

\* reconcileOnce, for any set of workloads, any interleaving with the
\* controllers' SetPlacements and the users of the runtime, and any number of
\* failing calls: a pass without a failing call removes no container of a
\* workload that stayed placed, and leaves none of a workload that stayed away,
\* except what was created after it listed the containers.
THEOREM AgentSweepIsExact == Ag!Spec => SweepIsExact
<1>1. AgentInv /\ [Ag!Next]_(Ag!vars)
        => [clean => /\ \A w \in steady : ~Ag!Remove(w)
                     /\ Ag!EndPass => away \cap Ag!Present \subseteq made]_(Ag!vars)
  <2> SUFFICES ASSUME AgentInv, clean
               PROVE  /\ \A w \in steady : ~Ag!Remove(w)
                      /\ Ag!EndPass => away \cap Ag!Present \subseteq made
    OBVIOUS
  <2> QED
    BY Zenon DEF AgentInv, RemovalInv, Ag!Remove, Ag!EndPass
<1> QED
  BY AgentInit, AgentStep, <1>1, PTL DEF Ag!Spec, SweepIsExact, Ag!SweepIsExact
-----------------------------------------------------------------------------
(* Exec and Logs.                                                          *)

LEMMA SeqWiden == ASSUME NEW S, NEW T, S \subseteq T, NEW s \in Seq(S) PROVE s \in Seq(T)
  OBVIOUS

\* What Logs may take of the lines b.
LEMMA BytesType ==
  ASSUME NEW b \in Seq(Nat)
  PROVE  b \in Seq(Nat \cup {Torn}) /\ SubSeq(b, 1, Len(b) - 1) \in Seq(Nat \cup {Torn}) /\ <<Torn>> \in Seq(Nat \cup {Torn})
<1>1. Nat \subseteq Nat \cup {Torn} /\ <<Torn>> \in Seq(Nat \cup {Torn})
  OBVIOUS
<1>2. SubSeq(b, 1, Len(b) - 1) \in Seq(Nat)
  OBVIOUS
<1> QED
  BY ZenonT(60), <1>1, <1>2, SeqWiden

CallRec ==
  [pc : {"idle", "check", "lock", "wrote", "bytes", "read"}, no : Nat, buf : Nat,
   met : SUBSET Nat, out : Seq(Nat \cup {Torn}), raced : BOOLEAN]

\* The types of Exec's state; a container and its log come and go together.
ExecTypes ==
  /\ bufs \in Seq(Seq(Nat)) /\ cont \in 0..Len(bufs) /\ log = cont
  /\ calls \in Nat /\ mu \in Callers \cup {0}
  /\ call \in [Callers -> CallRec]
  /\ ran \subseteq [no : Nat, met : SUBSET Nat]

Running(t) == call[t].pc # "idle"

\* A number is given to one call, and only that call writes it.
NumbersUnique ==
  /\ \A t \in Callers : Running(t) => call[t].no <= calls
  /\ \A t, u \in Callers : Running(t) /\ Running(u) /\ t # u => call[t].no # call[u].no
  /\ \A r \in ran : r.no <= calls /\ \A t \in Callers : Running(t) => call[t].no # r.no
  /\ \A n \in Nat : n > calls => Rt!Wrote(n) = {}

\* What a call under way has done: the lock is held from the line's write to
\* the return, so the log is still the one that was written to.
CallsUnderWay ==
  \A t \in Callers, n \in Nat : Running(t) /\ call[t].no = n =>
    /\ cont \in call[t].met
    /\ call[t].pc # "wrote" => Rt!Wrote(n) = {}
    /\ call[t].pc = "wrote" => mu = t /\ log # 0 /\ Rt!Wrote(n) = {log}

\* What a call that returned has left behind.
CallsReturned ==
  \A r \in ran : /\ Rt!Wrote(r.no) \subseteq r.met
                 /\ \E b \in Nat : Rt!Wrote(r.no) \subseteq {b}
                 /\ 0 \notin r.met => Rt!Wrote(r.no) # {}

LogsRead ==
  \A t \in Callers :
    /\ call[t].pc \in {"bytes", "read"} => call[t].buf \in 1..Len(bufs)
    /\ call[t].pc = "read" /\ ~call[t].raced => Rt!IsPrefix(call[t].out, bufs[call[t].buf])

ExecInv == ExecTypes /\ NumbersUnique /\ CallsUnderWay /\ CallsReturned /\ LogsRead

LEMMA ExecTypesStep ==
  ASSUME Rt!CallersAssumption
  PROVE  ExecTypes /\ LogsRead /\ [Rt!Next]_(Rt!vars) => ExecTypes'
<1> SUFFICES ASSUME ExecTypes, LogsRead, [Rt!Next]_(Rt!vars) PROVE ExecTypes'
  OBVIOUS
<1> USE DEF ExecTypes
<1>0. Rt!Idle \in CallRec /\ 0 \in Nat
  BY DEF Rt!Idle, CallRec
<1>1. ASSUME NEW i \in Images, Rt!Pull(i) PROVE ExecTypes'
  BY Zenon, <1>1 DEF Rt!Pull
<1>2. ASSUME NEW c \in Nat PROVE Rt!Meeting(c) \in [Callers -> CallRec]
  BY ZenonT(60) DEF Rt!Meeting, CallRec
<1>3. ASSUME NEW i \in Images, Rt!Create(i) PROVE ExecTypes'
  <2>1. bufs' \in Seq(Seq(Nat)) /\ cont' \in 0..Len(bufs') /\ log' = cont' /\ cont' \in Nat
    BY <1>3 DEF Rt!Create
  <2> QED
    BY Zenon, <1>2, <1>3, <2>1 DEF Rt!Create
<1>4. CASE Rt!RemoveForced
  BY <1>0, <1>2, <1>4 DEF Rt!RemoveForced
<1>5. CASE Rt!AppendLog
  BY <1>5 DEF Rt!AppendLog
<1>6. ASSUME NEW t \in Callers, Rt!BeginExec(t) \/ Rt!BeginLogs(t) PROVE ExecTypes'
  <2> DEFINE new(pc0, buf) == [Rt!Idle EXCEPT !.pc = pc0, !.no = calls + 1, !.buf = buf, !.met = {cont}]
  <2>1. ASSUME NEW r \in CallRec, NEW pc0 \in {"check", "bytes"}, NEW n \in Nat, NEW buf \in Nat, NEW m \in SUBSET Nat
        PROVE  [r EXCEPT !.pc = pc0, !.no = n, !.buf = buf, !.met = m] \in CallRec
    BY Zenon DEF CallRec
  <2>2. log \in Nat /\ calls + 1 \in Nat /\ {cont} \in SUBSET Nat
    OBVIOUS
  <2>3. new("check", 0) \in CallRec /\ new("bytes", log) \in CallRec
    BY Zenon, <1>0, <2>1, <2>2
  <2>4. call' = [call EXCEPT ![t] = new("check", 0)] \/ call' = [call EXCEPT ![t] = new("bytes", log)]
    BY Zenon, <1>6 DEF Rt!BeginExec, Rt!BeginLogs, Rt!Begin
  <2>5. calls' \in Nat /\ UNCHANGED <<cont, log, bufs, mu, ran>>
    BY <1>6 DEF Rt!BeginExec, Rt!BeginLogs, Rt!Begin
  <2> HIDE DEF new
  <2> QED
    BY Zenon, <2>3, <2>4, <2>5
<1>7. ASSUME NEW t \in Callers, Rt!ExecCheck(t) PROVE ExecTypes'
  <2>1. [call[t] EXCEPT !.pc = "lock"] \in CallRec
    BY ZenonT(60) DEF CallRec
  <2> QED
    BY Zenon, <1>0, <1>7, <2>1 DEF Rt!ExecCheck
<1>8. ASSUME NEW t \in Callers, Rt!ExecWrite(t) PROVE ExecTypes'
  <2>1. /\ [call[t] EXCEPT !.pc = "wrote"] \in CallRec
        /\ call[t].no \in Nat
        /\ [no |-> call[t].no, met |-> call[t].met] \in [no : Nat, met : SUBSET Nat]
    BY ZenonT(60) DEF CallRec
  <2>2. CASE log = 0
    BY Zenon, <1>0, <1>8, <2>1, <2>2 DEF Rt!ExecWrite
  <2>3. CASE log # 0
    <3>1. log \in 1..Len(bufs) /\ bufs[log] \in Seq(Nat)
      BY <2>3
    <3>2. Append(bufs[log], call[t].no) \in Seq(Nat)
      BY <2>1, <3>1
    <3>3. bufs' = [bufs EXCEPT ![log] = Append(bufs[log], call[t].no)]
      BY Zenon, <1>8, <2>3 DEF Rt!ExecWrite
    <3>4. bufs' \in Seq(Seq(Nat)) /\ Len(bufs') = Len(bufs)
      BY <3>1, <3>2, <3>3
    <3> QED
      BY ZenonT(60), <1>8, <2>1, <2>3, <3>4 DEF Rt!ExecWrite
  <2> QED
    BY Zenon, <2>2, <2>3
<1>9. ASSUME NEW t \in Callers, Rt!ExecReturn(t) PROVE ExecTypes'
  <2>1. [no |-> call[t].no, met |-> call[t].met] \in [no : Nat, met : SUBSET Nat]
    BY Zenon DEF CallRec
  <2> QED
    BY Zenon, <1>0, <1>9, <2>1 DEF Rt!ExecReturn
<1>10. ASSUME NEW t \in Callers, Rt!LogsBytes(t) PROVE ExecTypes'
  <2> DEFINE b == bufs[call[t].buf]
  <2>1. b \in Seq(Nat)
    BY <1>10 DEF Rt!LogsBytes, LogsRead
  <2>2. b \in Seq(Nat \cup {Torn}) /\ SubSeq(b, 1, Len(b) - 1) \in Seq(Nat \cup {Torn}) /\ <<Torn>> \in Seq(Nat \cup {Torn})
    BY <2>1, BytesType, Zenon
  <2>3. PICK out \in Seq(Nat \cup {Torn}), raced \in BOOLEAN :
          call' = [call EXCEPT ![t] = [@ EXCEPT !.pc = "read", !.out = out, !.raced = raced]]
    BY Zenon, <1>10, <2>2 DEF Rt!LogsBytes
  <2>4. [call[t] EXCEPT !.pc = "read", !.out = out, !.raced = raced] \in CallRec
    BY ZenonT(60) DEF CallRec
  <2> QED
    BY Zenon, <1>10, <2>3, <2>4 DEF Rt!LogsBytes
<1>11. ASSUME NEW t \in Callers, Rt!LogsReturn(t) PROVE ExecTypes'
  BY Zenon, <1>0, <1>11 DEF Rt!LogsReturn
<1>12. CASE UNCHANGED Rt!vars
  BY Zenon, <1>12 DEF Rt!vars
<1> QED
  BY Zenon, <1>1, <1>3, <1>4, <1>5, <1>6, <1>7, <1>8, <1>9, <1>10, <1>11, <1>12 DEF Rt!Next

LEMMA PrefixGrows ==
  ASSUME NEW S, NEW s \in Seq(S), NEW b \in Seq(Nat), NEW n \in Nat, Rt!IsPrefix(s, b)
  PROVE  Rt!IsPrefix(s, Append(b, n))
<1>1. Len(s) <= Len(b) /\ s = SubSeq(b, 1, Len(s)) /\ Len(s) \in Nat
  BY DEF Rt!IsPrefix
<1>2. Len(s) <= Len(Append(b, n))
  BY <1>1
<1>3. SubSeq(Append(b, n), 1, Len(s)) = SubSeq(b, 1, Len(s))
  BY <1>1
<1> QED
  BY Zenon, <1>1, <1>2, <1>3 DEF Rt!IsPrefix

\* A number is a line of a log.
In(n, b) == \E i \in DOMAIN b : b[i] = n

LEMMA InAppend ==
  ASSUME NEW s \in Seq(Nat), NEW n \in Nat
  PROVE  \A m : In(m, Append(s, n)) <=> In(m, s) \/ m = n
<1>1. /\ DOMAIN s = 1..Len(s) /\ DOMAIN Append(s, n) = 1..(Len(s) + 1) /\ Len(s) \in Nat
      /\ \A i \in 1..Len(s) : Append(s, n)[i] = s[i]
      /\ Append(s, n)[Len(s) + 1] = n
  OBVIOUS
<1>2. 1..(Len(s) + 1) = 1..Len(s) \cup {Len(s) + 1}
  BY <1>1
<1> QED
  BY <1>1, <1>2, Zenon DEF In

\* The logs a number is in after a line is written, ...
LEMMA WroteLine ==
  ASSUME ExecTypes, log # 0, NEW n \in Nat, bufs' = [bufs EXCEPT ![log] = Append(@, n)], NEW m \in Nat
  PROVE  /\ m # n => Rt!Wrote(m)' = Rt!Wrote(m)
         /\ m = n /\ Rt!Wrote(m) = {} => Rt!Wrote(m)' = {log}
<1>1. log \in 1..Len(bufs) /\ bufs \in Seq(Seq(Nat)) /\ bufs' \in Seq(Seq(Nat)) /\ Len(bufs') = Len(bufs)
  BY DEF ExecTypes
<1>2. ASSUME NEW b \in 1..Len(bufs), b # log PROVE bufs'[b] = bufs[b]
  BY <1>1, <1>2
<1>3. In(m, bufs'[log]) <=> In(m, bufs[log]) \/ m = n
  <2>1. bufs'[log] = Append(bufs[log], n) /\ bufs[log] \in Seq(Nat)
    BY <1>1
  <2> QED
    BY <2>1, InAppend
<1>4. DOMAIN bufs = 1..Len(bufs) /\ DOMAIN bufs' = 1..Len(bufs)
  BY <1>1
<1>5. \A b : b \in Rt!Wrote(m) <=> b \in 1..Len(bufs) /\ In(m, bufs[b])
  BY <1>4, Zenon DEF Rt!Wrote, In
<1>6. \A b : b \in Rt!Wrote(m)' <=> b \in 1..Len(bufs) /\ In(m, bufs'[b])
  BY <1>4, Zenon DEF Rt!Wrote, In
<1>7. ASSUME m # n PROVE Rt!Wrote(m)' = Rt!Wrote(m)
  <2>1. \A b : b \in Rt!Wrote(m)' <=> b \in Rt!Wrote(m)
    BY <1>1, <1>2, <1>3, <1>5, <1>6, <1>7, Zenon
  <2> QED
    BY <2>1, Zenon
<1>8. ASSUME m = n, Rt!Wrote(m) = {} PROVE Rt!Wrote(m)' = {log}
  <2>1. \A b : b \in Rt!Wrote(m)' <=> b = log
    BY <1>1, <1>2, <1>3, <1>5, <1>6, <1>8, Zenon
  <2> QED
    BY <2>1
<1> QED
  BY Zenon, <1>7, <1>8

\* ... and after an empty log is added.
LEMMA WroteEmpty ==
  ASSUME ExecTypes, bufs' = Append(bufs, <<>>), NEW m \in Nat
  PROVE  Rt!Wrote(m)' = Rt!Wrote(m)
<1>1. bufs \in Seq(Seq(Nat)) /\ DOMAIN bufs = 1..Len(bufs) /\ DOMAIN bufs' = 1..(Len(bufs) + 1) /\ Len(bufs) \in Nat
  BY DEF ExecTypes
<1>2. bufs'[Len(bufs) + 1] = <<>> /\ \A b \in 1..Len(bufs) : bufs'[b] = bufs[b]
  BY <1>1
<1> QED
  BY SMTT(60), <1>1, <1>2 DEF Rt!Wrote

LEMMA ExecInit == ASSUME Rt!CallersAssumption PROVE Rt!Init => ExecInv
<1> SUFFICES ASSUME Rt!Init PROVE ExecInv
  OBVIOUS
<1>1. Rt!Idle \in CallRec /\ Rt!Idle.pc = "idle"
  BY DEF Rt!Idle, CallRec
<1>2. ExecTypes /\ \A t \in Callers : ~Running(t) /\ call[t].pc = "idle"
  BY <1>1 DEF Rt!Init, ExecTypes, Running
<1>3. \A n \in Nat : Rt!Wrote(n) = {}
  BY DEF Rt!Init, Rt!Wrote
<1>4. ran = {}
  BY Zenon DEF Rt!Init
<1> QED
  BY Zenon, <1>2, <1>3, <1>4 DEF ExecInv, NumbersUnique, CallsUnderWay, CallsReturned, LogsRead

\* Steps that write no line and return no call: each caller goes on with its
\* number, or is idle, and remembers the container there is.
LEMMA ExecKeep ==
  ASSUME Rt!CallersAssumption, ExecInv, ExecTypes', ran' = ran, calls' = calls, mu' = mu,
         \A n \in Nat : Rt!Wrote(n)' = Rt!Wrote(n),
         log # 0 /\ mu # 0 => log' = log,
         \A t \in Callers : Running(t)' =>
           /\ Running(t) /\ call'[t].no = call[t].no
           /\ cont' \in call'[t].met
           /\ call'[t].pc = "wrote" <=> call[t].pc = "wrote"
  PROVE  NumbersUnique' /\ CallsUnderWay' /\ CallsReturned'
<1>1. \A t \in Callers : call[t].no \in Nat
  BY Zenon DEF ExecInv, ExecTypes, CallRec
<1>2. \A r \in ran : r.no \in Nat
  BY Zenon DEF ExecInv, ExecTypes
<1>3. NumbersUnique'
  BY <1>1 DEF ExecInv, NumbersUnique
<1>4. CallsUnderWay'
  <2> SUFFICES ASSUME NEW t \in Callers, NEW n \in Nat, Running(t)', call'[t].no = n
               PROVE  /\ cont' \in call'[t].met
                      /\ call'[t].pc # "wrote" => Rt!Wrote(n)' = {}
                      /\ call'[t].pc = "wrote" => mu' = t /\ log' # 0 /\ Rt!Wrote(n)' = {log'}
    BY Zenon DEF CallsUnderWay
  <2>1. call[t].pc = "wrote" => mu = t /\ mu # 0
    BY Zenon DEF ExecInv, CallsUnderWay, Rt!CallersAssumption
  <2> QED
    BY ZenonT(60), <2>1 DEF ExecInv, CallsUnderWay
<1>5. CallsReturned'
  BY <1>2 DEF ExecInv, CallsReturned
<1> QED
  BY Zenon, <1>3, <1>4, <1>5

\* The bytes that Logs took stay a prefix of their log: logs only grow.
LEMMA LogsKeep ==
  ASSUME ExecTypes, LogsRead, ExecTypes', Len(bufs') >= Len(bufs),
         \A b \in 1..Len(bufs) : bufs'[b] = bufs[b] \/ \E n \in Nat : bufs'[b] = Append(bufs[b], n),
         \A t \in Callers : call'[t].pc \in {"bytes", "read"} =>
           call'[t].pc = call[t].pc /\ call'[t].buf = call[t].buf /\ call'[t].out = call[t].out /\ call'[t].raced = call[t].raced
  PROVE  LogsRead'
<1> SUFFICES ASSUME NEW t \in Callers, call'[t].pc \in {"bytes", "read"}
             PROVE  /\ call'[t].buf \in 1..Len(bufs')
                    /\ call'[t].pc = "read" /\ ~call'[t].raced => Rt!IsPrefix(call'[t].out, bufs'[call'[t].buf])
  BY Zenon DEF LogsRead
<1> DEFINE b == call[t].buf
<1>1. b \in 1..Len(bufs) /\ call[t].pc = call'[t].pc /\ call'[t].buf = b
  BY Zenon DEF LogsRead
<1>2. call'[t].buf \in 1..Len(bufs')
  BY <1>1 DEF ExecTypes
<1>3. ASSUME call'[t].pc = "read", ~call'[t].raced PROVE Rt!IsPrefix(call[t].out, bufs'[b])
  <2>1. Rt!IsPrefix(call[t].out, bufs[b])
    BY Zenon, <1>1, <1>3 DEF LogsRead
  <2>2. bufs[b] \in Seq(Nat) /\ call[t].out \in Seq(Nat \cup {Torn})
    <3>1. call[t] \in CallRec /\ bufs \in Seq(Seq(Nat))
      BY Zenon DEF ExecTypes
    <3>2. call[t].out \in Seq(Nat \cup {Torn})
      BY Zenon, <3>1 DEF CallRec
    <3> QED
      BY <1>1, <3>1, <3>2
  <2>3. ASSUME NEW n \in Nat PROVE Rt!IsPrefix(call[t].out, Append(bufs[b], n))
    <3> HIDE DEF b
    <3> QED
      BY Zenon, <2>1, <2>2, PrefixGrows
  <2> QED
    BY Zenon, <1>1, <2>1, <2>3
<1> QED
  BY Zenon, <1>1, <1>2, <1>3

\* The runtime's steps and the ends of calls that wrote nothing.
LEMMA ExecSilent ==
  ASSUME Rt!CallersAssumption, ExecInv, ExecTypes',
         \/ \E i \in Images : Rt!Pull(i) \/ Rt!Create(i)
         \/ Rt!RemoveForced
         \/ \E t \in Callers : Rt!ExecCheck(t) \/ Rt!LogsReturn(t)
         \/ UNCHANGED Rt!vars
  PROVE  ExecInv'
<1>1. ExecTypes /\ \A t \in Callers : call[t] \in CallRec
  BY Zenon DEF ExecInv, ExecTypes
<1>2. Rt!Idle.pc = "idle"
  BY Zenon DEF Rt!Idle
<1> DEFINE Kept(t) ==
      /\ call'[t].pc = call[t].pc \/ (call[t].pc = "check" /\ call'[t].pc = "lock")
      /\ call'[t].no = call[t].no /\ call'[t].buf = call[t].buf
      /\ call'[t].out = call[t].out /\ call'[t].raced = call[t].raced
      /\ call[t].pc # "idle" => cont' \in call'[t].met
<1>3. \A t \in Callers : call'[t].pc = "idle" \/ Kept(t)
  <2>1. CASE \E i \in Images : Rt!Create(i)
    BY <1>1, <2>1 DEF Rt!Create, Rt!Meeting, CallRec
  <2>2. CASE Rt!RemoveForced
    BY Zenon, <1>1, <2>2 DEF Rt!RemoveForced, Rt!Meeting, CallRec
  <2>3. ASSUME NEW t \in Callers, NEW n \in Nat, call[t].no = n, Running(t) PROVE cont \in call[t].met
    BY Zenon, <2>3 DEF ExecInv, CallsUnderWay
  <2>4. \A t \in Callers : call[t].pc # "idle" => cont \in call[t].met
    BY Zenon, <1>1, <2>3 DEF Running, CallRec
  <2>5. CASE (\E i \in Images : Rt!Pull(i)) \/ UNCHANGED Rt!vars
    BY Zenon, <2>4, <2>5 DEF Rt!Pull, Rt!vars
  <2>6. CASE \E t \in Callers : Rt!LogsReturn(t)
    BY Zenon, <1>1, <1>2, <2>4, <2>6 DEF Rt!LogsReturn, ExecTypes
  <2>7. CASE \E t \in Callers : Rt!ExecCheck(t)
    BY SMTT(60), <1>1, <1>2, <2>4, <2>7 DEF Rt!ExecCheck, ExecTypes, CallRec
  <2> QED
    BY Zenon, <2>1, <2>2, <2>5, <2>6, <2>7
<1>4. ran' = ran /\ calls' = calls /\ mu' = mu /\ (log # 0 /\ mu # 0 => log' = log)
  BY Zenon DEF Rt!Pull, Rt!Create, Rt!RemoveForced, Rt!ExecCheck, Rt!LogsReturn, Rt!vars
<1>5. bufs' = bufs \/ bufs' = Append(bufs, <<>>)
  BY Zenon DEF Rt!Pull, Rt!Create, Rt!RemoveForced, Rt!ExecCheck, Rt!LogsReturn, Rt!vars
<1>6. \A n \in Nat : Rt!Wrote(n)' = Rt!Wrote(n)
  <2>1. CASE bufs' = bufs
    BY Zenon, <2>1 DEF Rt!Wrote
  <2>2. CASE bufs' = Append(bufs, <<>>)
    BY Zenon, <1>1, <2>2, WroteEmpty
  <2> QED
    BY Zenon, <1>5, <2>1, <2>2
<1>7. Len(bufs') >= Len(bufs) /\ \A b \in 1..Len(bufs) : bufs'[b] = bufs[b]
  <2>1. bufs \in Seq(Seq(Nat)) /\ <<>> \in Seq(Nat)
    BY <1>1 DEF ExecTypes
  <2>2. CASE bufs' = Append(bufs, <<>>)
    BY <2>1, <2>2
  <2> QED
    BY <1>5, <2>1, <2>2
<1>8. LogsRead'
  <2>1. \A t \in Callers : call'[t].pc \in {"bytes", "read"} =>
          call'[t].pc = call[t].pc /\ call'[t].buf = call[t].buf /\ call'[t].out = call[t].out /\ call'[t].raced = call[t].raced
    BY Zenon, <1>3
  <2>2. LogsRead
    BY Zenon DEF ExecInv
  <2> QED
    BY Zenon, <1>1, <1>7, <2>1, <2>2, LogsKeep
<1>9. \A t \in Callers : Running(t)' =>
        /\ Running(t) /\ call'[t].no = call[t].no
        /\ cont' \in call'[t].met
        /\ call'[t].pc = "wrote" <=> call[t].pc = "wrote"
  BY Zenon, <1>3 DEF Running
<1> QED
  BY Zenon, <1>4, <1>6, <1>8, <1>9, ExecKeep DEF ExecInv

LEMMA ReturnedKeep ==
  ASSUME CallsReturned, ran' = ran, \A r \in ran : Rt!Wrote(r.no)' = Rt!Wrote(r.no)
  PROVE  CallsReturned'
BY DEF CallsReturned

\* What the steps below need of the invariant.
LEMMA ExecFacts ==
  ASSUME ExecInv
  PROVE  /\ ExecTypes /\ LogsRead /\ calls \in Nat
         /\ \A t \in Callers : call[t] \in CallRec /\ call[t].no \in Nat
         /\ \A t \in Callers : Running(t) => cont \in call[t].met
         /\ \A r \in ran : r.no \in Nat
<1>1. \A t \in Callers : call[t] \in CallRec
  BY Zenon DEF ExecInv, ExecTypes
<1>2. \A t \in Callers : call[t].no \in Nat
  BY Zenon, <1>1 DEF CallRec
<1>3. \A t \in Callers : Running(t) => cont \in call[t].met
  BY Zenon, <1>2 DEF ExecInv, CallsUnderWay
<1> QED
  BY Zenon, <1>1, <1>2, <1>3 DEF ExecInv, ExecTypes

LEMMA ExecLogsBytes ==
  ASSUME Rt!CallersAssumption, ExecInv, ExecTypes', NEW t \in Callers, Rt!LogsBytes(t)
  PROVE  ExecInv'
<1> USE ExecFacts
<1> DEFINE b == bufs[call[t].buf]
<1>1. PICK out \in {b, SubSeq(b, 1, Len(b) - 1), <<Torn>>}, writing \in BOOLEAN :
        /\ call' = [call EXCEPT ![t] = [@ EXCEPT !.pc = "read", !.out = out, !.raced = writing]]
        /\ ~writing => out = bufs[call[t].buf]
  BY Zenon DEF Rt!LogsBytes
<1>2. call \in [Callers -> CallRec]
  BY Zenon DEF ExecTypes
<1>3. /\ call'[t].pc = "read" /\ call'[t].no = call[t].no /\ call'[t].buf = call[t].buf
      /\ call'[t].met = call[t].met /\ call'[t].out = out /\ call'[t].raced = writing
      /\ \A u \in Callers \ {t} : call'[u] = call[u]
  BY ZenonT(60), <1>1, <1>2 DEF CallRec
<1>4. call[t].pc = "bytes" /\ UNCHANGED <<images, cont, log, bufs, mu, calls, ran>>
  BY Zenon DEF Rt!LogsBytes
<1>5. LogsRead'
  <2>1. call[t].buf \in 1..Len(bufs) /\ bufs \in Seq(Seq(Nat))
    BY Zenon, <1>4 DEF LogsRead, ExecTypes
  <2>2. Rt!IsPrefix(bufs[call[t].buf], bufs[call[t].buf])
    BY <2>1 DEF Rt!IsPrefix
  <2> QED
    BY ZenonT(60), <1>1, <1>3, <1>4, <2>1, <2>2 DEF LogsRead
<1>6. \A n \in Nat : Rt!Wrote(n)' = Rt!Wrote(n)
  BY Zenon, <1>4 DEF Rt!Wrote
<1>7. \A u \in Callers : Running(u)' =>
        /\ Running(u) /\ call'[u].no = call[u].no
        /\ cont' \in call'[u].met
        /\ call'[u].pc = "wrote" <=> call[u].pc = "wrote"
  BY Zenon, <1>3, <1>4 DEF Running
<1> QED
  BY Zenon, <1>4, <1>5, <1>6, <1>7, ExecKeep DEF ExecInv

LEMMA ExecBegin ==
  ASSUME Rt!CallersAssumption, ExecInv, ExecTypes', NEW t \in Callers, Rt!BeginExec(t) \/ Rt!BeginLogs(t)
  PROVE  ExecInv'
<1> USE ExecFacts
<1>1. call \in [Callers -> CallRec] /\ bufs \in Seq(Seq(Nat)) /\ (log # 0 => log \in 1..Len(bufs))
  BY DEF ExecTypes
<1>2. /\ call[t].pc = "idle" /\ calls' = calls + 1 /\ UNCHANGED <<images, cont, log, bufs, mu, ran>>
      /\ call'[t].no = calls + 1 /\ call'[t].met = {cont}
      /\ call'[t].pc = "check" \/ (call'[t].pc = "bytes" /\ call'[t].buf \in 1..Len(bufs))
      /\ \A u \in Callers \ {t} : call'[u] = call[u]
  <2>1. PICK to, buf : /\ Rt!Begin(t, to, buf)
                       /\ to = "check" \/ (to = "bytes" /\ buf = log /\ log # 0)
                       /\ UNCHANGED <<images, cont, log, bufs, mu, ran>>
    BY ZenonT(60) DEF Rt!BeginExec, Rt!BeginLogs
  <2> DEFINE c == [Rt!Idle EXCEPT !.pc = to, !.no = calls + 1, !.buf = buf, !.met = {cont}]
  <2>3. call[t].pc = "idle" /\ calls' = calls + 1 /\ call' = [call EXCEPT ![t] = c]
    BY ZenonT(60), <2>1 DEF Rt!Begin
  <2>4. c.pc = to /\ c.no = calls + 1 /\ c.buf = buf /\ c.met = {cont}
    BY ZenonT(60) DEF Rt!Idle
  <2> HIDE DEF c
  <2>5. call'[t] = c /\ \A u \in Callers \ {t} : call'[u] = call[u]
    BY ZenonT(60), <1>1, <2>3
  <2> QED
    BY ZenonT(60), <1>1, <2>1, <2>3, <2>4, <2>5
<1>3. \A n \in Nat : Rt!Wrote(n)' = Rt!Wrote(n)
  BY Zenon, <1>2 DEF Rt!Wrote
<1>4. NumbersUnique'
  <2>1. \A u \in Callers \ {t} : Running(u)' => Running(u) /\ call'[u].no = call[u].no /\ call[u].no <= calls
    BY Zenon, <1>2 DEF ExecInv, NumbersUnique, Running
  <2>2. \A r \in ran' : r \in ran /\ r.no <= calls
    BY Zenon, <1>2 DEF ExecInv, NumbersUnique
  <2> QED
    BY SMTT(60), <1>2, <1>3, <2>1, <2>2 DEF ExecInv, NumbersUnique
<1>5. CallsUnderWay'
  <2> SUFFICES ASSUME NEW u \in Callers, NEW n \in Nat, Running(u)', call'[u].no = n
               PROVE  /\ cont' \in call'[u].met
                      /\ call'[u].pc # "wrote" => Rt!Wrote(n)' = {}
                      /\ call'[u].pc = "wrote" => mu' = u /\ log' # 0 /\ Rt!Wrote(n)' = {log'}
    BY Zenon DEF CallsUnderWay
  <2>1. CASE u = t
    BY <1>2, <1>3, <2>1 DEF ExecInv, NumbersUnique
  <2>2. CASE u # t
    BY Zenon, <1>2, <1>3, <2>2 DEF ExecInv, CallsUnderWay, Running
  <2> QED
    BY Zenon, <2>1, <2>2
<1>6. CallsReturned'
  <2>1. CallsReturned
    BY Zenon DEF ExecInv
  <2> QED
    BY Zenon, <1>2, <1>3, <2>1, ReturnedKeep
<1>7. LogsRead'
  <2>1. ASSUME NEW u \in Callers, u # t
        PROVE  /\ call'[u].pc \in {"bytes", "read"} => call'[u].buf \in 1..Len(bufs')
               /\ call'[u].pc = "read" /\ ~call'[u].raced => Rt!IsPrefix(call'[u].out, bufs'[call'[u].buf])
    <3>1. call'[u] = call[u] /\ bufs' = bufs
      BY Zenon, <1>2, <2>1
    <3> QED
      BY <3>1, Zenon DEF LogsRead
  <2> QED
    BY Zenon, <1>2, <2>1 DEF LogsRead
<1> QED
  BY Zenon, <1>4, <1>5, <1>6, <1>7 DEF ExecInv

\* Steps that write a line n, whose number nobody else has.
LEMMA ExecAppendLog ==
  ASSUME Rt!CallersAssumption, ExecInv, ExecTypes', Rt!AppendLog
  PROVE  ExecInv'
<1> USE ExecFacts
<1>1. /\ mu = 0 /\ log # 0 /\ calls' = calls + 1 /\ bufs' = [bufs EXCEPT ![log] = Append(@, calls + 1)]
      /\ UNCHANGED <<images, cont, log, mu, call, ran>>
  BY Zenon DEF Rt!AppendLog
<1>2. \A m \in Nat : m # calls + 1 => Rt!Wrote(m)' = Rt!Wrote(m)
  <2>1. calls + 1 \in Nat
    OBVIOUS
  <2> QED
    BY Zenon, <1>1, <2>1, WroteLine
<1>3. \A u \in Callers : Running(u)' => Running(u) /\ call[u].no <= calls /\ call[u].pc # "wrote"
  BY Zenon, <1>1 DEF ExecInv, NumbersUnique, CallsUnderWay, Running, Rt!CallersAssumption
<1>4. \A r \in ran : r.no <= calls
  BY Zenon DEF ExecInv, NumbersUnique
<1>5. NumbersUnique'
  <2>1. NumbersUnique /\ calls \in Nat
    BY ZenonT(60) DEF ExecInv
  <2>2. \A u \in Callers : Running(u)' => Running(u) /\ call'[u] = call[u] /\ call'[u].no <= calls'
    BY <1>1, <1>3, <2>1
  <2>3. \A u, v \in Callers : Running(u)' /\ Running(v)' /\ u # v => call'[u].no # call'[v].no
    BY ZenonT(60), <2>1, <2>2 DEF NumbersUnique
  <2>4. \A r \in ran' : r.no <= calls' /\ \A u \in Callers : Running(u)' => call'[u].no # r.no
    BY <1>1, <1>4, <2>1, <2>2 DEF NumbersUnique
  <2>5. \A n \in Nat : n > calls' => Rt!Wrote(n)' = {}
    BY SMTT(60), <1>1, <1>2, <2>1 DEF NumbersUnique
  <2> QED
    BY Zenon, <2>2, <2>3, <2>4, <2>5 DEF NumbersUnique
<1>6. CallsUnderWay'
  BY SMTT(60), <1>1, <1>2, <1>3 DEF ExecInv, CallsUnderWay
<1>7. CallsReturned'
  <2>1. CallsReturned /\ \A r \in ran : r.no # calls + 1
    BY <1>4 DEF ExecInv
  <2> QED
    BY Zenon, <1>1, <1>2, <2>1, ReturnedKeep
<1>8. LogsRead'
  <2>1. bufs \in Seq(Seq(Nat)) /\ log \in 1..Len(bufs)
    BY <1>1 DEF ExecTypes
  <2>2. Len(bufs') = Len(bufs) /\ \A b \in 1..Len(bufs) : bufs'[b] = IF b = log THEN Append(bufs[b], calls + 1) ELSE bufs[b]
    BY SMTT(60), <1>1, <2>1
  <2>3. Len(bufs') >= Len(bufs) /\ calls + 1 \in Nat
    BY <2>1, <2>2
  <2>4. \A b \in 1..Len(bufs) : bufs'[b] = bufs[b] \/ \E n \in Nat : bufs'[b] = Append(bufs[b], n)
    BY <2>2, <2>3, Zenon
  <2> QED
    BY Zenon, <1>1, <2>3, <2>4, LogsKeep
<1> QED
  BY Zenon, <1>5, <1>6, <1>7, <1>8 DEF ExecInv

LEMMA ExecWriteStep ==
  ASSUME Rt!CallersAssumption, ExecInv, ExecTypes', NEW t \in Callers, Rt!ExecWrite(t), log # 0
  PROVE  ExecInv'
<1> USE ExecFacts
<1> DEFINE n == call[t].no
<1>1. /\ mu = 0 /\ mu' = t /\ bufs' = [bufs EXCEPT ![log] = Append(@, n)]
      /\ call' = [call EXCEPT ![t].pc = "wrote"] /\ call[t].pc = "lock"
      /\ UNCHANGED <<images, cont, log, calls, ran>>
  BY Zenon DEF Rt!ExecWrite
<1>2. /\ n \in Nat /\ \A m \in Nat : m # n => Rt!Wrote(m)' = Rt!Wrote(m)
      /\ Rt!Wrote(n) = {} => \A m \in Nat : m = n => Rt!Wrote(m)' = {log}
  BY Zenon, <1>1, WroteLine
<1>3. Rt!Wrote(n) = {} /\ n <= calls
  BY Zenon, <1>1, <1>2 DEF ExecInv, CallsUnderWay, NumbersUnique, Running
<1>4. /\ call'[t].pc = "wrote" /\ call'[t].no = n /\ call'[t].met = call[t].met
      /\ \A u \in Callers \ {t} : call'[u] = call[u]
  <2>1. call \in [Callers -> CallRec]
    BY Zenon DEF ExecTypes
  <2> QED
    BY ZenonT(60), <1>1, <2>1 DEF CallRec
<1>5. \A u \in Callers : Running(u)' => Running(u) /\ call'[u].no = call[u].no /\ (u # t => call[u].no # n /\ call[u].pc # "wrote")
  <2>1. ASSUME NEW u \in Callers, call[u].pc = "wrote"
        PROVE  FALSE
    <3>1. mu = u
      BY ZenonT(60), <2>1 DEF ExecInv, CallsUnderWay, Running
    <3> QED
      BY ZenonT(60), <1>1, <3>1 DEF Rt!CallersAssumption
  <2>2. Running(t) /\ \A u \in Callers \ {t} : Running(u) => call[u].no # n
    BY ZenonT(60), <1>1 DEF ExecInv, NumbersUnique, Running
  <2>3. \A u \in Callers : Running(u)' => Running(u)
    BY ZenonT(60), <1>4, <2>2 DEF Running
  <2> QED
    BY ZenonT(60), <1>4, <2>1, <2>2, <2>3
<1>6. \A r \in ran : r.no # n
  BY Zenon, <1>1 DEF ExecInv, NumbersUnique, Running
<1> HIDE DEF n
<1>7. NumbersUnique'
  BY <1>1, <1>2, <1>3, <1>5 DEF ExecInv, NumbersUnique
<1>8. CallsUnderWay'
  <2> SUFFICES ASSUME NEW u \in Callers, NEW m \in Nat, Running(u)', call'[u].no = m
               PROVE  /\ cont' \in call'[u].met
                      /\ call'[u].pc # "wrote" => Rt!Wrote(m)' = {}
                      /\ call'[u].pc = "wrote" => mu' = u /\ log' # 0 /\ Rt!Wrote(m)' = {log'}
    BY Zenon DEF CallsUnderWay
  <2>1. CASE u = t
    BY Zenon, <1>1, <1>2, <1>3, <1>4, <1>5, <2>1
  <2>2. CASE u # t
    BY ZenonT(60), <1>1, <1>2, <1>4, <1>5, <2>2 DEF ExecInv, CallsUnderWay
  <2> QED
    BY Zenon, <2>1, <2>2
<1>9. CallsReturned'
  <2>1. CallsReturned
    BY Zenon DEF ExecInv
  <2> QED
    BY Zenon, <1>1, <1>2, <1>6, <2>1, ReturnedKeep
<1>10. LogsRead'
  <2>1. bufs \in Seq(Seq(Nat)) /\ log \in 1..Len(bufs)
    BY DEF ExecTypes
  <2>2. Len(bufs') = Len(bufs) /\ \A b \in 1..Len(bufs) : bufs'[b] = IF b = log THEN Append(bufs[b], n) ELSE bufs[b]
    BY SMTT(60), <1>1, <2>1
  <2>3. Len(bufs') >= Len(bufs) /\ n \in Nat
    BY <1>2, <2>1, <2>2
  <2>4. \A b \in 1..Len(bufs) : bufs'[b] = bufs[b] \/ \E m \in Nat : bufs'[b] = Append(bufs[b], m)
    BY <2>2, <2>3, Zenon
  <2>5. \A u \in Callers : call'[u].pc \in {"bytes", "read"} => call'[u] = call[u]
    BY Zenon, <1>4
  <2> QED
    BY Zenon, <2>3, <2>4, <2>5, LogsKeep
<1> QED
  BY Zenon, <1>7, <1>8, <1>9, <1>10 DEF ExecInv

\* An Exec returns, with or without having found a log to write to.
LEMMA ExecEnd ==
  ASSUME Rt!CallersAssumption, ExecInv, ExecTypes', NEW t \in Callers,
         Rt!ExecReturn(t) \/ (Rt!ExecWrite(t) /\ log = 0)
  PROVE  ExecInv'
<1> USE ExecFacts
<1> DEFINE r == [no |-> call[t].no, met |-> call[t].met]
<1>1. /\ ran' = ran \cup {r} /\ call' = [call EXCEPT ![t] = Rt!Idle]
      /\ UNCHANGED <<images, cont, log, bufs, calls>>
      /\ \/ call[t].pc = "wrote" /\ mu' = 0
         \/ call[t].pc = "lock" /\ log = 0 /\ mu' = mu
  BY Zenon DEF Rt!ExecReturn, Rt!ExecWrite
<1>2. call'[t].pc = "idle" /\ \A u \in Callers \ {t} : call'[u] = call[u]
  BY Zenon, <1>1 DEF Rt!Idle, ExecTypes
<1>3. \A n \in Nat : Rt!Wrote(n)' = Rt!Wrote(n)
  BY Zenon, <1>1 DEF Rt!Wrote
<1>4. Running(t) /\ \A u \in Callers : Running(u)' => Running(u) /\ u # t /\ call'[u].no = call[u].no
  BY Zenon, <1>1, <1>2 DEF Running
<1>5. \A n \in Nat : n = call[t].no => /\ Rt!Wrote(n) \subseteq {log} /\ cont \in call[t].met
                                       /\ log # 0 => Rt!Wrote(n) # {}
  <2>1. cont \in call[t].met
    BY Zenon, <1>4
  <2>2. CASE call[t].pc = "wrote"
    BY Zenon, <1>4, <2>1, <2>2 DEF ExecInv, CallsUnderWay
  <2>3. CASE call[t].pc = "lock" /\ log = 0
    BY Zenon, <1>4, <2>1, <2>3 DEF ExecInv, CallsUnderWay
  <2> QED
    BY Zenon, <1>1, <2>2, <2>3
<1>6. log = cont /\ log \in Nat
  BY DEF ExecTypes
<1>7. NumbersUnique'
  <2>1. r.no <= calls /\ r.no = call[t].no /\ \A u \in Callers : Running(u)' => call'[u].no # r.no
    <3>1. call[t].no <= calls /\ \A u \in Callers : Running(u) /\ u # t => call[u].no # call[t].no
      BY Zenon, <1>4 DEF ExecInv, NumbersUnique
    <3> QED
      BY Zenon, <1>4, <3>1
  <2> HIDE DEF r
  <2>2. NumbersUnique /\ calls' = calls
    BY Zenon, <1>1 DEF ExecInv
  <2>3. \A u \in Callers : Running(u)' => call'[u].no <= calls
    BY Zenon, <1>4, <2>2 DEF NumbersUnique
  <2>4. \A u, v \in Callers : Running(u)' /\ Running(v)' /\ u # v => call'[u].no # call'[v].no
    BY Zenon, <1>4, <2>2 DEF NumbersUnique
  <2>5. \A e \in ran \cup {r} : e.no <= calls /\ \A u \in Callers : Running(u)' => call'[u].no # e.no
    BY ZenonT(60), <1>4, <2>1, <2>2 DEF NumbersUnique
  <2>6. \A n \in Nat : n > calls => Rt!Wrote(n)' = {}
    BY Zenon, <1>3, <2>2 DEF NumbersUnique
  <2> QED
    BY Zenon, <1>1, <2>2, <2>3, <2>4, <2>5, <2>6 DEF NumbersUnique
<1>8. CallsUnderWay'
  <2> SUFFICES ASSUME NEW u \in Callers, NEW n \in Nat, Running(u)', call'[u].no = n
               PROVE  /\ cont' \in call'[u].met
                      /\ call'[u].pc # "wrote" => Rt!Wrote(n)' = {}
                      /\ call'[u].pc = "wrote" => mu' = u /\ log' # 0 /\ Rt!Wrote(n)' = {log'}
    BY Zenon DEF CallsUnderWay
  <2>1. call'[u] = call[u] /\ Running(u) /\ u # t
    BY Zenon, <1>2, <1>4
  <2>2. call[u].pc = "wrote" => mu = u /\ log # 0 /\ Rt!Wrote(n) = {log}
    BY Zenon, <2>1 DEF ExecInv, CallsUnderWay
  <2>3. call[u].pc = "wrote" => mu' = mu
    BY Zenon, <1>1, <1>4, <2>1, <2>2 DEF ExecInv, CallsUnderWay
  <2> QED
    BY Zenon, <1>1, <1>3, <2>1, <2>2, <2>3 DEF ExecInv, CallsUnderWay
<1>9. CallsReturned'
  <2> SUFFICES ASSUME NEW q \in ran'
               PROVE  /\ Rt!Wrote(q.no)' \subseteq q.met
                      /\ \E b \in Nat : Rt!Wrote(q.no)' \subseteq {b}
                      /\ 0 \notin q.met => Rt!Wrote(q.no)' # {}
    BY Zenon DEF CallsReturned
  <2>1. CASE q \in ran
    BY ZenonT(60), <1>3, <2>1 DEF ExecInv, CallsReturned
  <2>2. CASE q = r
    <3>1. q.no = call[t].no /\ q.met = call[t].met /\ q.no \in Nat
      BY Zenon, <2>2
    <3>2. Rt!Wrote(q.no)' \subseteq {log} /\ log \in q.met /\ (log # 0 => Rt!Wrote(q.no)' # {})
      BY ZenonT(60), <1>3, <1>5, <1>6, <3>1
    <3> QED
      BY Zenon, <1>6, <3>2
  <2> QED
    BY Zenon, <1>1, <2>1, <2>2
<1>10. LogsRead'
  <2>1. \A u \in Callers : call'[u].pc \in {"bytes", "read"} => call'[u] = call[u]
    BY Zenon, <1>2
  <2>2. Len(bufs') >= Len(bufs) /\ \A b \in 1..Len(bufs) : bufs'[b] = bufs[b]
    BY <1>1 DEF ExecTypes
  <2> QED
    BY Zenon, <2>1, <2>2, LogsKeep
<1> QED
  BY Zenon, <1>7, <1>8, <1>9, <1>10 DEF ExecInv

LEMMA ExecStep ==
  ASSUME Rt!CallersAssumption
  PROVE  ExecInv /\ [Rt!Next]_(Rt!vars) => ExecInv'
<1> SUFFICES ASSUME ExecInv, [Rt!Next]_(Rt!vars) PROVE ExecInv'
  OBVIOUS
<1>1. ExecTypes'
  BY Zenon, ExecTypesStep DEF ExecInv
<1>2. CASE \/ \E i \in Images : Rt!Pull(i) \/ Rt!Create(i)
           \/ Rt!RemoveForced
           \/ \E t \in Callers : Rt!ExecCheck(t) \/ Rt!LogsReturn(t)
           \/ UNCHANGED Rt!vars
  BY Zenon, <1>1, <1>2, ExecSilent
<1>3. CASE Rt!AppendLog
  BY Zenon, <1>1, <1>3, ExecAppendLog
<1>4. ASSUME NEW t \in Callers, Rt!BeginExec(t) \/ Rt!BeginLogs(t) PROVE ExecInv'
  BY Zenon, <1>1, <1>4, ExecBegin
<1>5. ASSUME NEW t \in Callers, Rt!ExecWrite(t) PROVE ExecInv'
  BY Zenon, <1>1, <1>5, ExecWriteStep, ExecEnd
<1>6. ASSUME NEW t \in Callers, Rt!ExecReturn(t) PROVE ExecInv'
  BY Zenon, <1>1, <1>6, ExecEnd
<1>7. ASSUME NEW t \in Callers, Rt!LogsBytes(t) PROVE ExecInv'
  BY Zenon, <1>1, <1>7, ExecLogsBytes
<1> QED
  BY Zenon, <1>2, <1>3, <1>4, <1>5, <1>6, <1>7 DEF Rt!Next

\* Exec and Logs of the agent over the runtime, for any number of callers: a
\* command whose Exec succeeded is a line of at most one log, of a container
\* that existed during the call, and of exactly one unless there was a moment
\* in the call without the container; what Logs returns is a prefix of a log
\* unless a line was written at the moment it took the bytes.
THEOREM ExecLoggedAlways == Rt!Spec => []ExecLogged
<1>1. Rt!Init => ExecInv
  BY Zenon, ExecInit, CallersAssumption
<1>2. ExecInv /\ [Rt!Next]_(Rt!vars) => ExecInv'
  BY Zenon, ExecStep, CallersAssumption
<1>3. ExecInv => ExecLogged
  BY Zenon DEF ExecInv, CallsReturned, LogsRead, ExecLogged, Rt!ExecLogged
<1> QED
  BY <1>1, <1>2, <1>3, PTL DEF Rt!Spec
-----------------------------------------------------------------------------
(* The bridges of the projects.                                             *)

\* The commands that a call still has to run, by the operation.
Todo(op) ==
  CASE op = "ensure" -> {<<"bridge">>, <<>>}
    [] op = "attach" -> {<<"add", "master", "up">>, <<"master", "up">>, <<"up">>, <<>>}
    [] op = "detach" -> {<<"del">>, <<>>}
    [] OTHER         -> {<<>>}

CallTypes(c) ==
  /\ DOMAIN c = {"op", "host", "bridge", "todo", "alone"}
  /\ c.op \in {"none", "ensure", "attach", "detach"} /\ c.todo \in Todo(c.op)
  /\ c.op \in {"attach", "detach"} => c.host \in Net!Hosts
  /\ c.op = "attach" => c.bridge # None

NetTypes ==
  /\ call = [t \in Callers |-> call[t]] /\ \A t \in Callers : CallTypes(call[t])
  /\ networks = [p \in Projects |-> networks[p]]
  /\ tried = [h \in Net!Hosts |-> tried[h]]
  /\ veths = [h \in DOMAIN veths |-> veths[h]] /\ DOMAIN veths \subseteq Net!Hosts
  /\ \A h \in DOMAIN veths : veths[h] = [master |-> veths[h].master, up |-> veths[h].up]
  /\ linkFaults \in Nat

\* Ensure and Attach hold the mutex until they return.
Exclusive == \A t \in Callers : call[t].op \in {"ensure", "attach"} => mu = t

\* Where no command failed, a project's bridge is there or about to be.
BridgesMade ==
  linkFaults = 0 /\ exec =>
    \A p \in Projects : networks[p] # None =>
      \/ networks[p] \in bridges
      \/ \E t \in Callers : call[t].op = "ensure" /\ call[t].bridge = networks[p] /\ call[t].todo = <<"bridge">>

\* A link hangs on what was tried, and an Attach under way tries its bridge.
Tried ==
  /\ \A t \in Callers : call[t].op = "attach" => call[t].bridge \in tried[call[t].host]
  /\ \A h \in DOMAIN veths : veths[h].master # None => veths[h].master \in tried[h]

\* How far an undisturbed Attach has got.
AttachDone(t) ==
  /\ DOMAIN veths \subseteq {call[t].host} /\ call[t].bridge \in bridges
  /\ \A u \in Callers : call[u].op = "detach" => call[u].host # call[t].host
  /\ call[t].todo # <<"add", "master", "up">> => call[t].host \in DOMAIN veths
  /\ call[t].todo \in {<<"up">>, <<>>} => veths[call[t].host].master = call[t].bridge
  /\ call[t].todo = <<>> => veths[call[t].host].up = TRUE

Attaching ==
  \A t \in Callers : call[t].op = "attach" => exec /\ (call[t].alone /\ linkFaults = 0 => AttachDone(t))

NetInv == NetTypes /\ Exclusive /\ BridgesMade /\ Tried /\ Attaching

LEMMA NetInit == Net!Init => NetInv
<1> SUFFICES ASSUME Net!Init PROVE NetInv
  OBVIOUS
<1>1. CallTypes(Net!Idle) /\ Net!Idle.op = "none"
  BY Zenon DEF Net!Idle, CallTypes, Todo
<1>2. call = [t \in Callers |-> Net!Idle] /\ \A t \in Callers : call[t] = Net!Idle
  BY Zenon DEF Net!Init
<1>3. NetTypes
  BY <1>1, <1>2 DEF Net!Init, NetTypes
<1>4. networks = [p \in Projects |-> None] /\ DOMAIN veths = {}
  BY DEF Net!Init
<1> QED
  BY Zenon, <1>1, <1>2, <1>3, <1>4 DEF NetInv, Exclusive, BridgesMade, Tried, Attaching

\* A call that runs no command.
LEMMA NetNothing ==
  ASSUME NetInv, UNCHANGED <<exec, mu, bridges, veths, call, linkFaults, tried>>,
         networks' = [p \in Projects |-> networks'[p]], ~exec \/ networks' = networks
  PROVE  NetInv'
<1>1. NetTypes'
  BY Zenon DEF NetInv, NetTypes
<1>2. BridgesMade'
  BY Zenon DEF NetInv, BridgesMade
<1>3. Exclusive' /\ Tried' /\ Attaching'
  BY Zenon DEF NetInv, Exclusive, Tried, Attaching, AttachDone
<1> QED
  BY Zenon, <1>1, <1>2, <1>3 DEF NetInv

\* With the mutex free no Ensure or Attach is under way.
LEMMA NetFree ==
  ASSUME Net!CallersAssumption, NetInv, mu = None
  PROVE  \A t \in Callers : call[t].op \notin {"ensure", "attach"}
BY Zenon DEF NetInv, Exclusive, Net!CallersAssumption

LEMMA NetEnsure ==
  ASSUME Net!CallersAssumption, NetInv, NEW t \in Callers, NEW p \in Projects, NEW n \in Networks, Net!Ensure(t, p, n)
  PROVE  NetInv'
<1>0. /\ networks = [q \in Projects |-> networks[q]] /\ UNCHANGED exec /\ mu = None
      /\ call = [u \in Callers |-> call[u]]
  BY Zenon DEF NetInv, NetTypes, Net!Ensure
<1>1. CASE ShortID(n) = Panics
  BY Zenon, <1>0, <1>1, NetNothing DEF Net!Ensure, Net!Nothing
<1>2. CASE ShortID(n) # Panics /\ ~exec
  BY Zenon, <1>0, <1>2, NetNothing DEF Net!Ensure, Net!Nothing
<1>3. CASE ShortID(n) # Panics /\ exec
  <2> DEFINE new == [Net!Idle EXCEPT !.op = "ensure", !.bridge = ShortID(n), !.todo = <<"bridge">>]
  <2>1. /\ networks' = [networks EXCEPT ![p] = ShortID(n)] /\ mu' = t
        /\ call' = [call EXCEPT ![t] = new] /\ UNCHANGED <<exec, bridges, veths, linkFaults, tried>>
    BY Zenon, <1>3 DEF Net!Ensure
  <2>2. CallTypes(new) /\ new.op = "ensure" /\ new.bridge = ShortID(n) /\ new.todo = <<"bridge">>
    BY Zenon DEF CallTypes, Todo, Net!Idle
  <2> HIDE DEF new
  <2>3. call' = [u \in Callers |-> call'[u]] /\ call'[t] = new /\ \A u \in Callers \ {t} : call'[u] = call[u]
    BY Zenon, <1>0, <2>1
  <2>4. \A u \in Callers : call[u].op \notin {"ensure", "attach"}
    BY Zenon, <1>0, NetFree
  <2>5. NetTypes'
    BY ZenonT(60), <1>0, <2>1, <2>2, <2>3 DEF NetInv, NetTypes
  <2>6. Exclusive' /\ Tried' /\ Attaching'
    BY Zenon, <2>1, <2>2, <2>3, <2>4 DEF NetInv, Exclusive, Tried, Attaching
  <2>7. BridgesMade'
    <3> SUFFICES ASSUME linkFaults' = 0, exec', NEW q \in Projects, networks'[q] # None
                 PROVE  \/ networks'[q] \in bridges'
                        \/ \E u \in Callers : call'[u].op = "ensure" /\ call'[u].bridge = networks'[q] /\ call'[u].todo = <<"bridge">>
      BY Zenon DEF BridgesMade
    <3>1. networks'[p] = ShortID(n) /\ \A r \in Projects \ {p} : networks'[r] = networks[r]
      BY Zenon, <1>0, <2>1
    <3>2. linkFaults = 0 => \A r \in Projects : networks[r] # None => networks[r] \in bridges
      BY Zenon, <1>3, <2>4 DEF NetInv, BridgesMade
    <3>3. call'[t].op = "ensure" /\ call'[t].bridge = networks'[p] /\ call'[t].todo = <<"bridge">>
      BY Zenon, <2>2, <2>3, <3>1
    <3>4. CASE q = p
      <4>1. call'[t].bridge = networks'[q]
        BY ZenonT(60), <3>3, <3>4
      <4> QED
        BY <3>3, <4>1, Zenon
    <3>5. CASE q # p
      BY <2>1, <3>1, <3>2, <3>5
    <3> QED
      BY Zenon, <3>4, <3>5
  <2> QED
    BY Zenon, <2>5, <2>6, <2>7 DEF NetInv
<1> QED
  BY Zenon, <1>1, <1>2, <1>3

LEMMA NetAttach ==
  ASSUME Net!CallersAssumption, NetInv, NEW t \in Callers, NEW p \in Projects, NEW c \in Containers, Net!Attach(t, p, c)
  PROVE  NetInv'
<1>0. /\ networks' = networks /\ networks = [q \in Projects |-> networks[q]] /\ UNCHANGED exec /\ mu = None
      /\ call = [u \in Callers |-> call[u]] /\ tried = [h \in Net!Hosts |-> tried[h]]
  BY Zenon DEF NetInv, NetTypes, Net!Attach
<1>1. CASE networks[p] = None \/ ~exec \/ ShortID(c) = Panics
  BY Zenon, <1>0, <1>1, NetNothing DEF Net!Attach, Net!Nothing
<1>2. CASE ~(networks[p] = None \/ ~exec \/ ShortID(c) = Panics)
  <2> DEFINE host == ShortID(c)
             new == [op |-> "attach", host |-> host, bridge |-> networks[p], todo |-> <<"add", "master", "up">>,
                     alone |-> Net!Alone(host)]
  <2>0. host \in Net!Hosts
    BY Zenon, <1>2 DEF Net!Hosts
  <2>1. /\ mu' = t /\ call' = [call EXCEPT ![t] = new]
        /\ tried' = [tried EXCEPT ![host] = @ \cup {networks[p]}] /\ UNCHANGED <<bridges, veths, linkFaults>>
    BY Zenon, <1>2 DEF Net!Attach
  <2>2. /\ CallTypes(new) /\ new.op = "attach" /\ new.host = host /\ new.bridge = networks[p]
        /\ new.todo = <<"add", "master", "up">> /\ (new.alone <=> Net!Alone(host))
    BY Zenon, <1>2, <2>0 DEF CallTypes, Todo
  <2> HIDE DEF new, host
  <2>3. call' = [u \in Callers |-> call'[u]] /\ call'[t] = new /\ \A u \in Callers \ {t} : call'[u] = call[u]
    BY Zenon, <1>0, <2>1
  <2>4. /\ tried' = [h \in Net!Hosts |-> tried'[h]] /\ networks[p] \in tried'[host]
        /\ \A h \in Net!Hosts : tried[h] \subseteq tried'[h]
    BY Zenon, <1>0, <2>0, <2>1
  <2>5. \A u \in Callers : call[u].op \notin {"ensure", "attach"}
    BY ZenonT(60), <1>0, NetFree
  <2>6. NetTypes'
    BY <1>0, <2>1, <2>2, <2>3, <2>4 DEF NetInv, NetTypes
  <2>7. Exclusive' /\ BridgesMade'
    BY Zenon, <1>0, <2>1, <2>2, <2>3, <2>5 DEF NetInv, Exclusive, BridgesMade
  <2>8. Tried'
    BY Zenon, <2>0, <2>1, <2>2, <2>3, <2>4, <2>5 DEF NetInv, NetTypes, Tried
  <2>9. Attaching'
    <3>1. ASSUME new.alone, linkFaults = 0
          PROVE  /\ DOMAIN veths \subseteq {host} /\ networks[p] \in bridges
                 /\ \A u \in Callers : call'[u].op = "detach" => call'[u].host # host
      <4>1. networks[p] \in bridges
        BY Zenon, <1>2, <2>5, <3>1 DEF NetInv, BridgesMade
      <4> QED
        BY ZenonT(60), <2>2, <2>3, <3>1, <4>1 DEF Net!Alone
    <3>2. new.alone /\ linkFaults' = 0 => AttachDone(t)'
      BY SMTT(60), <2>1, <2>2, <2>3, <3>1 DEF AttachDone
    <3> QED
      BY Zenon, <1>0, <1>2, <2>1, <2>2, <2>3, <2>5, <3>2 DEF Attaching
  <2> QED
    BY Zenon, <2>6, <2>7, <2>8, <2>9 DEF NetInv
<1> QED
  BY Zenon, <1>1, <1>2

LEMMA NetDetach ==
  ASSUME Net!CallersAssumption, NetInv, NEW t \in Callers, NEW c \in Containers, Net!Detach(t, c)
  PROVE  NetInv'
<1>0. /\ networks' = networks /\ networks = [q \in Projects |-> networks[q]] /\ UNCHANGED exec
      /\ call[t] = Net!Idle /\ \A u \in Callers : CallTypes(call[u])
  BY Zenon DEF NetInv, NetTypes, Net!Detach, Net!Begin
<1>1. CASE ~exec \/ ShortID(c) = Panics
  BY Zenon, <1>0, <1>1, NetNothing DEF Net!Detach, Net!Nothing
<1>2. CASE ~(~exec \/ ShortID(c) = Panics)
  <2> DEFINE host == ShortID(c)
             new == [Net!Idle EXCEPT !.op = "detach", !.host = host, !.todo = <<"del">>]
  <2>0. host \in Net!Hosts
    BY Zenon, <1>2 DEF Net!Hosts
  <2>1. /\ call' = [u \in Callers |-> IF u = t THEN new
                                    ELSE IF call[u].host = host THEN [call[u] EXCEPT !.alone = FALSE] ELSE call[u]]
        /\ UNCHANGED <<mu, bridges, veths, linkFaults, tried>>
    BY Zenon, <1>2 DEF Net!Detach
  <2>2. CallTypes(new) /\ new.op = "detach" /\ new.host = host
    BY Zenon, <2>0 DEF CallTypes, Todo, Net!Idle
  <2> HIDE DEF new, host
  <2>3. /\ call' = [u \in Callers |-> call'[u]] /\ call'[t] = new
        /\ \A u \in Callers \ {t} : call'[u] = IF call[u].host = host THEN [call[u] EXCEPT !.alone = FALSE] ELSE call[u]
    BY Zenon, <2>1
  <2>4. ASSUME NEW u \in Callers, u # t
        PROVE  /\ CallTypes(call'[u]) /\ call'[u].op = call[u].op /\ call'[u].host = call[u].host
               /\ call'[u].bridge = call[u].bridge /\ call'[u].todo = call[u].todo
               /\ call'[u].alone => call[u].alone /\ call[u].host # host
    <3>1. CASE call[u].host = host
      <4>1. call'[u] = [call[u] EXCEPT !.alone = FALSE]
        BY Zenon, <2>3, <2>4, <3>1
      <4> QED
        BY ZenonT(60), <1>0, <4>1 DEF CallTypes
    <3>2. CASE call[u].host # host
      BY Zenon, <1>0, <2>3, <2>4, <3>2
    <3> QED
      BY Zenon, <3>1, <3>2
  <2>5. NetTypes'
    BY <1>0, <2>1, <2>2, <2>3, <2>4 DEF NetInv, NetTypes
  <2>6. Exclusive'
    BY Zenon, <2>1, <2>2, <2>3, <2>4 DEF NetInv, Exclusive
  <2>7. BridgesMade'
    <3>1. call[t].op # "ensure"
      BY <1>0 DEF Net!Idle
    <3>2. \A u \in Callers : call[u].op = "ensure" => call'[u].op = "ensure" /\ call'[u].bridge = call[u].bridge /\ call'[u].todo = call[u].todo
      BY Zenon, <2>4, <3>1
    <3>3. UNCHANGED <<networks, bridges, exec, linkFaults>>
      BY Zenon, <1>0, <2>1
    <3> SUFFICES ASSUME linkFaults = 0, exec, NEW q \in Projects, networks[q] # None, networks[q] \notin bridges
                 PROVE  \E u \in Callers : call'[u].op = "ensure" /\ call'[u].bridge = networks[q] /\ call'[u].todo = <<"bridge">>
      BY Zenon, <3>3 DEF BridgesMade
    <3>4. PICK u \in Callers : call[u].op = "ensure" /\ call[u].bridge = networks[q] /\ call[u].todo = <<"bridge">>
      BY Zenon DEF NetInv, BridgesMade
    <3> QED
      BY Zenon, <3>2, <3>4
  <2>8. Tried'
    BY SMTT(60), <2>1, <2>2, <2>3, <2>4 DEF NetInv, Tried
  <2>9. Attaching'
    <3> SUFFICES ASSUME NEW u \in Callers, call'[u].op = "attach"
                 PROVE  exec' /\ (call'[u].alone /\ linkFaults' = 0 => AttachDone(u)')
      BY Zenon DEF Attaching
    <3>1. u # t /\ call[u].op = "attach" /\ call'[u].host = call[u].host /\ call'[u].bridge = call[u].bridge
          /\ call'[u].todo = call[u].todo /\ (call'[u].alone => call[u].alone /\ call[u].host # host)
      BY Zenon, <2>2, <2>3, <2>4
    <3>2. \A v \in Callers : call'[v].op = "detach" => call'[v].host = host \/ (call[v].op = "detach" /\ call'[v].host = call[v].host)
      BY Zenon, <2>2, <2>3, <2>4
    <3> QED
      BY <1>0, <2>1, <3>1, <3>2 DEF NetInv, Attaching, AttachDone
  <2> QED
    BY Zenon, <2>5, <2>6, <2>7, <2>8, <2>9 DEF NetInv
<1> QED
  BY Zenon, <1>1, <1>2

LEMMA NetReturn ==
  ASSUME Net!CallersAssumption, NetInv, NEW t \in Callers, Net!Return(t)
  PROVE  NetInv'
<1>0. call = [u \in Callers |-> call[u]] /\ \A u \in Callers : CallTypes(call[u])
  BY Zenon DEF NetInv, NetTypes
<1>1. /\ call[t].todo = <<>> /\ call' = [call EXCEPT ![t] = Net!Idle] /\ mu' = (IF mu = t THEN None ELSE mu)
      /\ UNCHANGED <<exec, networks, bridges, veths, calls, linkFaults, tried>>
  BY Zenon DEF Net!Return
<1>2. CallTypes(Net!Idle) /\ Net!Idle.op = "none"
  BY Zenon DEF Net!Idle, CallTypes, Todo
<1>3. call' = [u \in Callers |-> call'[u]] /\ call'[t] = Net!Idle /\ \A u \in Callers \ {t} : call'[u] = call[u]
  BY Zenon, <1>0, <1>1
<1>4. NetTypes'
  BY ZenonT(60), <1>1, <1>2, <1>3 DEF NetInv, NetTypes
<1>5. Exclusive' /\ Tried'
  BY Zenon, <1>1, <1>2, <1>3 DEF NetInv, Exclusive, Tried
<1>6. BridgesMade'
  <2> SUFFICES ASSUME linkFaults' = 0, exec', NEW q \in Projects, networks'[q] # None
               PROVE  \/ networks'[q] \in bridges'
                      \/ \E u \in Callers : call'[u].op = "ensure" /\ call'[u].bridge = networks'[q] /\ call'[u].todo = <<"bridge">>
    BY Zenon DEF BridgesMade
  <2>1. <<"bridge">> # <<>>
    OBVIOUS
  <2>2. \A u \in Callers : call[u].todo = <<"bridge">> => u # t /\ call'[u] = call[u]
    BY Zenon, <1>1, <1>3, <2>1
  <2>3. CASE networks[q] \in bridges
    BY Zenon, <1>1, <2>3
  <2>4. CASE \E u \in Callers : call[u].op = "ensure" /\ call[u].bridge = networks[q] /\ call[u].todo = <<"bridge">>
    BY ZenonT(60), <1>1, <2>2, <2>4
  <2> QED
    BY Zenon, <1>1, <2>3, <2>4 DEF NetInv, BridgesMade
<1>7. Attaching'
  BY <1>1, <1>2, <1>3 DEF NetInv, Attaching, AttachDone
<1> QED
  BY Zenon, <1>4, <1>5, <1>6, <1>7 DEF NetInv

\* The commands: one that fails leaves the kernel alone.
LEMMA NetCommand ==
  ASSUME Net!CallersAssumption, NetInv, NEW t \in Callers, Net!Command(t)
  PROVE  NetInv'
<1> DEFINE c == call[t]
<1>0. /\ call = [u \in Callers |-> call[u]] /\ CallTypes(c) /\ tried = [h \in Net!Hosts |-> tried[h]] /\ linkFaults \in Nat
      /\ veths = [h \in DOMAIN veths |-> veths[h]] /\ DOMAIN veths \subseteq Net!Hosts
      /\ \A h \in DOMAIN veths : veths[h] = [master |-> veths[h].master, up |-> veths[h].up]
  BY Zenon DEF NetInv, NetTypes
<1>1. /\ call' = [call EXCEPT ![t] = [c EXCEPT !.todo = Tail(c.todo)]] /\ c.todo # <<>>
      /\ UNCHANGED <<exec, mu, networks, calls>>
  BY Zenon DEF Net!Command
<1>2. \/ c.op = "ensure" /\ c.todo = <<"bridge">> /\ Head(c.todo) = "bridge" /\ Tail(c.todo) = <<>>
      \/ c.op = "attach" /\ c.todo = <<"add", "master", "up">> /\ Head(c.todo) = "add" /\ Tail(c.todo) = <<"master", "up">>
      \/ c.op = "attach" /\ c.todo = <<"master", "up">> /\ Head(c.todo) = "master" /\ Tail(c.todo) = <<"up">>
      \/ c.op = "attach" /\ c.todo = <<"up">> /\ Head(c.todo) = "up" /\ Tail(c.todo) = <<>>
      \/ c.op = "detach" /\ c.todo = <<"del">> /\ Head(c.todo) = "del" /\ Tail(c.todo) = <<>>
  <2>1. \/ c.op = "ensure" /\ c.todo = <<"bridge">>
        \/ c.op = "attach" /\ c.todo \in {<<"add", "master", "up">>, <<"master", "up">>, <<"up">>}
        \/ c.op = "detach" /\ c.todo = <<"del">>
    BY Zenon, <1>0, <1>1 DEF CallTypes, Todo
  <2>2. /\ Head(<<"bridge">>) = "bridge" /\ Tail(<<"bridge">>) = <<>> /\ Head(<<"del">>) = "del" /\ Tail(<<"del">>) = <<>>
        /\ Head(<<"up">>) = "up" /\ Tail(<<"up">>) = <<>>
    OBVIOUS
  <2>3. /\ Head(<<"add", "master", "up">>) = "add" /\ Tail(<<"add", "master", "up">>) = <<"master", "up">>
        /\ Head(<<"master", "up">>) = "master" /\ Tail(<<"master", "up">>) = <<"up">>
    OBVIOUS
  <2> QED
    BY Zenon, <2>1, <2>2, <2>3
<1>3. /\ call' = [u \in Callers |-> call'[u]] /\ \A u \in Callers \ {t} : call'[u] = call[u]
      /\ call'[t].op = c.op /\ call'[t].host = c.host /\ call'[t].bridge = c.bridge /\ call'[t].alone = c.alone
      /\ call'[t].todo = Tail(c.todo) /\ DOMAIN call'[t] = DOMAIN c
  BY Zenon, <1>0, <1>1 DEF CallTypes
<1>4. CallTypes(call'[t])
  <2>1. Tail(c.todo) \in Todo(c.op)
    BY Zenon, <1>2 DEF Todo
  <2> QED
    BY ZenonT(60), <1>0, <1>3, <2>1 DEF CallTypes
<1>5. \A u \in Callers : /\ CallTypes(call'[u]) /\ call'[u].op = call[u].op /\ call'[u].host = call[u].host
                         /\ call'[u].bridge = call[u].bridge /\ call'[u].alone = call[u].alone
  BY Zenon, <1>3, <1>4 DEF NetInv, NetTypes
<1>6. Exclusive'
  BY Zenon, <1>1, <1>5 DEF NetInv, Exclusive
<1>7. \A u \in Callers : c.op \in {"ensure", "attach"} /\ call[u].op \in {"ensure", "attach"} => u = t
  BY Zenon DEF NetInv, Exclusive
<1> HIDE DEF c
<1>8. CASE linkFaults' = linkFaults + 1 /\ UNCHANGED <<bridges, veths, tried>>
  <2>1. linkFaults' \in Nat /\ linkFaults' # 0
    BY <1>0, <1>8
  <2>2. NetTypes'
    <3>1. veths' = veths /\ tried' = tried /\ networks' = networks
      BY Zenon, <1>1, <1>8
    <3> QED
      BY Zenon, <1>3, <1>5, <2>1, <3>1 DEF NetInv, NetTypes
  <2>3. BridgesMade' /\ Attaching'
    BY <1>1, <1>5, <2>1 DEF NetInv, BridgesMade, Attaching
  <2>4. Tried'
    BY ZenonT(60), <1>5, <1>8 DEF NetInv, Tried
  <2> QED
    BY Zenon, <1>6, <2>2, <2>3, <2>4 DEF NetInv
<1>9. CASE c.op = "ensure" /\ Net!Does("bridge", c.host, c.bridge) /\ UNCHANGED linkFaults
  <2>1. bridges' = bridges \cup {c.bridge} /\ UNCHANGED <<veths, tried, linkFaults>>
    BY Zenon, <1>9 DEF Net!Does
  <2>2. NetTypes'
    <3>1. veths' = veths /\ tried' = tried /\ networks' = networks /\ linkFaults' = linkFaults
      BY Zenon, <1>1, <2>1
    <3> QED
      BY Zenon, <1>3, <1>5, <3>1 DEF NetInv, NetTypes
  <2>3. BridgesMade'
    <3> SUFFICES ASSUME linkFaults' = 0, exec', NEW q \in Projects, networks'[q] # None
                 PROVE  networks'[q] \in bridges'
      BY Zenon DEF BridgesMade
    <3>1. CASE \E u \in Callers : call[u].op = "ensure" /\ call[u].bridge = networks[q]
      BY Zenon, <1>1, <1>7, <1>9, <2>1, <3>1 DEF c
    <3> QED
      BY Zenon, <1>1, <2>1, <3>1 DEF NetInv, BridgesMade
  <2>4. Tried'
    BY Zenon, <1>5, <2>1 DEF NetInv, Tried
  <2>5. Attaching'
    <3>1. \A u \in Callers : call'[u].op # "attach"
      BY ZenonT(60), <1>5, <1>7, <1>9 DEF c
    <3> QED
      BY Zenon, <3>1 DEF Attaching
  <2> QED
    BY Zenon, <1>6, <2>2, <2>3, <2>4, <2>5 DEF NetInv
<1>10. ASSUME c.op = "attach", UNCHANGED <<bridges, tried, linkFaults>>, c.host \in Net!Hosts,
              DOMAIN veths' \subseteq Net!Hosts, veths' = [h \in DOMAIN veths' |-> veths'[h]],
              \A h \in DOMAIN veths' : veths'[h] = [master |-> veths'[h].master, up |-> veths'[h].up],
              \A h \in DOMAIN veths' : \/ veths'[h].master \in {None} \cup (IF h = c.host THEN {c.bridge} ELSE {})
                                       \/ h \in DOMAIN veths /\ veths'[h].master = veths[h].master,
              c.alone /\ linkFaults = 0 /\ AttachDone(t) => AttachDone(t)'
       PROVE  NetInv'
  <2>1. NetTypes'
    BY Zenon, <1>1, <1>3, <1>5, <1>10 DEF NetInv, NetTypes
  <2>2. BridgesMade'
    <3>1. \A u \in Callers : call[u].op # "ensure"
      BY Zenon, <1>7, <1>10 DEF c
    <3> QED
      BY Zenon, <1>1, <1>10, <3>1 DEF NetInv, BridgesMade
  <2>3. Tried'
    <3>1. c.bridge \in tried[c.host]
      BY Zenon, <1>10 DEF NetInv, Tried, c
    <3> QED
      BY ZenonT(60), <1>5, <1>10, <3>1 DEF NetInv, Tried
  <2>4. Attaching'
    <3>1. \A u \in Callers : call'[u].op = "attach" => u = t
      BY Zenon, <1>5, <1>7, <1>10 DEF c
    <3>2. exec /\ (c.alone /\ linkFaults = 0 => AttachDone(t)')
      BY Zenon, <1>10 DEF NetInv, Attaching, c
    <3> QED
      BY Zenon, <1>1, <1>3, <1>10, <3>1, <3>2 DEF Attaching
  <2> QED
    BY ZenonT(60), <1>6, <2>1, <2>2, <2>3, <2>4 DEF NetInv
<1>11. c.op = "attach" => c.host \in Net!Hosts
  BY Zenon, <1>0 DEF CallTypes
<1>12. /\ <<"master", "up">> # <<"add", "master", "up">> /\ <<"up">> # <<"add", "master", "up">> /\ <<"up">> # <<>>
       /\ <<>> # <<"add", "master", "up">> /\ <<"master", "up">> \notin {<<"up">>, <<>>}
       /\ <<"add", "master", "up">> \notin {<<"up">>, <<>>}
  OBVIOUS
<1>13. \A u \in Callers : call'[u].op = "detach" => call[u].op = "detach" /\ call'[u].host = call[u].host
  BY Zenon, <1>5
<1>14. CASE /\ c.op = "attach" /\ c.todo = <<"add", "master", "up">> /\ Tail(c.todo) = <<"master", "up">>
            /\ Net!Does("add", c.host, c.bridge) /\ UNCHANGED linkFaults
  <2>1. /\ veths' = IF DOMAIN veths = {} THEN [h \in {c.host} |-> [master |-> None, up |-> FALSE]] ELSE veths
        /\ UNCHANGED <<bridges, tried, linkFaults>>
    BY Zenon, <1>14 DEF Net!Does
  <2>2. CASE DOMAIN veths = {}
    <3>1. /\ DOMAIN veths' = {c.host} /\ veths' = [h \in {c.host} |-> veths'[h]]
          /\ veths'[c.host] = [master |-> None, up |-> FALSE] /\ veths'[c.host].master = None
      BY Zenon, <2>1, <2>2
    <3>2. AttachDone(t) => AttachDone(t)'
      BY ZenonT(60), <1>3, <1>12, <1>13, <1>14, <2>1, <3>1 DEF AttachDone, c
    <3> QED
      BY Zenon, <1>10, <1>11, <1>14, <2>1, <3>1, <3>2
  <2>3. CASE DOMAIN veths # {}
    <3>1. veths' = veths
      BY Zenon, <2>1, <2>3
    <3>2. AttachDone(t) => AttachDone(t)'
      BY <1>3, <1>12, <1>13, <1>14, <2>1, <2>3, <3>1 DEF AttachDone, c
    <3> QED
      BY Zenon, <1>0, <1>10, <1>11, <1>14, <2>1, <3>1, <3>2
  <2> QED
    BY Zenon, <2>2, <2>3
<1>15. CASE /\ c.op = "attach" /\ c.todo = <<"master", "up">> /\ Tail(c.todo) = <<"up">>
            /\ Net!Does("master", c.host, c.bridge) /\ UNCHANGED linkFaults
  <2>1. /\ veths' = IF c.host \in DOMAIN veths /\ c.bridge \in bridges
                    THEN [veths EXCEPT ![c.host].master = c.bridge] ELSE veths
        /\ UNCHANGED <<bridges, tried, linkFaults>>
    BY ZenonT(60), <1>15 DEF Net!Does
  <2>2. CASE c.host \in DOMAIN veths /\ c.bridge \in bridges
    <3>1. /\ DOMAIN veths' = DOMAIN veths /\ veths' = [h \in DOMAIN veths' |-> veths'[h]]
          /\ veths'[c.host] = [veths[c.host] EXCEPT !.master = c.bridge]
          /\ \A h \in DOMAIN veths \ {c.host} : veths'[h] = veths[h]
      BY Zenon, <1>0, <2>1, <2>2
    <3>2. veths'[c.host].master = c.bridge /\ veths'[c.host] = [master |-> veths'[c.host].master, up |-> veths'[c.host].up]
      BY ZenonT(60), <1>0, <2>2, <3>1
    <3>3. AttachDone(t) => AttachDone(t)'
      BY SMTT(60), <1>3, <1>12, <1>13, <1>15, <2>1, <3>1, <3>2 DEF AttachDone, c
    <3> QED
      BY <1>0, <1>10, <1>11, <1>15, <2>1, <3>1, <3>2, <3>3
  <2>3. CASE ~(c.host \in DOMAIN veths /\ c.bridge \in bridges)
    <3>1. veths' = veths
      BY Zenon, <2>1, <2>3
    <3>2. AttachDone(t) => AttachDone(t)'
      BY Zenon, <1>12, <1>15, <2>3 DEF AttachDone, c
    <3> QED
      BY Zenon, <1>0, <1>10, <1>11, <1>15, <2>1, <3>1, <3>2
  <2> QED
    BY Zenon, <2>2, <2>3
<1>16. CASE /\ c.op = "attach" /\ c.todo = <<"up">> /\ Tail(c.todo) = <<>>
            /\ Net!Does("up", c.host, c.bridge) /\ UNCHANGED linkFaults
  <2>1. /\ veths' = IF c.host \in DOMAIN veths THEN [veths EXCEPT ![c.host].up = TRUE] ELSE veths
        /\ UNCHANGED <<bridges, tried, linkFaults>>
    BY Zenon, <1>16 DEF Net!Does
  <2>2. CASE c.host \in DOMAIN veths
    <3>1. /\ DOMAIN veths' = DOMAIN veths /\ veths' = [h \in DOMAIN veths' |-> veths'[h]]
          /\ veths'[c.host] = [veths[c.host] EXCEPT !.up = TRUE]
          /\ \A h \in DOMAIN veths \ {c.host} : veths'[h] = veths[h]
      BY Zenon, <1>0, <2>1, <2>2
    <3>2. /\ veths'[c.host].master = veths[c.host].master /\ veths'[c.host].up = TRUE
          /\ veths'[c.host] = [master |-> veths'[c.host].master, up |-> veths'[c.host].up]
      BY ZenonT(60), <1>0, <2>2, <3>1
    <3>3. AttachDone(t) => AttachDone(t)'
      BY SMTT(60), <1>3, <1>12, <1>13, <1>16, <2>1, <3>1, <3>2 DEF AttachDone, c
    <3> QED
      BY ZenonT(60), <1>0, <1>10, <1>11, <1>16, <2>1, <3>1, <3>2, <3>3
  <2>3. CASE c.host \notin DOMAIN veths
    <3>1. veths' = veths
      BY Zenon, <2>1, <2>3
    <3>2. AttachDone(t) => AttachDone(t)'
      BY ZenonT(60), <1>12, <1>16, <2>3 DEF AttachDone, c
    <3> QED
      BY Zenon, <1>0, <1>10, <1>11, <1>16, <2>1, <3>1, <3>2
  <2> QED
    BY Zenon, <2>2, <2>3
<1>17. CASE c.op = "detach" /\ c.todo = <<"del">> /\ Net!Does("del", c.host, c.bridge) /\ UNCHANGED linkFaults
  <2> DEFINE Still == {call[u].bridge : u \in {v \in Callers : call[v].op = "attach" /\ call[v].host = c.host}}
  <2>1. /\ veths' = [h \in DOMAIN veths \ {c.host} |-> veths[h]]
        /\ tried' = [tried EXCEPT ![c.host] = Still] /\ UNCHANGED <<bridges, linkFaults>>
    BY Zenon, <1>17 DEF Net!Does
  <2>2. \A u \in Callers : call[u].op = "attach" /\ call[u].host = c.host => call[u].bridge \in Still
    OBVIOUS
  <2> HIDE DEF Still
  <2>3. c.host \in Net!Hosts /\ \A u \in Callers : call[u].op = "attach" => call[u].host \in Net!Hosts
    BY Zenon, <1>0, <1>17 DEF NetInv, NetTypes, CallTypes
  <2>4. /\ tried' = [h \in Net!Hosts |-> tried'[h]] /\ tried'[c.host] = Still
        /\ \A h \in Net!Hosts \ {c.host} : tried'[h] = tried[h]
    BY Zenon, <1>0, <2>1, <2>3
  <2>5. NetTypes'
    <3>1. /\ veths' = [h \in DOMAIN veths' |-> veths'[h]] /\ DOMAIN veths' \subseteq DOMAIN veths
          /\ \A h \in DOMAIN veths' : veths'[h] = veths[h]
      BY Zenon, <2>1
    <3>2. \A h \in DOMAIN veths' : veths'[h] = [master |-> veths'[h].master, up |-> veths'[h].up]
      BY Zenon, <1>0, <3>1
    <3>3. networks' = [p \in Projects |-> networks'[p]] /\ linkFaults' \in Nat
      BY Zenon, <1>0, <1>1, <2>1 DEF NetInv, NetTypes
    <3> QED
      BY ZenonT(60), <1>0, <1>3, <1>5, <2>4, <3>1, <3>2, <3>3 DEF NetTypes
  <2>6. BridgesMade'
    <3> SUFFICES ASSUME linkFaults' = 0, exec', NEW q \in Projects, networks'[q] # None
                 PROVE  \/ networks'[q] \in bridges'
                        \/ \E u \in Callers : call'[u].op = "ensure" /\ call'[u].bridge = networks'[q] /\ call'[u].todo = <<"bridge">>
      BY ZenonT(60) DEF BridgesMade
    <3>1. \A u \in Callers : call[u].op = "ensure" => call'[u] = call[u]
      BY Zenon, <1>3, <1>17 DEF c
    <3> QED
      BY ZenonT(60), <1>1, <2>1, <3>1 DEF NetInv, BridgesMade
  <2>7. Tried'
    <3>1. \A u \in Callers : call'[u].op = "attach" => call'[u].bridge \in tried'[call'[u].host]
      BY <1>5, <2>2, <2>3, <2>4 DEF NetInv, Tried
    <3>2. \A h \in DOMAIN veths' : h \in DOMAIN veths /\ h # c.host /\ veths'[h] = veths[h] /\ tried'[h] = tried[h]
      BY Zenon, <1>0, <2>1, <2>4
    <3> QED
      BY Zenon, <3>1, <3>2 DEF NetInv, Tried
  <2>8. Attaching'
    <3> SUFFICES ASSUME NEW u \in Callers, call'[u].op = "attach"
                 PROVE  exec' /\ (call'[u].alone /\ linkFaults' = 0 => AttachDone(u)')
      BY Zenon DEF Attaching
    <3>1. call'[u] = call[u]
      BY Zenon, <1>3, <1>17 DEF c
    <3>2. exec' /\ (call[u].alone /\ linkFaults = 0 => AttachDone(u))
      BY Zenon, <1>1, <3>1 DEF NetInv, Attaching
    <3>3. AttachDone(u) => call[u].host # c.host
      BY ZenonT(60), <1>17 DEF AttachDone, c
    <3>4. ASSUME AttachDone(u) PROVE AttachDone(u)'
      <4>1. DOMAIN veths' = DOMAIN veths \ {c.host} /\ \A h \in DOMAIN veths' : veths'[h] = veths[h]
        BY Zenon, <2>1
      <4>2. call[u].host \in DOMAIN veths => call[u].host \in DOMAIN veths' /\ veths'[call[u].host] = veths[call[u].host]
        BY Zenon, <3>3, <3>4, <4>1
      <4> QED
        BY <1>12, <1>13, <2>1, <3>1, <3>4, <4>1, <4>2 DEF AttachDone
    <3> QED
      BY Zenon, <2>1, <3>1, <3>2, <3>4
  <2> QED
    BY ZenonT(60), <1>6, <2>5, <2>6, <2>7, <2>8 DEF NetInv
<1>18. \/ Net!Does(Head(c.todo), c.host, c.bridge) /\ UNCHANGED linkFaults
       \/ linkFaults' = linkFaults + 1 /\ UNCHANGED <<bridges, veths, tried>>
  BY Zenon DEF Net!Command, c
<1> QED
  BY Zenon, <1>2, <1>8, <1>9, <1>14, <1>15, <1>16, <1>17, <1>18

\* Ensure, Attach and Detach, for any containers, projects, networks and
\* callers, commands that fail included: a link hangs only on a bridge that an
\* Attach of its short ID asked for, and an undisturbed Attach leaves its link
\* up and on the bridge of its project.
THEOREM NetLinksFollowCalls == Net!Spec => []LinksFollowCalls
<1>1. NetInv /\ [Net!Next]_(Net!vars) => NetInv'
  <2> SUFFICES ASSUME NetInv, [Net!Next]_(Net!vars) PROVE NetInv'
    OBVIOUS
  <2>1. CASE UNCHANGED Net!vars
    <3>1. UNCHANGED <<exec, mu, networks, bridges, veths, call, linkFaults, tried>>
      BY Zenon, <2>1 DEF Net!vars
    <3> QED
      BY Zenon, <3>1, NetNothing DEF NetInv, NetTypes
  <2> QED
    BY Zenon, <2>1, NetEnsure, NetAttach, NetDetach, NetCommand, NetReturn, CallersAssumption DEF Net!Next
<1>2. NetInv => LinksFollowCalls
  <2> SUFFICES ASSUME NetInv PROVE LinksFollowCalls
    OBVIOUS
  <2>1. ASSUME NEW t \in Callers, call[t].op = "attach", call[t].todo = <<>>, call[t].alone, linkFaults = 0
        PROVE  call[t].host \in DOMAIN veths /\ veths[call[t].host] = [master |-> call[t].bridge, up |-> TRUE]
    <3>1. AttachDone(t) /\ <<>> # <<"add", "master", "up">>
      BY Zenon, <2>1 DEF NetInv, Attaching
    <3>2. call[t].host \in DOMAIN veths /\ veths[call[t].host].master = call[t].bridge /\ veths[call[t].host].up = TRUE
      BY Zenon, <2>1, <3>1 DEF AttachDone
    <3> QED
      BY Zenon, <3>2 DEF NetInv, NetTypes
  <2> QED
    BY Zenon, <2>1 DEF NetInv, Tried, LinksFollowCalls, Net!LinksFollowCalls
<1>3. Net!Init => NetInv
  BY Zenon, NetInit
<1> QED
  BY <1>1, <1>2, <1>3, PTL DEF Net!Spec
=============================================================================

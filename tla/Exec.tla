-------------------------------- MODULE Exec --------------------------------
(***************************************************************************)
(* Exec and Logs of the node agent (internal/nodeagent) over the in-memory *)
(* runtime (internal/primitives/runtime/fake), while one container ID is   *)
(* created, removed and created again.  A container is the number of its   *)
(* Create; its log is a buffer of that number, which goes on to exist      *)
(* after Remove as long as somebody holds it.  Logs reads the buffer after *)
(* giving the lock back.  A line is the number of the call that wrote it.  *)
(***************************************************************************)
EXTENDS Naturals, Sequences

CONSTANTS
  Callers,
  Images,
  Torn,       \* what a reader of the bytes of a growing buffer may get
  MaxCreates, MaxCalls

\* 0 stands for nobody.
CallersAssumption == 0 \notin Callers /\ MaxCreates \in Nat /\ MaxCalls \in Nat

VARIABLES
  images,     \* the images pulled
  cont,       \* the container there is, 0 for none
  log,        \* the buffer of the ID, 0 for none
  bufs,       \* the lines of each buffer
  mu,         \* the caller that holds the lock for writing, 0 for none
  call,       \* each caller's call
  calls,
  ran         \* Exec calls that returned: number, containers met, the buffers it wrote to

vars == <<images, cont, log, bufs, mu, call, calls, ran>>

Idle == [pc |-> "idle", no |-> 0, buf |-> 0, met |-> {}, out |-> <<>>, raced |-> FALSE]

Init ==
  /\ images = {} /\ cont = 0 /\ log = 0 /\ bufs = <<>> /\ mu = 0
  /\ call = [t \in Callers |-> Idle]
  /\ calls = 0 /\ ran = {}

\* The containers that exist during a call are remembered in it.
Meeting(c) == [t \in Callers |-> IF call[t].pc = "idle" THEN call[t] ELSE [call[t] EXCEPT !.met = @ \cup {c}]]

-----------------------------------------------------------------------------
(* The runtime.                                                             *)

Pull(i) ==
  /\ mu = 0 /\ i \notin images
  /\ images' = images \cup {i}
  /\ UNCHANGED <<cont, log, bufs, mu, call, calls, ran>>

\* Mutant of Create: the log of an earlier container of the ID is kept.
CreateKeepsLog(i) ==
  /\ mu = 0 /\ Len(bufs) < MaxCreates
  /\ images' = images \cup {i}
  /\ bufs' = Append(bufs, <<>>)
  /\ cont' = Len(bufs')
  /\ log' = IF log = 0 THEN Len(bufs') ELSE log
  /\ call' = Meeting(cont')
  /\ UNCHANGED <<mu, calls, ran>>

\* Create pulls the image, and replaces a container that has the ID.
Create(i) ==
  /\ mu = 0 /\ Len(bufs) < MaxCreates
  /\ images' = images \cup {i}
  /\ bufs' = Append(bufs, <<>>)
  /\ cont' = Len(bufs')
  /\ log' = Len(bufs')
  /\ call' = Meeting(cont')
  /\ UNCHANGED <<mu, calls, ran>>

\* Get finds the container.
Get == cont # 0

\* Remove with force.
RemoveForced ==
  /\ mu = 0 /\ cont # 0
  /\ cont' = 0 /\ log' = 0
  /\ call' = Meeting(0)
  /\ UNCHANGED <<images, bufs, mu, calls, ran>>

-----------------------------------------------------------------------------
(* Agent.Exec and Agent.Logs.                                               *)

Begin(t, pc, buf) ==
  /\ call[t].pc = "idle" /\ calls < MaxCalls
  /\ calls' = calls + 1
  /\ call' = [call EXCEPT ![t] = [Idle EXCEPT !.pc = pc, !.no = calls + 1, !.buf = buf, !.met = {cont}]]

\* Exec: a command is required, and Get must find the container, ...
BeginExec(t) ==
  /\ mu = 0 /\ Get
  /\ Begin(t, "check", 0)
  /\ UNCHANGED <<images, cont, log, bufs, mu, ran>>

\* ... and so must the Exec of the runtime, ...
ExecCheck(t) ==
  /\ call[t].pc = "check" /\ mu = 0
  /\ call' = [call EXCEPT ![t] = IF cont = 0 THEN Idle ELSE [@ EXCEPT !.pc = "lock"]]
  /\ UNCHANGED <<images, cont, log, bufs, mu, calls, ran>>

\* ... which gives the lock back and takes it again to write the line, if there
\* still is a log.
ExecWrite(t) ==
  /\ call[t].pc = "lock" /\ mu = 0
  /\ IF log = 0
     THEN /\ call' = [call EXCEPT ![t] = Idle]
          /\ ran' = ran \cup {[no |-> call[t].no, met |-> call[t].met]}
          /\ UNCHANGED <<bufs, mu>>
     ELSE /\ mu' = t
          /\ bufs' = [bufs EXCEPT ![log] = Append(@, call[t].no)]
          /\ call' = [call EXCEPT ![t].pc = "wrote"]
          /\ UNCHANGED ran
  /\ UNCHANGED <<images, cont, log, calls>>

ExecReturn(t) ==
  /\ call[t].pc = "wrote"
  /\ mu' = 0
  /\ call' = [call EXCEPT ![t] = Idle]
  /\ ran' = ran \cup {[no |-> call[t].no, met |-> call[t].met]}
  /\ UNCHANGED <<images, cont, log, bufs, calls>>

\* Logs: the buffer is looked up under the lock, ...
BeginLogs(t) ==
  /\ mu = 0 /\ log # 0
  /\ Begin(t, "bytes", log)
  /\ UNCHANGED <<images, cont, log, bufs, mu, ran>>

\* ... and its bytes are taken without it: while a line is being written they
\* may be any part of it, or of memory that is not the buffer's.
LogsBytes(t) ==
  /\ call[t].pc = "bytes"
  /\ LET b       == bufs[call[t].buf]
         writing == mu # 0 /\ log = call[t].buf
     IN \E out \in IF writing THEN {b, SubSeq(b, 1, Len(b) - 1), <<Torn>>} ELSE {b} :
          call' = [call EXCEPT ![t] = [@ EXCEPT !.pc = "read", !.out = out, !.raced = writing]]
  /\ UNCHANGED <<images, cont, log, bufs, mu, calls, ran>>

LogsReturn(t) ==
  /\ call[t].pc = "read"
  /\ call' = [call EXCEPT ![t] = Idle]
  /\ UNCHANGED <<images, cont, log, bufs, mu, calls, ran>>

\* AppendLog of the tests.
AppendLog ==
  /\ mu = 0 /\ log # 0 /\ calls < MaxCalls
  /\ calls' = calls + 1
  /\ bufs' = [bufs EXCEPT ![log] = Append(@, calls + 1)]
  /\ UNCHANGED <<images, cont, log, mu, call, ran>>

Next ==
  \/ \E i \in Images : Pull(i) \/ Create(i)
  \/ RemoveForced \/ AppendLog
  \/ \E t \in Callers :
       \/ BeginExec(t) \/ ExecCheck(t) \/ ExecWrite(t) \/ ExecReturn(t)
       \/ BeginLogs(t) \/ LogsBytes(t) \/ LogsReturn(t)

Spec == Init /\ [][Next]_vars

-----------------------------------------------------------------------------
Wrote(no) == {b \in DOMAIN bufs : \E i \in DOMAIN bufs[b] : bufs[b][i] = no}

IsPrefix(s, b) == Len(s) <= Len(b) /\ s = SubSeq(b, 1, Len(s))

\* A command whose Exec succeeded is a line of exactly one log, that of a
\* container which existed during the call, unless there was a moment in the
\* call without the container; it may be another container than the one that
\* Get found.  What Logs returns is a prefix of the lines of one log, unless a
\* line was written at the moment it took the bytes.
ExecLogged ==
  /\ \A r \in ran :
       /\ Wrote(r.no) \subseteq r.met
       /\ \A b, c \in Wrote(r.no) : b = c
       /\ 0 \notin r.met => Wrote(r.no) # {}
  /\ \A t \in Callers : (call[t].pc = "read" /\ ~call[t].raced) => IsPrefix(call[t].out, bufs[call[t].buf])
=============================================================================

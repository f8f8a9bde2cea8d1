------------------------------- MODULE Volumes -------------------------------
(***************************************************************************)
(* internal/storage/volume, with the volume handler of the API and the     *)
(* workloads that write to attached volumes.  A volume is a record in the  *)
(* store and a file of blocks; the mutex guards the files only, and        *)
(* workloads do not take it.  UpdateVolume is outside src/: it is taken to *)
(* compare the record's version, as the store's UpdateWorkload does.       *)
(***************************************************************************)
EXTENDS Integers, Sequences

CONSTANTS
  Procs,      \* goroutines that call the manager
  Ids,        \* names of volumes and of snapshots: they share a directory
  Nodes,
  Sizes,      \* sizes of a volume, in blocks
  None,       \* no record, no file
  MaxCalls, MaxStops, MaxWrites

NoneAssumption == None \notin Procs /\ None \notin Seq(Nat) /\ Sizes \subseteq Nat

VARIABLES
  rec,      \* [node, inUse, size, ver]
  file,     \* the blocks: 0 when never written
  mu,       \* the goroutine that holds Manager.mu, or None
  call,     \* what each goroutine is doing
  broken,   \* volumes that calls at the same time or cut off calls touched
  source,   \* the blocks a running Snapshot has to copy, None if a workload wrote
  calls, stops, writes

vars == <<rec, file, mu, call, broken, source, calls, stops, writes>>

Idle == [pc |-> "idle", id |-> None, size |-> 0, v |-> None, dst |-> None, old |-> <<>>, at |-> 0, alone |-> TRUE]

Init ==
  /\ rec = [i \in Ids |-> None] /\ file = [i \in Ids |-> None]
  /\ mu = None
  /\ call = [p \in Procs |-> Idle]
  /\ broken = {}
  /\ source = None
  /\ calls = 0 /\ stops = 0 /\ writes = 0

Truncate(f, n) == [j \in 1..n |-> IF j <= Len(f) THEN f[j] ELSE 0]

\* Create and Delete of one volume disturb one another, and an Attach or
\* Detach in progress: versions start at 1 again in a new record.
Rivals(p, i) == {q \in Procs \ {p} : call[q].pc \in {"touch", "remove", "attach", "detach"} /\ call[q].id = i}

Start(p, c) ==
  /\ call[p].pc = "idle" /\ calls < MaxCalls
  /\ calls' = calls + 1
  /\ call' = [q \in Procs |->
       IF q = p THEN [c EXCEPT !.alone = \A r \in Rivals(p, c.id) : c.pc # "touch" /\ call[r].pc \notin {"touch", "remove"}]
       ELSE IF q \in Rivals(p, c.id) /\ c.pc \in {"touch", "remove"} THEN [call[q] EXCEPT !.alone = FALSE]
       ELSE call[q]]

Return(p) == call' = [call EXCEPT ![p] = Idle]
Settle(p) == broken' = IF call[p].alone THEN broken \ {call[p].id} ELSE broken \cup {call[p].id}

-----------------------------------------------------------------------------
(* Create: the record, then the file under the mutex.  The file is opened   *)
(* without O_TRUNC, so the blocks of a file that was left there stay.       *)

BeginCreate(p, i, size, n) ==
  /\ rec[i] = None
  /\ Start(p, [Idle EXCEPT !.pc = "touch", !.id = i, !.size = size])
  /\ rec' = [rec EXCEPT ![i] = [node |-> n, inUse |-> FALSE, size |-> size, ver |-> 1]]
  /\ UNCHANGED <<file, mu, broken, source, stops, writes>>

\* Mutant of CreateFile: the file is not given its size.
CreateFileUnsized(p) ==
  /\ call[p].pc = "touch" /\ mu = None
  /\ file' = [file EXCEPT ![call[p].id] = IF @ = None THEN <<>> ELSE @]
  /\ Settle(p)
  /\ Return(p)
  /\ UNCHANGED <<rec, mu, source, calls, stops, writes>>

CreateFile(p) ==
  /\ call[p].pc = "touch" /\ mu = None
  /\ LET i == call[p].id
     IN file' = [file EXCEPT ![i] = Truncate(IF @ = None THEN <<>> ELSE @, call[p].size)]
  /\ Settle(p)
  /\ Return(p)
  /\ UNCHANGED <<rec, mu, source, calls, stops, writes>>

-----------------------------------------------------------------------------
(* Delete: the record, then the file under the mutex.                       *)

BeginDelete(p, i) ==
  /\ Start(p, [Idle EXCEPT !.pc = "remove", !.id = i])
  /\ rec' = [rec EXCEPT ![i] = None]
  /\ UNCHANGED <<file, mu, broken, source, stops, writes>>

\* Mutant of DeleteFile: the file is removed without the mutex.
DeleteFileUnlocked(p) ==
  /\ call[p].pc = "remove"
  /\ file' = [file EXCEPT ![call[p].id] = None]
  /\ Settle(p)
  /\ Return(p)
  /\ UNCHANGED <<rec, mu, source, calls, stops, writes>>

\* os.Remove of a file that is not there is an error and changes nothing.
DeleteFile(p) ==
  /\ call[p].pc = "remove" /\ mu = None
  /\ file' = [file EXCEPT ![call[p].id] = None]
  /\ Settle(p)
  /\ Return(p)
  /\ UNCHANGED <<rec, mu, source, calls, stops, writes>>

-----------------------------------------------------------------------------
(* Attach and Detach: a Get and an UpdateVolume.                            *)

BeginAttach(p, i, n) ==
  /\ rec[i] # None
  /\ Start(p, [Idle EXCEPT !.pc = "attach", !.id = i, !.v = [rec[i] EXCEPT !.node = n, !.inUse = TRUE]])
  /\ UNCHANGED <<rec, file, mu, broken, source, stops, writes>>

BeginDetach(p, i) ==
  /\ rec[i] # None
  /\ Start(p, [Idle EXCEPT !.pc = "detach", !.id = i, !.v = [rec[i] EXCEPT !.inUse = FALSE]])
  /\ UNCHANGED <<rec, file, mu, broken, source, stops, writes>>

\* A changed or deleted record is a conflict.
Update(p) ==
  /\ call[p].pc \in {"attach", "detach"}
  /\ LET i == call[p].id
     IN rec' = IF rec[i] # None /\ rec[i].ver = call[p].v.ver
               THEN [rec EXCEPT ![i] = [call[p].v EXCEPT !.ver = @ + 1]] ELSE rec
  /\ broken' = IF call[p].alone THEN broken ELSE broken \cup {call[p].id}
  /\ Return(p)
  /\ UNCHANGED <<file, mu, source, calls, stops, writes>>

-----------------------------------------------------------------------------
(* Snapshot holds the mutex while it copies; a workload may write meanwhile.*)
(* The target is opened without O_TRUNC.                                    *)

BeginSnapshot(p, i, dst) ==
  /\ mu = None /\ file[i] # None /\ i # dst
  /\ Start(p, [Idle EXCEPT !.pc = "copy", !.id = i, !.dst = dst,
                           !.old = IF file[dst] = None THEN <<>> ELSE file[dst]])
  /\ mu' = p
  /\ source' = file[i]
  /\ file' = [file EXCEPT ![dst] = IF @ = None THEN <<>> ELSE @]
  /\ broken' = IF rec[dst] = None THEN broken ELSE broken \cup {dst}
  /\ UNCHANGED <<rec, stops, writes>>

\* One read of the source and the write of the same block of the target.
CopyBlock(p) ==
  /\ call[p].pc = "copy"
  /\ LET n == call[p].at + 1
         s == file[call[p].id]
     IN /\ n <= Len(s)
        /\ file' = [file EXCEPT ![call[p].dst] =
                      SubSeq(@, 1, n - 1) \o <<s[n]>> \o SubSeq(@, n + 1, Len(@))]
        /\ call' = [call EXCEPT ![p].at = n]
  /\ UNCHANGED <<rec, mu, broken, source, calls, stops, writes>>

SnapshotDone(p) ==
  /\ call[p].pc = "copy" /\ call[p].at = Len(file[call[p].id])
  /\ mu' = None
  /\ source' = None
  /\ Return(p)
  /\ UNCHANGED <<rec, file, broken, calls, stops, writes>>

-----------------------------------------------------------------------------
\* A workload writes a block of an attached volume.
WorkloadWrite(i, j) ==
  /\ writes < MaxWrites
  /\ rec[i] # None /\ rec[i].inUse
  /\ file[i] # None /\ j \in 1..Len(file[i])
  /\ file' = [file EXCEPT ![i][j] = writes + 1]
  /\ writes' = writes + 1
  /\ source' = IF mu # None /\ i \in {call[mu].id, call[mu].dst} THEN None ELSE source
  /\ UNCHANGED <<rec, mu, call, broken, calls, stops>>

\* handleVolumes: POST creates the record only.
HandleVolumesPost(i, size, n) ==
  /\ rec[i] = None /\ calls < MaxCalls
  /\ calls' = calls + 1
  /\ rec' = [rec EXCEPT ![i] = [node |-> n, inUse |-> FALSE, size |-> size, ver |-> 1]]
  /\ broken' = broken \cup {i}
  /\ call' = [q \in Procs |-> IF q \in Rivals(None, i) THEN [call[q] EXCEPT !.alone = FALSE] ELSE call[q]]
  /\ UNCHANGED <<file, mu, source, stops, writes>>

\* A call fails at its next step, or its process dies there.
Stop(p) ==
  /\ call[p].pc # "idle" /\ stops < MaxStops
  /\ stops' = stops + 1
  /\ broken' = IF call[p].pc = "touch" \/ (call[p].pc = "remove" /\ ~call[p].alone)
               THEN broken \cup {call[p].id} ELSE broken
  /\ IF mu = p THEN mu' = None /\ source' = None ELSE UNCHANGED <<mu, source>>
  /\ Return(p)
  /\ UNCHANGED <<rec, file, calls, writes>>

Blocks == UNION {1..s : s \in Sizes}

Next ==
  \/ \E p \in Procs :
       \/ CreateFile(p) \/ DeleteFile(p) \/ Update(p) \/ CopyBlock(p) \/ SnapshotDone(p) \/ Stop(p)
       \/ \E i \in Ids :
            \/ BeginDelete(p, i) \/ BeginDetach(p, i)
            \/ \E n \in Nodes : BeginAttach(p, i, n) \/ \E s \in Sizes : BeginCreate(p, i, s, n)
            \/ \E d \in Ids : BeginSnapshot(p, i, d)
  \/ \E i \in Ids : \/ \E j \in Blocks : WorkloadWrite(i, j)
                    \/ \E s \in Sizes, n \in Nodes : HandleVolumesPost(i, s, n)

Spec == Init /\ [][Next]_vars

-----------------------------------------------------------------------------
\* A volume with a record has a file of the recorded size, once Create has
\* returned, unless Create and Delete of it overlapped, Create was cut off, the
\* record came from the API, or a snapshot has its name.
VolumeHasFile ==
  \A i \in Ids \ broken :
    (rec[i] # None /\ \A p \in Procs : call[p].pc = "touch" => call[p].id # i)
      => file[i] # None /\ Len(file[i]) = rec[i].size

\* The blocks copied so far are the source's at the start of the Snapshot, if
\* no workload wrote to source or target meanwhile, and they are all of the
\* target if that was new: no Create, Delete or other Snapshot comes in between.
\* (A file that was there is not truncated: nothing is said of its tail.)
SnapshotIsCopy ==
  mu # None /\ source # None =>
    LET c == call[mu]
    IN /\ file[c.id] = source
       /\ \A j \in 1..c.at : file[c.dst][j] = source[j]
       /\ c.old = <<>> => Len(file[c.dst]) = c.at
=============================================================================

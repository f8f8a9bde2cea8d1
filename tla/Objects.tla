------------------------------- MODULE Objects -------------------------------
(***************************************************************************)
(* internal/storage/object, with the bucket and object handlers of the     *)
(* API.  An object is a record in the store and a file below the bucket's  *)
(* directory.  The calls take no lock: every step of a call, a change of   *)
(* the store or a system call, interleaves with the steps of other calls.  *)
(* A content is a sequence of blocks; its digest is the content itself.    *)
(***************************************************************************)
EXTENDS Integers, Sequences

CONSTANTS
  Procs,      \* goroutines that call the store
  Buckets, Keys,
  Contents,   \* payloads: sequences of blocks
  None,       \* no record, no file
  MaxCalls,   \* calls started
  MaxStops    \* calls that a failure or a crash cuts off

ContentsAssumption == Contents \subseteq Seq(Nat)

VARIABLES
  buckets,  \* bucket records
  dirs,     \* bucket directories
  rec,      \* the digest in the record of an object
  file,     \* the bytes of the file of an object
  call,     \* what each goroutine is doing
  dirty,    \* objects that calls at the same time or cut off calls touched
  lost,     \* objects whose record a DeleteBucket left behind
  calls, stops

vars == <<buckets, dirs, rec, file, call, dirty, lost, calls, stops>>

ObjectIds == Buckets \X Keys
Idle == [pc |-> "idle", op |-> "", id |-> <<>>, data |-> None, linked |-> FALSE, alone |-> TRUE]

Init ==
  /\ buckets = {} /\ dirs = {}
  /\ rec = [i \in ObjectIds |-> None] /\ file = [i \in ObjectIds |-> None]
  /\ call = [p \in Procs |-> Idle]
  /\ dirty = {} /\ lost = {} /\ calls = 0 /\ stops = 0

-----------------------------------------------------------------------------
(* Which calls disturb one another, for the properties: DeleteBucket works  *)
(* on every key of the bucket; Get and CreateBucket change no object.       *)

Changes(c) == c.pc # "idle" /\ c.op \in {"put", "delete", "rmbucket"}
SameObject(c, d) == c.id[1] = d.id[1] /\ (c.id[2] = d.id[2] \/ "rmbucket" \in {c.op, d.op})
On(i) == {p \in Procs : Changes(call[p]) /\ SameObject(call[p], [op |-> "", id |-> i])}

\* Goroutine p starts a call: c is its state after the first step.
Start(p, c) ==
  /\ call[p].pc = "idle" /\ calls < MaxCalls
  /\ calls' = calls + 1
  /\ call' = [q \in Procs |->
       IF q = p THEN [c EXCEPT !.alone = \A r \in Procs : ~(Changes(call[r]) /\ SameObject(call[r], c))]
       ELSE IF Changes(c) /\ call[q].pc # "idle" /\ SameObject(call[q], c)
       THEN [call[q] EXCEPT !.alone = FALSE] ELSE call[q]]

Goto(p, pc) == call' = [call EXCEPT ![p].pc = pc]
Return(p) == call' = [call EXCEPT ![p] = Idle]

\* The object is in order again after a call that had it for itself.
Settle(p) ==
  /\ dirty' = IF call[p].alone THEN dirty \ {call[p].id} ELSE dirty \cup {call[p].id}
  /\ lost' = IF call[p].alone THEN lost \ {call[p].id} ELSE lost

\* Open descriptors keep a file that is removed; writing to them is lost.
Unlink(ids) == [q \in Procs |-> IF call[q].id \in ids THEN [call[q] EXCEPT !.linked = FALSE] ELSE call[q]]

-----------------------------------------------------------------------------
(* PutObject: the payload is read, then directory, file and record.         *)

BeginPut(p, i, c) ==
  /\ Start(p, [Idle EXCEPT !.pc = "open", !.op = "put", !.id = i, !.data = c])
  /\ dirs' = dirs \cup {i[1]}
  /\ UNCHANGED <<buckets, rec, file, dirty, lost, stops>>

\* os.WriteFile opens with O_TRUNC, and fails when the directory is gone.
PutOpen(p) ==
  /\ call[p].pc = "open" /\ call[p].op = "put"
  /\ IF call[p].id[1] \in dirs
     THEN /\ file' = [file EXCEPT ![call[p].id] = <<>>]
          /\ call' = [call EXCEPT ![p].pc = "write", ![p].linked = TRUE]
          /\ UNCHANGED <<dirty, lost>>
     ELSE Return(p) /\ Settle(p) /\ UNCHANGED file
  /\ UNCHANGED <<buckets, dirs, rec, calls, stops>>

\* A write at offset 0 leaves the bytes behind its own.
PutWrite(p) ==
  /\ call[p].pc = "write"
  /\ LET i == call[p].id
         d == call[p].data
     IN file' = IF call[p].linked
                THEN [file EXCEPT ![i] = d \o SubSeq(@, Len(d) + 1, Len(@))] ELSE file
  /\ Goto(p, "record")
  /\ UNCHANGED <<buckets, dirs, rec, dirty, lost, calls, stops>>

PutRecord(p) ==
  /\ call[p].pc = "record"
  /\ rec' = [rec EXCEPT ![call[p].id] = call[p].data]
  /\ Settle(p)
  /\ Return(p)
  /\ UNCHANGED <<buckets, dirs, file, calls, stops>>

-----------------------------------------------------------------------------
(* GetObject, and the read from the file it returns.                        *)

BeginGet(p, i) ==
  /\ rec[i] # None
  /\ Start(p, [Idle EXCEPT !.pc = "open", !.op = "get", !.id = i, !.data = rec[i]])
  /\ UNCHANGED <<buckets, dirs, rec, file, dirty, lost, stops>>

GetOpen(p) ==
  /\ call[p].pc = "open" /\ call[p].op = "get"
  /\ IF file[call[p].id] = None THEN Return(p)
     ELSE call' = [call EXCEPT ![p].pc = "read", ![p].linked = TRUE]
  /\ UNCHANGED <<buckets, dirs, rec, file, dirty, lost, calls, stops>>

GetRead(p) ==
  /\ call[p].pc = "read"
  /\ Return(p)
  /\ UNCHANGED <<buckets, dirs, rec, file, dirty, lost, calls, stops>>

-----------------------------------------------------------------------------
(* DeleteObject: the record, then the file.                                 *)

\* Mutant of BeginDelete: the record stays until the file is removed.
BeginDeleteLate(p, i) ==
  /\ Start(p, [Idle EXCEPT !.pc = "remove", !.op = "delete", !.id = i])
  /\ UNCHANGED <<buckets, dirs, rec, file, dirty, lost, stops>>

BeginDelete(p, i) ==
  /\ Start(p, [Idle EXCEPT !.pc = "remove", !.op = "delete", !.id = i])
  /\ rec' = [rec EXCEPT ![i] = None]
  /\ UNCHANGED <<buckets, dirs, file, dirty, lost, stops>>

DeleteFile(p) ==
  /\ call[p].pc = "remove"
  /\ file' = [file EXCEPT ![call[p].id] = None]
  /\ Settle(p)
  /\ call' = [Unlink({call[p].id}) EXCEPT ![p] = Idle]
  /\ UNCHANGED <<buckets, dirs, rec, calls, stops>>

-----------------------------------------------------------------------------
(* Buckets.  DeleteBucket removes the files and leaves the records.         *)

BeginCreateBucket(p, b, k) ==
  /\ b \notin buckets
  /\ Start(p, [Idle EXCEPT !.pc = "mkdir", !.op = "mkbucket", !.id = <<b, k>>])
  /\ buckets' = buckets \cup {b}
  /\ UNCHANGED <<dirs, rec, file, dirty, lost, stops>>

CreateDir(p) ==
  /\ call[p].pc = "mkdir"
  /\ dirs' = dirs \cup {call[p].id[1]}
  /\ Return(p)
  /\ UNCHANGED <<buckets, rec, file, dirty, lost, calls, stops>>

BeginDeleteBucket(p, b, k) ==
  /\ Start(p, [Idle EXCEPT !.pc = "rmall", !.op = "rmbucket", !.id = <<b, k>>])
  /\ buckets' = buckets \ {b}
  /\ UNCHANGED <<dirs, rec, file, dirty, lost, stops>>

RemoveAll(p) ==
  /\ call[p].pc = "rmall"
  /\ LET b   == call[p].id[1]
         ids == {b} \X Keys
     IN /\ file' = [i \in ObjectIds |-> IF i \in ids THEN None ELSE file[i]]
        /\ dirs' = dirs \ {b}
        /\ dirty' = IF call[p].alone THEN dirty ELSE dirty \cup ids
        /\ lost' = lost \cup {i \in ids : rec[i] # None}
        /\ call' = [Unlink(ids) EXCEPT ![p] = Idle]
  /\ UNCHANGED <<buckets, rec, calls, stops>>

-----------------------------------------------------------------------------
(* The handlers of the API change the records only.                         *)

HandleBucketsPost(b) ==
  /\ b \notin buckets
  /\ buckets' = buckets \cup {b}
  /\ UNCHANGED <<dirs, rec, file, call, dirty, lost, calls, stops>>

HandleObjectsDelete(i) ==
  /\ calls < MaxCalls
  /\ calls' = calls + 1
  /\ rec' = [rec EXCEPT ![i] = None]
  /\ call' = [q \in Procs |-> IF q \in On(i) \/ (call[q].op = "get" /\ call[q].id = i)
                              THEN [call[q] EXCEPT !.alone = FALSE] ELSE call[q]]
  /\ UNCHANGED <<buckets, dirs, file, dirty, lost, stops>>

\* A call fails at its next step, or its process dies there: what it did stays.
\* The object is out of order if it has a record and its file was opened.
Stop(p) ==
  /\ call[p].pc # "idle" /\ stops < MaxStops
  /\ stops' = stops + 1
  /\ dirty' = IF Changes(call[p])
                 /\ (~call[p].alone \/ (call[p].pc \in {"write", "record"} /\ rec[call[p].id] # None))
              THEN dirty \cup {call[p].id} ELSE dirty
  /\ Return(p)
  /\ UNCHANGED <<buckets, dirs, rec, file, lost, calls>>

Step(p) ==
  \/ PutOpen(p) \/ PutWrite(p) \/ PutRecord(p) \/ GetOpen(p) \/ GetRead(p)
  \/ DeleteFile(p) \/ CreateDir(p) \/ RemoveAll(p) \/ Stop(p)

Next ==
  \/ \E p \in Procs : Step(p)
  \/ \E p \in Procs, i \in ObjectIds : BeginGet(p, i) \/ BeginDelete(p, i) \/ \E c \in Contents : BeginPut(p, i, c)
  \/ \E p \in Procs, b \in Buckets :
       LET k == CHOOSE k \in Keys : TRUE
       IN BeginCreateBucket(p, b, k) \/ BeginDeleteBucket(p, b, k)
  \/ \E b \in Buckets : HandleBucketsPost(b)
  \/ \E i \in ObjectIds : HandleObjectsDelete(i)

Spec == Init /\ [][Next]_vars

-----------------------------------------------------------------------------
\* An object that has a record has the bytes of its digest, and a GetObject
\* reads them, as long as its calls do not overlap and none that overwrites it
\* is cut off; except that DeleteBucket, also when it runs alone, leaves the
\* record of an object whose file it removes.  A first PutObject that is cut
\* off, a DeleteObject that is cut off and the API's DELETE leave at worst a
\* file without a record, and one undisturbed PutObject repairs what any calls
\* left behind.
DigestMatches ==
  /\ \A i \in ObjectIds \ dirty :
       On(i) = {} /\ rec[i] # None => file[i] = IF i \in lost THEN None ELSE rec[i]
  /\ \A p \in Procs : call[p].pc = "read" /\ call[p].alone /\ call[p].id \notin dirty \cup lost
                        => call[p].linked /\ file[call[p].id] = call[p].data
=============================================================================

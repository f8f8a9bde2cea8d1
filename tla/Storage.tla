------------------------------- MODULE Storage -------------------------------
(***************************************************************************)
(* The storage of the platform: the object store and the volumes.          *)
(***************************************************************************)
EXTENDS Parts, Integers, Sequences

CONSTANTS Procs, MaxStops, Buckets, Keys, Contents, Ids, Nodes, Sizes, MaxWrites

VARIABLES rec, file, stops, buckets, dirs, dirty, lost, broken, source, writes

Obj == INSTANCE Objects
Vol == INSTANCE Volumes

ASSUME StorageAssumption == Obj!ContentsAssumption /\ Vol!NoneAssumption

-----------------------------------------------------------------------------
\* PutObject, GetObject and DeleteObject: a record's digest is the digest of
\* the file, unless calls on the object overlapped, an overwriting one was cut
\* off, or a DeleteBucket left the record without its file (see Objects).
DigestMatches == part = "objects" => Obj!DigestMatches

\* Create and Delete: a volume's record comes with a file of its size, unless
\* they overlapped or Create was cut off (see Volumes).
VolumeHasFile == part = "volumes" => Vol!VolumeHasFile

\* Snapshot: what is copied is the source as it was when the copy began, unless
\* a workload wrote meanwhile (see Volumes).
SnapshotIsCopy == part = "volumes" => Vol!SnapshotIsCopy
==============================================================================

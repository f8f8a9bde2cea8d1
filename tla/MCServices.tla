----------------------------- MODULE MCServices -----------------------------
(***************************************************************************)
(* The object store, the volumes, the API in front of the store, the       *)
(* bridges of the projects, and Exec and Logs of an agent: they share no   *)
(* state here, and an initial state picks the one that runs.               *)
(***************************************************************************)
EXTENDS Storage, NodeParts, ApiPart, TLC

objectsOnly == <<buckets, dirs, dirty, lost>>
volumesOnly == <<broken, source, writes>>
filesOnly == <<rec, file, stops>>
apiOnly == <<now, server, users, keys, store, cred, sent, focus>>
linksOnly == <<exec, networks, bridges, veths, linkFaults, tried>>
execOnly == <<images, cont, log, bufs, ran>>
vars == <<part, call, calls, mu, objectsOnly, volumesOnly, filesOnly, apiOnly, linksOnly, execOnly>>

Payloads == {<<1, 1>>, <<2>>}

\* shortID of the containers and networks.
Short(id) ==
  CASE id \in {"hello-n1", "hello-n2"} -> "hellon" [] id = "a-b-c-d" -> Panics [] OTHER -> id

NoObjects == buckets = {} /\ dirs = {} /\ dirty = {} /\ lost = {}
NoVolumes == broken = {} /\ source = None /\ writes = 0
NoFiles == rec = None /\ file = None /\ stops = 0
NoApi ==
  /\ now = 0 /\ server = "down" /\ users = <<>> /\ keys = <<>> /\ store = {}
  /\ cred = None /\ sent = 0 /\ focus = "none"
NoLinks == exec = FALSE /\ networks = <<>> /\ bridges = {} /\ veths = <<>> /\ linkFaults = 0 /\ tried = <<>>
NoExec == images = {} /\ cont = 0 /\ log = 0 /\ bufs = <<>> /\ ran = {}

Init ==
  \/ part = "objects" /\ Obj!Init /\ mu = None /\ NoVolumes /\ NoApi /\ NoLinks /\ NoExec
  \/ part = "volumes" /\ Vol!Init /\ NoObjects /\ NoApi /\ NoLinks /\ NoExec
  \/ part = "api" /\ API!Init /\ mu = None /\ calls = 0 /\ NoObjects /\ NoVolumes /\ NoFiles /\ NoLinks /\ NoExec
  \/ part = "links" /\ Net!Init /\ NoObjects /\ NoVolumes /\ NoFiles /\ NoApi /\ NoExec
  \/ part = "exec" /\ Rt!Init /\ NoObjects /\ NoVolumes /\ NoFiles /\ NoApi /\ NoLinks

Next ==
  \/ part = "objects" /\ Obj!Next /\ UNCHANGED <<part, mu, volumesOnly, apiOnly, linksOnly, execOnly>>
  \/ part = "volumes" /\ Vol!Next /\ UNCHANGED <<part, objectsOnly, apiOnly, linksOnly, execOnly>>
  \/ part = "api" /\ API!Next /\ UNCHANGED <<part, mu, calls, objectsOnly, volumesOnly, filesOnly, linksOnly, execOnly>>
  \/ part = "links" /\ Net!Next /\ UNCHANGED <<part, objectsOnly, volumesOnly, filesOnly, apiOnly, execOnly>>
  \/ part = "exec" /\ Rt!Next /\ UNCHANGED <<part, objectsOnly, volumesOnly, filesOnly, apiOnly, linksOnly>>

Spec == Init /\ [][Next]_vars

Symmetry == Permutations(Procs)
=============================================================================

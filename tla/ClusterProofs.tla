---------------------------- MODULE ClusterProofs ----------------------------
(***************************************************************************)
(* The control plane, for any number of workloads, controllers, nodes,     *)
(* policies and faults, in three parts.                                    *)
(*                                                                         *)
(* ScaleKept: a copy with the stored version equals what is stored, so the *)
(* write that the version check lets through brings back no old number of  *)
(* replicas.                                                               *)
(*                                                                         *)
(* Plan: filter and score put the nodes that fit in one row (ScoredFacts); *)
(* after every round of the loop the nodes before the first one with room  *)
(* are full and the ones behind it empty (PlaceFacts); PlanPart's          *)
(* properties are read off the last round.                                 *)
(*                                                                         *)
(* TypeOK: the placements are nodes because the IDs that Plan returns are  *)
(* those of the list it was given.                                         *)
(***************************************************************************)
EXTENDS Cluster, PlanPart, TLAPS

\* The copies whose version is the stored one are what is stored.
CopiesCurrent ==
  \A c \in Controllers, w \in Workloads :
    (<<c, w>> \in current /\ w \in DOMAIN ctl[c].copy) => ctl[c].copy[w] = stored[w]

\* Only a workload that is stored has copies.
CopiesOfStored ==
  \A p, w : (<<p, w>> \in current /\ w \in Workloads) => stored[w].exists

\* The pass of a controller works on workloads that it has copied.
PassOnCopies ==
  \A c \in Controllers : /\ ctl[c].todo \subseteq DOMAIN ctl[c].copy
                         /\ ctl[c].w \subseteq ctl[c].todo
                         /\ DOMAIN ctl[c].copy \subseteq Workloads

\* The autoscaler that is about to write holds what a rule of its asks for.
ScalerCurrent ==
  /\ scaler.todo \subseteq Workloads
  /\ scaler.pc = "write" =>
       \E w \in Workloads :
         /\ scaler.w = {w}
         /\ <<Scaler, w>> \in current =>
              \E p \in scaler.rule[w], avg \in Averages :
                scaler.copy.replicas = Want(p, avg, stored[w].replicas)

IsPass(r) ==
  r = [pc |-> r.pc, todo |-> r.todo, w |-> r.w, copy |-> r.copy, plan |-> r.plan]

IsEvaluation(r) ==
  r = [pc |-> r.pc, todo |-> r.todo, w |-> r.w, rule |-> r.rule, copy |-> r.copy]

\* The variables are functions on their sets and the local states are records.
Shape ==
  /\ stored = [w \in Workloads |-> stored[w]]
  /\ ctl = [c \in Controllers |-> ctl[c]]
  /\ \A c \in Controllers : IsPass(ctl[c])
  /\ IsEvaluation(scaler)

ScaleInv == Shape /\ CopiesOfStored /\ CopiesCurrent /\ PassOnCopies /\ ScalerCurrent

LEMMA ScaleInit == Init => ScaleInv
BY DEF Init, ScaleInv, Shape, CopiesOfStored, CopiesCurrent, PassOnCopies, ScalerCurrent, IsPass, IsEvaluation,
       Idle, Waiting, NoWorkload

\* A write of workload w by p either does nothing or leaves no copy of w current.
LEMMA UpdateFacts ==
  ASSUME NEW p, NEW w \in Workloads, NEW r, Shape, UpdateWorkload(p, w, r)
  PROVE  /\ stored' = [v \in Workloads |-> stored'[v]]
         /\ current' \subseteq current
         /\ \A v \in Workloads : stored'[v] = stored[v]
                                 \/ (v = w /\ <<p, w>> \in current /\ stored'[v] = r)
         /\ \A q, v : (<<q, v>> \in current' /\ v \in Workloads) => stored'[v] = stored[v]
<1>1. CASE <<p, w>> \in current
  <2>1. stored' = [stored EXCEPT ![w] = r] /\ current' = {k \in current : k[2] # w}
    BY <1>1 DEF UpdateWorkload
  <2>2. \A v \in Workloads : stored'[v] = IF v = w THEN r ELSE stored[v]
    BY <2>1 DEF Shape
  <2>3. \A q, v : <<q, v>> \in current' => v # w
    BY <2>1
  <2> QED
    BY <1>1, <2>1, <2>2, <2>3 DEF Shape
<1>2. CASE <<p, w>> \notin current
  BY <1>2 DEF UpdateWorkload, Shape
<1> QED
  BY <1>1, <1>2

\* The store changed only under copies that are no longer current.
Under ==
  /\ stored' = [v \in Workloads |-> stored'[v]]
  /\ current' \subseteq current
  /\ \A q, v : (<<q, v>> \in current' /\ v \in Workloads) => stored'[v] = stored[v]

\* Then the copies that a controller or the autoscaler keeps, or forgets, are
\* as good as they were.
LEMMA KeepStored ==
  ASSUME CopiesOfStored, Under
  PROVE  CopiesOfStored'
BY DEF CopiesOfStored, Under

LEMMA KeepCopies ==
  ASSUME CopiesCurrent, Under,
         \A c \in Controllers : ctl'[c].copy = ctl[c].copy \/ ctl'[c].copy = <<>>
  PROVE  CopiesCurrent'
<1> SUFFICES ASSUME NEW c \in Controllers, NEW w \in Workloads,
                    <<c, w>> \in current', w \in DOMAIN ctl'[c].copy
             PROVE  ctl'[c].copy[w] = stored'[w]
  BY DEF CopiesCurrent
<1>1. CASE ctl'[c].copy = ctl[c].copy
  BY <1>1 DEF CopiesCurrent, Under
<1>2. CASE ctl'[c].copy = <<>>
  BY <1>2
<1> QED
  BY <1>1, <1>2

LEMMA KeepScaler ==
  ASSUME ScalerCurrent, Under, scaler' = scaler
  PROVE  ScalerCurrent'
<1>1. CASE scaler.pc # "write"
  BY <1>1 DEF ScalerCurrent
<1>2. CASE scaler.pc = "write"
  <2>1. PICK w \in Workloads :
          /\ scaler.w = {w}
          /\ <<Scaler, w>> \in current =>
               \E p \in scaler.rule[w], avg \in Averages :
                 scaler.copy.replicas = Want(p, avg, stored[w].replicas)
    BY ZenonT(30), <1>2 DEF ScalerCurrent
  <2>2. <<Scaler, w>> \in current' => <<Scaler, w>> \in current /\ stored'[w] = stored[w]
    BY DEF Under
  <2>3. <<Scaler, w>> \in current' =>
          \E p \in scaler'.rule[w], avg \in Averages :
            scaler'.copy.replicas = Want(p, avg, stored'[w].replicas)
    BY <2>1, <2>2
  <2> QED
    BY <2>1, <2>3 DEF ScalerCurrent
<1> QED
  BY <1>1, <1>2

\* The end of an iteration keeps the copies of the pass or drops them all.
LEMMA ContinueFacts ==
  ASSUME NEW c \in Controllers, NEW w, Shape, PassOnCopies, Continue(c, w)
  PROVE  /\ \A d \in Controllers : ctl'[d].copy = ctl[d].copy \/ ctl'[d].copy = <<>>
         /\ PassOnCopies'
         /\ ctl' = [d \in Controllers |-> ctl'[d]]
         /\ \A d \in Controllers : IsPass(ctl'[d])
<1> DEFINE rest == ctl[c].todo \ {w}
<1>1. \A d \in Controllers : d # c => ctl'[d] = ctl[d]
  BY DEF Continue, Shape
<1>2. ctl' = [d \in Controllers |-> ctl'[d]]
  BY DEF Continue, Shape
<1>3. CASE rest = {}
  <2>1. ctl'[c] = Idle
    BY <1>3 DEF Continue, Shape
  <2>2. ctl'[c].copy = <<>> /\ ctl'[c].todo = {} /\ ctl'[c].w = {} /\ IsPass(ctl'[c])
    BY <2>1 DEF Idle, IsPass
  <2>3. DOMAIN ctl'[c].copy = {}
    BY <2>2
  <2> QED
    BY <1>1, <1>2, <2>2, <2>3 DEF Shape, PassOnCopies
<1>4. CASE rest # {}
  <2>1. ctl'[c] = Reconciling(rest, ctl[c].copy)
    BY <1>4 DEF Continue, Shape
  <2>3. ctl'[c].copy = ctl[c].copy /\ ctl'[c].todo = rest /\ ctl'[c].w = {} /\ IsPass(ctl'[c])
    BY <2>1 DEF IsPass, Reconciling
  <2> QED
    BY <1>1, <1>2, <2>3 DEF Shape, PassOnCopies
<1> QED
  BY <1>3, <1>4

\* The scaler goes on to another workload, or its pass is over.
LEMMA NextSpecFacts ==
  ASSUME NEW w, ScalerCurrent, NextSpec(w)
  PROVE  ScalerCurrent' /\ IsEvaluation(scaler') /\ scaler'.pc # "write"
<1>1. scaler'.pc \in {"wait", "next"} /\ scaler'.todo \subseteq scaler.todo /\ IsEvaluation(scaler')
  BY ZenonT(30) DEF NextSpec, Waiting, Evaluating, IsEvaluation
<1> QED
  BY <1>1 DEF ScalerCurrent

LEMMA ScaleStep == ScaleInv /\ [Next]_vars => ScaleInv'
<1> SUFFICES ASSUME ScaleInv, [Next]_vars
             PROVE  ScaleInv'
  OBVIOUS
<1> USE DEF ScaleInv
<1>0. ASSUME Under, ctl' = ctl, scaler' = scaler
      PROVE  ScaleInv'
  <2>1. CopiesOfStored' /\ CopiesCurrent' /\ ScalerCurrent'
    BY <1>0, KeepStored, KeepCopies, KeepScaler
  <2> QED
    BY <1>0, <2>1 DEF Shape, PassOnCopies, Under
<1>1. ASSUME NEW w \in Workloads, CreateWorkload(w)
      PROVE  ScaleInv'
  <2>1. PICK r \in 0..MaxReplicas :
          stored' = [stored EXCEPT ![w] = [exists |-> TRUE, replicas |-> r]]
    BY ZenonT(30), <1>1 DEF CreateWorkload
  <2>2. ~stored[w].exists /\ UNCHANGED <<current, ctl, scaler>>
    BY <1>1 DEF CreateWorkload, Listed, scaling
  <2>3. Under
    BY ZenonT(30), <2>1, <2>2 DEF Under, Shape, CopiesOfStored
  <2> QED
    BY <1>0, <2>2, <2>3
<1>2. ASSUME UNCHANGED <<stored, current, ctl, scaler>>
      PROVE  ScaleInv'
  BY <1>0, <1>2 DEF Under, Shape
<1>3. ASSUME NEW c \in Controllers, NEW ws, ws \subseteq Listed, Begin(c, ws)
      PROVE  ScaleInv'
  <2> DEFINE copy == [w \in ws |-> stored[w]]
  <2>1. /\ current' = current \cup {<<c, w>> : w \in ws}
        /\ UNCHANGED <<stored, scaler>>
        /\ ctl' = [ctl EXCEPT ![c] = Reconciling(ws, copy)]
    BY <1>3 DEF Begin, scaling
  <2>2. ctl'[c] = Reconciling(ws, copy) /\ \A d \in Controllers : d # c => ctl'[d] = ctl[d]
    BY <2>1 DEF Shape
  <2>3. ctl'[c].copy = copy /\ ctl'[c].todo = ws /\ ctl'[c].w = {} /\ IsPass(ctl'[c])
    BY <2>2 DEF Reconciling, IsPass
  <2>4. Shape'
    BY <2>1, <2>2, <2>3 DEF Shape
  <2>5. CopiesOfStored'
    BY <1>3, <2>1 DEF CopiesOfStored, Listed
  <2>6. CopiesCurrent'
    BY <2>1, <2>2, <2>3 DEF CopiesCurrent
  <2>7. PassOnCopies'
    BY <1>3, <2>2, <2>3 DEF PassOnCopies, Listed
  <2>8. \A w : <<Scaler, w>> \in current' => <<Scaler, w>> \in current
    BY <2>1, ClusterAssumption
  <2>9. ScalerCurrent'
    BY ZenonT(30), <2>1, <2>8 DEF ScalerCurrent
  <2> QED
    BY <2>4, <2>5, <2>6, <2>7, <2>9
<1>4. ASSUME NEW c \in Controllers, Reconcile(c)
      PROVE  ScaleInv'
  <2>0. PICK w \in ctl[c].todo : \E pc, plan :
          ctl' = [ctl EXCEPT ![c] = [pc |-> pc, todo |-> ctl[c].todo, w |-> {w},
                                     copy |-> ctl[c].copy, plan |-> plan]]
    BY ZenonT(60), <1>4 DEF Reconcile
  <2>1. PICK pc, plan :
          ctl' = [ctl EXCEPT ![c] = [pc |-> pc, todo |-> ctl[c].todo, w |-> {w},
                                     copy |-> ctl[c].copy, plan |-> plan]]
    BY ZenonT(30), <2>0
  <2>2. UNCHANGED <<stored, current, scaler>>
    BY <1>4 DEF Reconcile, store, scaling
  <2>3. /\ ctl'[c].todo = ctl[c].todo /\ ctl'[c].copy = ctl[c].copy /\ ctl'[c].w = {w}
        /\ IsPass(ctl'[c])
        /\ \A d \in Controllers : d # c => ctl'[d] = ctl[d]
    BY ZenonT(30), <2>1 DEF Shape, IsPass
  <2>4. Under
    BY <2>2 DEF Under, Shape
  <2>5. Shape'
    BY SMTT(60), <2>1, <2>2, <2>3 DEF Shape
  <2>6. PassOnCopies'
    BY <2>3 DEF PassOnCopies
  <2> QED
    BY <2>2, <2>3, <2>4, <2>5, <2>6, KeepStored, KeepCopies, KeepScaler
<1>5. ASSUME NEW c \in Controllers, SetPlacements(c)
      PROVE  ScaleInv'
  <2>1. ctl' = [ctl EXCEPT ![c].pc = "update"] /\ UNCHANGED <<stored, current, scaler>>
    BY <1>5 DEF SetPlacements, scaling
  <2>2. /\ ctl'[c].todo = ctl[c].todo /\ ctl'[c].copy = ctl[c].copy /\ ctl'[c].w = ctl[c].w
        /\ IsPass(ctl'[c])
    BY <2>1 DEF Shape, IsPass
  <2>3. \A d \in Controllers : d # c => ctl'[d] = ctl[d]
    BY <2>1 DEF Shape
  <2>4. Under
    BY <2>1 DEF Under, Shape
  <2>5. Shape'
    BY <2>1, <2>2, <2>3 DEF Shape
  <2>6. PassOnCopies'
    BY <2>2, <2>3 DEF PassOnCopies
  <2> QED
    BY <2>1, <2>2, <2>3, <2>4, <2>5, <2>6, KeepStored, KeepCopies, KeepScaler
<1>6. ASSUME NEW c \in Controllers, UpdateStatus(c)
      PROVE  ScaleInv'
  <2>1. PICK w \in ctl[c].w : UpdateWorkload(c, w, ctl[c].copy[w]) /\ Continue(c, w)
    BY <1>6 DEF UpdateStatus
  <2>2. w \in Workloads /\ scaler' = scaler
    BY <1>6 DEF UpdateStatus, scaling, PassOnCopies
  <2>3. Under
    BY ZenonT(30), <2>1, <2>2, UpdateFacts DEF Under
  <2>4. /\ \A d \in Controllers : ctl'[d].copy = ctl[d].copy \/ ctl'[d].copy = <<>>
        /\ PassOnCopies'
        /\ ctl' = [d \in Controllers |-> ctl'[d]]
        /\ \A d \in Controllers : IsPass(ctl'[d])
    BY <2>1, ContinueFacts
  <2>5. Shape'
    BY <2>2, <2>3, <2>4 DEF Shape, Under
  <2> QED
    BY <2>2, <2>3, <2>4, <2>5, KeepStored, KeepCopies, KeepScaler
<1>7. ASSUME NEW c \in Controllers, ReconcileFails(c)
      PROVE  ScaleInv'
  <2>1. PICK w : Continue(c, w)
    BY <1>7 DEF ReconcileFails
  <2>2. UNCHANGED <<stored, current, scaler>>
    BY <1>7 DEF ReconcileFails, store, scaling
  <2>3. Under
    BY <2>2 DEF Under, Shape
  <2>4. /\ \A d \in Controllers : ctl'[d].copy = ctl[d].copy \/ ctl'[d].copy = <<>>
        /\ PassOnCopies'
        /\ ctl' = [d \in Controllers |-> ctl'[d]]
        /\ \A d \in Controllers : IsPass(ctl'[d])
    BY <2>1, ContinueFacts
  <2>5. Shape'
    BY <2>2, <2>4 DEF Shape
  <2> QED
    BY <2>2, <2>3, <2>4, <2>5, KeepStored, KeepCopies, KeepScaler
<1>8. ASSUME NEW c \in Controllers, ControllerCrash(c)
      PROVE  ScaleInv'
  <2>1. ctl' = [ctl EXCEPT ![c] = Idle] /\ UNCHANGED <<stored, current, scaler>>
    BY <1>8 DEF ControllerCrash, store, scaling
  <2>2. ctl'[c] = Idle /\ \A d \in Controllers : d # c => ctl'[d] = ctl[d]
    BY <2>1 DEF Shape
  <2>3. ctl'[c].copy = <<>> /\ ctl'[c].todo = {} /\ ctl'[c].w = {} /\ IsPass(ctl'[c])
    BY <2>2 DEF Idle, IsPass
  <2>4. DOMAIN ctl'[c].copy = {}
    BY <2>3
  <2>5. Under
    BY <2>1 DEF Under, Shape
  <2>6. Shape'
    BY <2>1, <2>2, <2>3 DEF Shape
  <2>7. PassOnCopies'
    BY <2>2, <2>3, <2>4 DEF PassOnCopies
  <2> QED
    BY <2>1, <2>2, <2>3, <2>5, <2>6, <2>7, KeepStored, KeepCopies, KeepScaler
<1>9. CASE Evaluate
  <2>1. UNCHANGED <<stored, current, ctl>>
    BY <1>9 DEF Evaluate, store
  <2>2. scaler'.pc = "next" /\ scaler'.todo \subseteq Workloads /\ IsEvaluation(scaler')
    BY <1>9 DEF Evaluate, Evaluating, IsEvaluation
  <2>3. ScalerCurrent'
    BY SMTT(60), <2>2 DEF ScalerCurrent
  <2> QED
    BY <2>1, <2>2, <2>3 DEF Shape, CopiesOfStored, CopiesCurrent, PassOnCopies
<1>10. CASE EvaluateOne
  <2>1. PICK w \in scaler.todo, avg \in Averages, cooling \in BOOLEAN : \E p \in scaler.rule[w] :
          LET want == Want(p, avg, stored[w].replicas)
          IN IF w \notin Listed \/ cooling \/ want = stored[w].replicas
               THEN NextSpec(w) /\ UNCHANGED current
               ELSE /\ scaler' = [pc |-> "write", todo |-> scaler.todo, w |-> {w},
                                  rule |-> scaler.rule,
                                  copy |-> [exists |-> TRUE, replicas |-> want]]
                    /\ current' = current \cup {<<Scaler, w>>}
    BY SMTT(60), <1>10 DEF EvaluateOne
  <2>2. PICK p \in scaler.rule[w] :
          \/ NextSpec(w) /\ UNCHANGED current
          \/ /\ w \in Listed
             /\ scaler' = [pc |-> "write", todo |-> scaler.todo, w |-> {w}, rule |-> scaler.rule,
                           copy |-> [exists |-> TRUE,
                                     replicas |-> Want(p, avg, stored[w].replicas)]]
             /\ current' = current \cup {<<Scaler, w>>}
    BY SMTT(60), <2>1
  <2>3. UNCHANGED <<stored, ctl>>
    BY <1>10 DEF EvaluateOne
  <2>4. CASE NextSpec(w) /\ UNCHANGED current
    BY <2>3, <2>4, NextSpecFacts DEF Shape, CopiesOfStored, CopiesCurrent, PassOnCopies
  <2>5. CASE /\ w \in Listed
             /\ scaler' = [pc |-> "write", todo |-> scaler.todo, w |-> {w}, rule |-> scaler.rule,
                           copy |-> [exists |-> TRUE,
                                     replicas |-> Want(p, avg, stored[w].replicas)]]
             /\ current' = current \cup {<<Scaler, w>>}
    <3>1. /\ scaler'.todo = scaler.todo /\ scaler'.w = {w} /\ scaler'.rule = scaler.rule
          /\ scaler'.copy.replicas = Want(p, avg, stored[w].replicas)
          /\ IsEvaluation(scaler')
      BY SMTT(60), <2>5 DEF IsEvaluation
    <3>2. ScalerCurrent'
      BY SMTT(60), <2>3, <3>1 DEF ScalerCurrent
    <3>3. CopiesCurrent'
      BY SMTT(60), <2>3, <2>5, ClusterAssumption DEF CopiesCurrent
    <3>4. CopiesOfStored'
      BY <2>3, <2>5 DEF CopiesOfStored, Listed
    <3> QED
      BY SMTT(60), <2>3, <3>1, <3>2, <3>3, <3>4 DEF Shape, PassOnCopies
  <2> QED
    BY SMTT(60), <2>2, <2>4, <2>5
<1>11. CASE Scale
  <2>1. PICK w \in scaler.w : UpdateWorkload(Scaler, w, scaler.copy) /\ NextSpec(w)
    BY <1>11 DEF Scale
  <2>2. w \in Workloads /\ ctl' = ctl
    BY ZenonT(30), <1>11, <2>1 DEF Scale, ScalerCurrent
  <2>3. Under
    BY ZenonT(30), <2>1, <2>2, UpdateFacts DEF Under
  <2>4. ScalerCurrent' /\ IsEvaluation(scaler')
    BY <2>1, NextSpecFacts
  <2> QED
    BY <2>2, <2>3, <2>4, KeepStored, KeepCopies DEF Shape, PassOnCopies, Under
<1>12. ASSUME NEW w \in Workloads, RemovePolicy(w) \/ \E p \in Policies : SetPolicy(w, p)
       PROVE  ScaleInv'
  BY <1>2, <1>12 DEF RemovePolicy, SetPolicy, store
<1>13. ASSUME NEW n \in Nodes, NEW d \in BOOLEAN, Heartbeat(n, d) \/ HeartbeatForgets(n, d)
       PROVE  ScaleInv'
  BY <1>2, <1>13 DEF Heartbeat, HeartbeatForgets, scaling
<1>14. CASE UNCHANGED vars
  BY <1>2, <1>14 DEF vars, store, scaling
<1> QED
  BY ZenonT(30), <1>1, <1>3, <1>4, <1>5, <1>6, <1>7, <1>8, <1>9, <1>10, <1>11, <1>12, <1>13, <1>14
     DEF Next, Pass, Tick, ReconcileOne, DrainFlag

\* Whatever the number of workloads, controllers, policies and faults, and
\* whoever believes to lead: no controller undoes a change of the replicas, and
\* the autoscaler's change starts from the replicas that were stored.
THEOREM ScaleKeptHolds == Spec => ScaleKept
<1> DEFINE Kept == \A w \in Workloads :
             (stored[w].exists /\ stored'[w].replicas # stored[w].replicas) =>
               /\ scaler.pc = "write" /\ scaler.w = {w} /\ scaler' # scaler
               /\ \E p \in scaler.rule[w], avg \in Averages :
                    stored'[w].replicas = Want(p, avg, stored[w].replicas)
<1>1. ScaleInv /\ [Next]_vars => [Kept]_vars
  <2> SUFFICES ASSUME ScaleInv, Next, NEW w \in Workloads,
                      stored[w].exists, stored'[w].replicas # stored[w].replicas
               PROVE  /\ scaler.pc = "write" /\ scaler.w = {w} /\ scaler' # scaler
                      /\ \E p \in scaler.rule[w], avg \in Averages :
                           stored'[w].replicas = Want(p, avg, stored[w].replicas)
    OBVIOUS
  <2> USE DEF ScaleInv
  <2>1. ~UNCHANGED stored
    OBVIOUS
  <2>2. ASSUME NEW v \in Workloads, CreateWorkload(v)
        PROVE  FALSE
    BY <2>2 DEF CreateWorkload, Listed, Shape
  <2>3. ASSUME NEW c \in Controllers, UpdateStatus(c)
        PROVE  FALSE
    <3>1. PICK v \in ctl[c].w : UpdateWorkload(c, v, ctl[c].copy[v])
      BY <2>3 DEF UpdateStatus
    <3>2. v \in Workloads /\ v \in DOMAIN ctl[c].copy
      BY DEF PassOnCopies
    <3>3. <<c, v>> \in current => ctl[c].copy[v] = stored[v]
      BY SMTT(60), <3>2 DEF CopiesCurrent
    <3> QED
      BY <3>1, <3>2, <3>3, UpdateFacts
  <2>4. CASE Scale
    <3>1. PICK v \in scaler.w : UpdateWorkload(Scaler, v, scaler.copy) /\ NextSpec(v)
      BY <2>4 DEF Scale
    <3>2. scaler.pc = "write" /\ scaler.w = {v} /\ v \in Workloads
      BY ZenonT(30), <2>4 DEF Scale, ScalerCurrent
    <3>3. stored'[w] = stored[w] \/ (w = v /\ <<Scaler, v>> \in current /\ stored'[w] = scaler.copy)
      BY <3>1, <3>2, UpdateFacts
    <3>4. scaler' # scaler
      BY <3>1, <3>2, NextSpecFacts
    <3>5. w = v /\ <<Scaler, w>> \in current /\ stored'[w].replicas = scaler.copy.replicas
      BY <3>3
    <3>6. \E p \in scaler.rule[w], avg \in Averages :
            scaler.copy.replicas = Want(p, avg, stored[w].replicas)
      BY ZenonT(60), <3>2, <3>5 DEF ScalerCurrent
    <3> QED
      BY <3>2, <3>4, <3>5, <3>6
  <2>5. ASSUME NEW c \in Controllers,
               Tick(c) \/ (\E v \in Workloads : ReconcileOne(c, v)) \/ Reconcile(c)
               \/ SetPlacements(c) \/ ReconcileFails(c) \/ ControllerCrash(c)
        PROVE  FALSE
    BY Zenon, <2>1, <2>5 DEF Tick, ReconcileOne, Begin, Reconcile, SetPlacements, ReconcileFails, ControllerCrash, store
  <2>6. ASSUME Evaluate \/ EvaluateOne
        PROVE  FALSE
    BY <2>1, <2>6 DEF Evaluate, EvaluateOne, store
  <2>7. ASSUME NEW v \in Workloads, RemovePolicy(v) \/ \E p \in Policies : SetPolicy(v, p)
        PROVE  FALSE
    BY SMTT(60), <2>1, <2>7 DEF RemovePolicy, SetPolicy, store
  <2>8. ASSUME NEW n \in Nodes, NEW d \in BOOLEAN, Heartbeat(n, d) \/ HeartbeatForgets(n, d)
        PROVE  FALSE
    BY <2>1, <2>8 DEF Heartbeat, HeartbeatForgets
  <2> QED
    BY SMTT(60), <2>2, <2>3, <2>4, <2>5, <2>6, <2>7, <2>8 DEF Next, Pass, DrainFlag
<1> QED
  BY <1>1, ScaleInit, ScaleStep, PTL DEF Spec, ScaleKept

-----------------------------------------------------------------------------
(* Plan.                                                                    *)

INSTANCE FiniteSetTheorems

\* The least of some naturals.
LEMMA Least ==
  ASSUME NEW T, T \subseteq Nat, T # {}
  PROVE  \E x \in T : \A y \in T : x <= y
<1> DEFINE R == OpToRel(<, Nat)
<1>1. IsWellFoundedOn(R, Nat)
  BY ZenonT(60), NatLessThanWellFounded
<1>2. \A x, y : (x \in Nat /\ y \in Nat /\ x < y) => <<x, y>> \in R
  BY DEF OpToRel
<1> HIDE DEF R
<1>3. PICK x \in T : \A y \in T : ~ (<<y, x>> \in R)
  BY ZenonT(60), <1>1, WFMin
<1>4. ASSUME NEW y \in T
      PROVE  x <= y
  <2>1. ~ (y < x)
    BY ZenonT(60), <1>2, <1>3
  <2> QED
    BY <2>1
<1> QED
  BY <1>4

\* R puts the elements of D in one row.
StrictOrder(R, D) ==
  /\ \A i \in D : <<i, i>> \notin R
  /\ \A i, j \in D : i # j => (<<i, j>> \in R \/ <<j, i>> \in R)
  /\ \A i, j, k \in D : (<<i, j>> \in R /\ <<j, k>> \in R) => <<i, k>> \in R

Preceding(R, D, i) == {j \in D : <<j, i>> \in R}

\* Every place of the row has its element.
LEMMA Ranks ==
  ASSUME NEW D, IsFiniteSet(D), NEW R, StrictOrder(R, D)
  PROVE  /\ \A i \in D : Cardinality(Preceding(R, D, i)) \in 0..(Cardinality(D) - 1)
         /\ \A i, j \in D : <<i, j>> \in R <=> Cardinality(Preceding(R, D, i)) < Cardinality(Preceding(R, D, j))
         /\ \A r \in 0..(Cardinality(D) - 1) : \E i \in D : Cardinality(Preceding(R, D, i)) = r
<1> DEFINE N == Cardinality(D)
           rank(i) == Cardinality(Preceding(R, D, i))
<1>0. N \in Nat
  BY FS_CardinalityType
<1>1. ASSUME NEW i \in D
      PROVE  rank(i) \in 0..(N - 1) /\ IsFiniteSet(Preceding(R, D, i))
  <2>1. Preceding(R, D, i) \in SUBSET D /\ i \notin Preceding(R, D, i)
    BY DEF Preceding, StrictOrder
  <2>2. IsFiniteSet(Preceding(R, D, i)) /\ rank(i) <= N /\ rank(i) # N
    BY <2>1, FS_Subset
  <2>3. rank(i) \in Nat
    BY <2>2, FS_CardinalityType
  <2> QED
    BY <1>0, <2>2, <2>3
<1>2. ASSUME NEW i \in D, NEW j \in D, <<i, j>> \in R
      PROVE  rank(i) < rank(j)
  <2>1. Preceding(R, D, i) \in SUBSET Preceding(R, D, j)
    BY <1>2 DEF Preceding, StrictOrder
  <2>2. i \in Preceding(R, D, j) /\ i \notin Preceding(R, D, i)
    BY SMTT(60), <1>2 DEF Preceding, StrictOrder
  <2>3. rank(i) <= rank(j) /\ rank(i) # rank(j)
    BY SMTT(60), <1>1, <2>1, <2>2, FS_Subset
  <2> QED
    BY <1>1, <2>3
<1>3. ASSUME NEW i \in D, NEW j \in D
      PROVE  <<i, j>> \in R <=> rank(i) < rank(j)
  <2>1. CASE <<i, j>> \in R
    BY SMTT(60), <1>2, <2>1
  <2>2. CASE i = j
    BY SMTT(60), <1>1, <2>2 DEF StrictOrder
  <2>3. CASE <<j, i>> \in R
    <3>1. <<i, j>> \notin R
      BY ZenonT(60), <2>3 DEF StrictOrder
    <3>2. rank(j) < rank(i)
      BY <1>2, <2>3
    <3> HIDE DEF rank
    <3> QED
      BY SMTT(60), <1>1, <3>1, <3>2
  <2> QED
    BY SMTT(60), <2>1, <2>2, <2>3 DEF StrictOrder
<1>4. ASSUME NEW r \in 0..(N - 1)
      PROVE  \E i \in D : rank(i) = r
  <2> DEFINE f == [i \in D |-> rank(i)]
  <2>1. \A i, j \in D : rank(i) = rank(j) => i = j
    <3> SUFFICES ASSUME NEW i \in D, NEW j \in D, rank(i) = rank(j), i # j
                 PROVE  FALSE
      OBVIOUS
    <3>1. rank(i) < rank(j) \/ rank(j) < rank(i)
      BY ZenonT(60), <1>2 DEF StrictOrder
    <3> HIDE DEF rank
    <3> QED
      BY <1>1, <3>1
  <2>2. f \in Injection(D, 0..(N - 1))
    BY <1>1, <2>1 DEF Injection, IsInjective
  <2>3. IsFiniteSet(0..(N - 1)) /\ Cardinality(0..(N - 1)) = N
    BY <1>0, FS_Interval
  <2>4. f \in Surjection(D, 0..(N - 1))
    BY SMTT(60), <2>2, <2>3, FS_Injection
  <2> QED
    BY ZenonT(60), <2>4 DEF Surjection
<1> QED
  BY <1>1, <1>3, <1>4

\* t lists the n elements of s at the indices D, each once and in the order R: f
\* says where the k-th came from.
Row(t, n, s, D, R) ==
  \E f \in [1..n -> D] :
    /\ t = [k \in 1..n |-> s[f[k]]]
    /\ \A i \in D : \E k \in 1..n : f[k] = i
    /\ \A k, l \in 1..n : k < l <=> <<f[k], f[l]>> \in R

LEMMA ArrangeFacts ==
  ASSUME NEW s, NEW D, IsFiniteSet(D), NEW R, StrictOrder(R, D)
  PROVE  Row(Arrange(s, D, R), Cardinality(D), s, D, R)
<1> DEFINE N == Cardinality(D)
           rank(i) == Cardinality(Preceding(R, D, i))
           f == [k \in 1..N |-> CHOOSE i \in D : rank(i) = k - 1]
<1>0. N \in Nat
  BY SMTT(60), FS_CardinalityType
<1>1. /\ \A i \in D : rank(i) \in 0..(N - 1)
      /\ \A i, j \in D : <<i, j>> \in R <=> rank(i) < rank(j)
      /\ \A r \in 0..(N - 1) : \E i \in D : rank(i) = r
  BY Ranks
<1>2. Arrange(s, D, R) = [k \in 1..N |-> s[f[k]]]
  BY DEF Arrange, Preceding
<1>5. \A i, j \in D : rank(i) = rank(j) => i = j
  <2> SUFFICES ASSUME NEW i \in D, NEW j \in D, rank(i) = rank(j), i # j
               PROVE  FALSE
    OBVIOUS
  <2>1. rank(i) < rank(j) \/ rank(j) < rank(i)
    BY ZenonT(60), <1>1 DEF StrictOrder
  <2> HIDE DEF rank
  <2> QED
    BY <1>1, <2>1
<1> HIDE DEF N, rank
<1>3. ASSUME NEW k \in 1..N
      PROVE  f[k] \in D /\ rank(f[k]) = k - 1
  <2>1. k - 1 \in 0..(N - 1)
    BY <1>0
  <2>2. \E i \in D : rank(i) = k - 1
    BY <1>1, <2>1
  <2> QED
    BY <2>2
<1>4. f \in [1..N -> D]
  BY <1>3
<1>6. ASSUME NEW i \in D
      PROVE  \E k \in 1..N : f[k] = i
  <2>1. rank(i) + 1 \in 1..N /\ (rank(i) + 1) - 1 = rank(i)
    BY SMTT(60), <1>0, <1>1
  <2>2. f[rank(i) + 1] = i
    BY SMTT(60), <1>3, <1>5, <2>1
  <2> QED
    BY <2>1, <2>2
<1>7. ASSUME NEW k \in 1..N, NEW l \in 1..N
      PROVE  k < l <=> <<f[k], f[l]>> \in R
  <2>1. <<f[k], f[l]>> \in R <=> k - 1 < l - 1
    BY <1>1, <1>3 
  <2> QED
    BY SMTT(60), <1>0, <2>1
<1> HIDE DEF f
<1> QED
  BY ZenonT(60), <1>2, <1>4, <1>6, <1>7 DEF N, Row

-----------------------------------------------------------------------------
\* What the assumption says of a list of nodes.
NodeList(s) ==
  /\ Len(s) \in Nat /\ DOMAIN s = 1..Len(s)
  /\ \A i \in DOMAIN s : s[i].cpu \in Nat /\ s[i].mem \in Nat /\ s[i].cpuUsed \in Nat /\ s[i].memUsed \in Nat

\* Products of larger factors are larger, as far as score needs it.
LEMMA Scaled ==
  ASSUME NEW x \in Int, NEW y \in Int, NEW c \in Int, c > 0
  PROVE  x > y <=> x * c > y * c
<1>1. ASSUME x > y
      PROVE  x * c > y * c
  <2>1. (x - y) * c >= 1
    BY <1>1, SMTT(30)
  <2>2. (x - y) * c = x * c - y * c
    OBVIOUS
  <2>3. x * c \in Int /\ y * c \in Int
    OBVIOUS
  <2> QED
    BY <2>1, <2>2, <2>3
<1>2. ASSUME ~(x > y)
      PROVE  ~(x * c > y * c)
  <2>1. (y - x) * c >= 0
    BY <1>2, SMTT(30)
  <2>2. (y - x) * c = y * c - x * c
    OBVIOUS
  <2>3. x * c \in Int /\ y * c \in Int
    OBVIOUS
  <2> QED
    BY <2>1, <2>2, <2>3
<1> QED
  BY <1>1, <1>2

\* A share a/t that is larger than b/u, and b/u not smaller than c/v: a/t is
\* larger than c/v.  And the other way round.
LEMMA Shares ==
  ASSUME NEW a \in Int, NEW b \in Int, NEW c \in Int,
         NEW t \in Int, NEW u \in Int, NEW v \in Int, t > 0, u > 0, v > 0
  PROVE  /\ (a * u > b * t /\ ~(c * u > b * v)) => a * v > c * t
         /\ (~(b * t > a * u) /\ b * v > c * u) => a * v > c * t
<1> DEFINE au == a * u
           bt == b * t
           cu == c * u
           bv == b * v
           av == a * v
           ct == c * t
<1>1. au \in Int /\ bt \in Int /\ cu \in Int /\ bv \in Int /\ av \in Int /\ ct \in Int
  OBVIOUS
<1>2. au * v = av * u /\ bt * v = bv * t /\ cu * t = ct * u
  OBVIOUS
<1>3. (au > bt <=> au * v > bt * v) /\ (bt > au <=> bt * v > au * v)
  BY SMTT(60), <1>1, Scaled
<1>4. (cu > bv <=> cu * t > bv * t) /\ (bv > cu <=> bv * t > cu * t)
  BY <1>1, Scaled
<1>5. av > ct <=> av * u > ct * u
  BY SMTT(60), <1>1, Scaled
<1>6. au * v \in Int /\ bt * v \in Int /\ cu * t \in Int
  BY <1>1
<1> HIDE DEF au, bt, cu, bv, av, ct
<1>7. (au > bt /\ ~(cu > bv)) => av > ct
  BY SMTT(60), <1>2, <1>3, <1>4, <1>5, <1>6
<1>8. (~(bt > au) /\ bv > cu) => av > ct
  BY SMTT(60), <1>2, <1>3, <1>4, <1>5, <1>6
<1> QED
  BY <1>7, <1>8 DEF au, bt, cu, bv, av, ct

\* The order of the stable sort is one.
LEMMA BeforeOrders ==
  ASSUME NEW s, NodeList(s)
  PROVE  StrictOrder({e \in (DOMAIN s) \X (DOMAIN s) : Before(s, e[1], e[2])}, DOMAIN s)
<1> DEFINE D == DOMAIN s
           R == {e \in D \X D : Before(s, e[1], e[2])}
<1>1. \A i, j \in D : <<i, j>> \in R <=> Before(s, i, j)
  OBVIOUS
<1>2. \A i \in D : Avail(s[i]) \in Int /\ Total(s[i]) \in Int /\ Total(s[i]) > 0
  BY SMTT(60) DEF NodeList, Avail, Total, FreeCPU, FreeMem
<1>3. D \subseteq Int
  BY DEF NodeList
<1>4. ASSUME NEW i \in D, NEW j \in D
      PROVE  ~(Better(s[i], s[j]) /\ Better(s[j], s[i]))
  <2>1. Avail(s[i]) * Total(s[j]) \in Int /\ Avail(s[j]) * Total(s[i]) \in Int
    BY SMTT(60), <1>2
  <2> QED
    BY <2>1 DEF Better
<1>5. ASSUME NEW i \in D, NEW j \in D, NEW k \in D
      PROVE  /\ Better(s[i], s[j]) /\ ~Better(s[k], s[j]) => Better(s[i], s[k])
             /\ ~Better(s[j], s[i]) /\ Better(s[j], s[k]) => Better(s[i], s[k])
  BY SMTT(60), <1>2, Shares DEF Better
<1>6. \A i \in D : ~Before(s, i, i)
  BY SMTT(60), <1>3, <1>4 DEF Before
<1>7. \A i, j \in D : i # j => Before(s, i, j) \/ Before(s, j, i)
  BY SMTT(60), <1>3, <1>4 DEF Before
<1>8. ASSUME NEW i \in D, NEW j \in D, NEW k \in D, Before(s, i, j), Before(s, j, k)
      PROVE  Before(s, i, k)
  <2>1. CASE Better(s[i], s[j])
    BY SMTT(60), <1>4, <1>5, <1>8, <2>1 DEF Before
  <2>2. CASE ~Better(s[j], s[i]) /\ i < j
    <3>1. CASE Better(s[j], s[k])
      BY SMTT(60), <1>5, <2>2, <3>1 DEF Before
    <3>2. CASE ~Better(s[k], s[j]) /\ j < k
      <4>1. ~Better(s[k], s[i])
        BY <1>5, <2>2, <3>2
      <4>2. i < k
        BY <1>3, <2>2, <3>2
      <4> QED
        BY SMTT(60), <4>1, <4>2 DEF Before
    <3> QED
      BY SMTT(60), <1>8, <3>1, <3>2 DEF Before
  <2> QED
    BY SMTT(60), <1>8, <2>1, <2>2 DEF Before
<1> HIDE DEF R
<1> QED
  BY SMTT(60), <1>1, <1>6, <1>7, <1>8 DEF StrictOrder, R

LEMMA InOrderOrders ==
  ASSUME NEW D, D \subseteq Nat
  PROVE  StrictOrder(InOrder(D), D)
BY DEF StrictOrder, InOrder

-----------------------------------------------------------------------------
FittingIn(s, w) == {i \in DOMAIN s : Fits(s[i], w)}

\* sc lists the nodes that fit, each once, the better ones and among equals the
\* earlier ones first.
InTurn(s, w, sc, len, h) ==
  /\ h \in [1..len -> FittingIn(s, w)]
  /\ sc = [k \in 1..len |-> s[h[k]]]
  /\ \A i \in FittingIn(s, w) : \E k \in 1..len : h[k] = i
  /\ \A k, l \in 1..len : k < l <=> Before(s, h[k], h[l])

\* Plan goes through the list in this order.
LEMMA ScoredFacts ==
  ASSUME NEW s, NEW w, NodeList(s)
  PROVE  \E len \in Nat : \E h : InTurn(s, w, Score(Filter(s, w)), len, h)
<1> DEFINE D == FittingIn(s, w)
           len == Cardinality(D)
           filtered == Filter(s, w)
<1>1. IsFiniteSet(D) /\ D \subseteq Nat /\ D \subseteq DOMAIN s
  <2>0. 1 \in Int /\ Len(s) \in Int
    BY DEF NodeList
  <2>1. IsFiniteSet(1..Len(s))
    BY Zenon, <2>0, FS_Interval
  <2>2. D \in SUBSET (1..Len(s))
    BY DEF NodeList, FittingIn
  <2> QED
    BY <2>1, <2>2, FS_Subset DEF NodeList
<1>2. len \in Nat
  BY <1>1, FS_CardinalityType
<1>3. filtered = Arrange(s, D, InOrder(D))
  BY DEF Filter, FittingIn
<1> HIDE DEF D, filtered
<1>4. PICK f \in [1..len -> D] :
        /\ filtered = [k \in 1..len |-> s[f[k]]]
        /\ \A i \in D : \E k \in 1..len : f[k] = i
        /\ \A k, l \in 1..len : k < l <=> <<f[k], f[l]>> \in InOrder(D)
  <2>1. StrictOrder(InOrder(D), D)
    BY ZenonT(60), <1>1, InOrderOrders
  <2>2. Row(filtered, len, s, D, InOrder(D))
    BY <1>1, <1>3, <2>1, ArrangeFacts
  <2> QED
    BY Zenon, <2>2 DEF Row
<1>5. \A k, l \in 1..len : k < l <=> f[k] < f[l]
  BY ZenonT(60), <1>4 DEF InOrder
<1> HIDE DEF len
<1>6. filtered \in Seq({s[i] : i \in D}) /\ Len(filtered) = len /\ DOMAIN filtered = 1..len
  BY <1>2, <1>4
<1>7. NodeList(filtered)
  <2>1. \A k \in 1..len : f[k] \in DOMAIN s /\ filtered[k] = s[f[k]]
    BY ZenonT(60), <1>1, <1>4
  <2> QED
    BY <1>2, <1>6, <2>1 DEF NodeList
<1> DEFINE B == {e \in (1..len) \X (1..len) : Before(filtered, e[1], e[2])}
<1>8. Score(filtered) = Arrange(filtered, 1..len, B)
  BY <1>6 DEF Score
<1>9. IsFiniteSet(1..len) /\ Cardinality(1..len) = len
  BY <1>2, FS_Interval
<1>10. StrictOrder(B, 1..len)
  BY <1>6, <1>7, BeforeOrders
<1>11. PICK g \in [1..len -> 1..len] :
        /\ Score(filtered) = [k \in 1..len |-> filtered[g[k]]]
        /\ \A i \in 1..len : \E k \in 1..len : g[k] = i
        /\ \A k, l \in 1..len : k < l <=> <<g[k], g[l]>> \in B
  <2> HIDE DEF B
  <2>1. Row(Score(filtered), len, filtered, 1..len, B)
    BY SMTT(60), <1>8, <1>9, <1>10, ArrangeFacts
  <2> QED
    BY Zenon, <2>1 DEF Row
<1> DEFINE h == [k \in 1..len |-> f[g[k]]]
<1>12. h \in [1..len -> D]
  BY SMTT(60), <1>4, <1>11
<1>13. Score(filtered) = [k \in 1..len |-> s[h[k]]]
  BY ZenonT(60), <1>4, <1>11
<1>14. ASSUME NEW i \in D
       PROVE  \E k \in 1..len : h[k] = i
  BY SMTT(60), <1>4, <1>11
<1>15. ASSUME NEW k \in 1..len, NEW l \in 1..len
       PROVE  k < l <=> Before(s, h[k], h[l])
  <2>1. g[k] \in 1..len /\ g[l] \in 1..len
    BY ZenonT(60), <1>11
  <2>2. filtered[g[k]] = s[h[k]] /\ filtered[g[l]] = s[h[l]]
    BY <1>4, <2>1
  <2>3. g[k] < g[l] <=> h[k] < h[l]
    BY <1>5, <2>1
  <2>4. k < l <=> Before(filtered, g[k], g[l])
    BY ZenonT(60), <1>11, <2>1
  <2> HIDE DEF h
  <2> QED
    BY <2>2, <2>3, <2>4 DEF Before
<1> HIDE DEF h
<1> QED
  BY ZenonT(60), <1>2, <1>12, <1>13, <1>14, <1>15 DEF D, filtered, InTurn

-----------------------------------------------------------------------------
\* The list that Plan goes through: no two nodes in it have the same ID.
Scored(sc) ==
  /\ \E len \in Nat : DOMAIN sc = 1..len
  /\ \A k, l \in DOMAIN sc : sc[k].id = sc[l].id => k = l

DistinctIds(s) == \A i, j \in DOMAIN s : s[i].id = s[j].id => i = j

LEMMA ScoredDistinct ==
  ASSUME NEW s, NEW w, NEW sc, NEW len \in Nat, NEW h, DistinctIds(s), InTurn(s, w, sc, len, h)
  PROVE  Scored(sc)
<1>1. ASSUME NEW k \in 1..len, NEW l \in 1..len, s[h[k]].id = s[h[l]].id
      PROVE  k = l
  <2>1. h[k] = h[l]
    BY <1>1 DEF DistinctIds, FittingIn, InTurn
  <2>2. ~Before(s, h[k], h[l]) /\ ~Before(s, h[l], h[k])
    <3>1. ~(k < k)
      OBVIOUS
    <3> QED
      BY <2>1, <3>1 DEF InTurn
  <2>3. ~(k < l) /\ ~(l < k)
    BY <2>2 DEF InTurn
  <2> QED
    BY <2>3
<1> QED
  BY <1>1 DEF Scored, InTurn

On(ps, sc, k) == Cardinality(OnNode(ps, sc[k].id))

\* After i rounds of the loop of Plan.
Placing(sc, w, i, ps) ==
  /\ ps \in Seq({sc[k].id : k \in DOMAIN sc})
  /\ Len(ps) <= i
  /\ \A k \in DOMAIN sc : On(ps, sc, k) <= MaxPerNode(w, sc[k])
  /\ Len(ps) < i => \A k \in DOMAIN sc : On(ps, sc, k) = MaxPerNode(w, sc[k])
  /\ \A k, l \in DOMAIN sc : (l < k /\ On(ps, sc, k) > 0) => On(ps, sc, l) = MaxPerNode(w, sc[l])

\* One replica more on the node x.
LEMMA OneMore ==
  ASSUME NEW S, NEW ps \in Seq(S), NEW x \in S, NEW id
  PROVE  /\ Cardinality(OnNode(ps, id)) \in Nat
         /\ Cardinality(OnNode(Append(ps, x), id)) = Cardinality(OnNode(ps, id)) + (IF x = id THEN 1 ELSE 0)
<1> DEFINE n == Len(ps)
<1>1. n \in Nat /\ DOMAIN ps = 1..n
  OBVIOUS
<1>2. IsFiniteSet(1..n)
  BY <1>1, FS_Interval
<1>3. OnNode(ps, id) \in SUBSET (1..n) /\ n + 1 \notin OnNode(ps, id)
  BY <1>1 DEF OnNode
<1>4. IsFiniteSet(OnNode(ps, id))
  BY <1>2, <1>3, FS_Subset
<1>5. Cardinality(OnNode(ps, id)) \in Nat
  BY SMTT(60), <1>4, FS_CardinalityType
<1>6. OnNode(Append(ps, x), id) = IF x = id THEN OnNode(ps, id) \cup {n + 1} ELSE OnNode(ps, id)
  BY SMTT(60), <1>1 DEF OnNode
<1>7. Cardinality(OnNode(ps, id) \cup {n + 1}) = Cardinality(OnNode(ps, id)) + 1
  BY ZenonT(60), <1>3, <1>4, FS_AddElement
<1> QED
  BY <1>5, <1>6, <1>7

LEMMA PlaceOneFacts ==
  ASSUME NEW sc, NEW w, NEW i \in Nat, NEW ps, Scored(sc), Placing(sc, w, i, ps),
         \A k \in DOMAIN sc : MaxPerNode(w, sc[k]) \in Nat
  PROVE  Placing(sc, w, i + 1, PlaceOne(sc, w, ps))
<1> DEFINE S == {sc[k].id : k \in DOMAIN sc}
           room == {k \in DOMAIN sc : On(ps, sc, k) < MaxPerNode(w, sc[k])}
           first == CHOOSE k \in room : \A l \in room : k <= l
<1>1. /\ ps \in Seq(S) /\ Len(ps) \in Nat
      /\ DOMAIN sc \subseteq Nat
      /\ \A k \in DOMAIN sc : On(ps, sc, k) \in Nat
  <2>1. ps \in Seq(S) /\ DOMAIN sc \subseteq Nat
    BY DEF Placing, Scored
  <2>2. ASSUME NEW k \in DOMAIN sc
        PROVE  On(ps, sc, k) \in Nat
    <3>1. sc[k].id \in S
      OBVIOUS
    <3> QED
      BY ZenonT(60), <2>1, <3>1, OneMore DEF On
  <2> QED
    BY <2>1, <2>2
<1>2. PlaceOne(sc, w, ps) = IF room = {} THEN ps ELSE Append(ps, sc[first].id)
  BY DEF PlaceOne, On
<1>3. CASE room = {}
  <2>1. \A k \in DOMAIN sc : On(ps, sc, k) = MaxPerNode(w, sc[k])
    BY SMTT(60), <1>1, <1>3 DEF Placing
  <2> QED
    BY <1>1, <1>2, <1>3, <2>1 DEF Placing
<1>4. CASE room # {}
  <2> DEFINE qs == Append(ps, sc[first].id)
  <2>1. \E k \in room : \A l \in room : k <= l
    BY ZenonT(60), <1>1, <1>4, Least
  <2>2. first \in room /\ \A l \in room : first <= l
    BY <2>1
  <2> HIDE DEF first
  <2>3. /\ first \in DOMAIN sc /\ On(ps, sc, first) < MaxPerNode(w, sc[first])
        /\ \A l \in DOMAIN sc : l < first => On(ps, sc, l) = MaxPerNode(w, sc[l])
    <3>1. \A l \in DOMAIN sc : l < first => l \notin room
      BY <1>1, <2>2
    <3> QED
      BY SMTT(60), <1>1, <2>2, <3>1 DEF Placing
  <2>4. Len(ps) = i
    BY SMTT(60), <1>1, <2>3 DEF Placing
  <2>5. sc[first].id \in S
    BY <2>3
  <2>6. qs \in Seq(S) /\ Len(qs) = i + 1
    BY SMTT(60), <1>1, <2>4, <2>5
  <2>7. ASSUME NEW k \in DOMAIN sc
        PROVE  On(qs, sc, k) = On(ps, sc, k) + (IF k = first THEN 1 ELSE 0)
    <3>1. sc[first].id = sc[k].id <=> k = first
      BY <2>3 DEF Scored
    <3> DEFINE x == sc[first].id
               id == sc[k].id
    <3> HIDE DEF S, x, id
    <3>2. Cardinality(OnNode(Append(ps, x), id)) = Cardinality(OnNode(ps, id)) + (IF x = id THEN 1 ELSE 0)
      <4>1. ps \in Seq(S) /\ x \in S
        BY SMTT(60), <1>1, <2>5 DEF x
      <4> QED
        BY <4>1, OneMore
    <3> QED
      BY <3>1, <3>2 DEF On, x, id
  <2> HIDE DEF qs
  <2>8. \A k \in DOMAIN sc : On(qs, sc, k) <= MaxPerNode(w, sc[k])
    BY SMTT(60), <1>1, <2>3, <2>7 DEF Placing
  <2>9. ASSUME NEW k \in DOMAIN sc, NEW l \in DOMAIN sc, l < k, On(qs, sc, k) > 0
        PROVE  On(qs, sc, l) = MaxPerNode(w, sc[l])
    <3>1. CASE k = first
      BY <1>1, <2>3, <2>7, <2>9, <3>1
    <3>2. CASE k # first
      <4>1. On(ps, sc, k) > 0
        BY <1>1, <2>7, <2>9, <3>2
      <4>2. On(ps, sc, l) = MaxPerNode(w, sc[l])
        BY <2>9, <4>1 DEF Placing
      <4>3. l # first
        BY <1>1, <2>3, <4>2
      <4> QED
        BY <1>1, <2>7, <4>2, <4>3
    <3> QED
      BY <3>1, <3>2
  <2>10. PlaceOne(sc, w, ps) = qs
    BY <1>2, <1>4 DEF qs
  <2> QED
    BY SMTT(60), <2>6, <2>8, <2>9, <2>10 DEF Placing
<1> QED
  BY <1>3, <1>4

\* The rounds of the loop of Plan, up to the n-th.
Rounds(sc, w, n, f) == f = [i \in 0..n |-> IF i = 0 THEN <<>> ELSE PlaceOne(sc, w, f[i - 1])]

\* The recursion in Place defines a function.
LEMMA RoundsExist ==
  ASSUME NEW sc, NEW w
  PROVE  \A n \in Nat : \E f : Rounds(sc, w, n, f)
<1> DEFINE T == {n \in Nat : ~\E f : Rounds(sc, w, n, f)}
<1> SUFFICES ASSUME T # {}
             PROVE  FALSE
  OBVIOUS
<1>1. PICK m \in T : \A n \in T : m <= n
  BY ZenonT(60), Least
<1>2. CASE m = 0
  <2> DEFINE f == [i \in 0..0 |-> <<>>]
  <2>1. Rounds(sc, w, 0, f)
    BY DEF Rounds
  <2> QED
    BY <1>2, <2>1
<1>3. CASE m # 0
  <2>1. m \in Nat /\ m - 1 \in Nat /\ m - 1 \notin T
    BY <1>1, <1>3
  <2>2. PICK f : Rounds(sc, w, m - 1, f)
    BY SMTT(60), <2>1
  <2> DEFINE g == [i \in 0..m |-> IF i = m THEN PlaceOne(sc, w, f[m - 1]) ELSE f[i]]
             e(i) == IF i = 0 THEN <<>> ELSE PlaceOne(sc, w, g[i - 1])
  <2>3. ASSUME NEW i \in 0..m
        PROVE  g[i] = e(i)
    <3>1. CASE i = m
      <4>1. g[i - 1] = f[m - 1]
        BY SMTT(60), <1>3, <2>1, <3>1
      <4> QED
        BY <1>3, <3>1, <4>1
    <3>2. CASE i # m
      <4>1. i \in 0..(m - 1) /\ g[i] = f[i]
        BY <2>1, <3>2
      <4>2. f[i] = IF i = 0 THEN <<>> ELSE PlaceOne(sc, w, f[i - 1])
        BY <2>2, <4>1 DEF Rounds
      <4>3. i # 0 => g[i - 1] = f[i - 1]
        BY SMTT(60), <2>1, <3>2
      <4> QED
        BY <4>1, <4>2, <4>3
    <3> QED
      BY SMTT(60), <3>1, <3>2
  <2>4. g = [i \in 0..m |-> e(i)]
    BY <2>3
  <2>5. Rounds(sc, w, m, g)
    <3> HIDE DEF g
    <3> QED
      BY <2>4 DEF Rounds
  <2> QED
    BY <2>1, <2>5
<1> QED
  BY <1>2, <1>3

LEMMA PlaceFacts ==
  ASSUME NEW sc, NEW w, w.replicas \in Nat, Scored(sc),
         \A k \in DOMAIN sc : MaxPerNode(w, sc[k]) \in Nat
  PROVE  Placing(sc, w, w.replicas, Place(sc, w))
<1> DEFINE n == w.replicas
           f == CHOOSE g : Rounds(sc, w, n, g)
<1>1. Place(sc, w) = f[n]
  BY DEF Place, Rounds
<1>2. Rounds(sc, w, n, f)
  BY RoundsExist
<1> HIDE DEF n, f
<1>3. n \in Nat
  BY DEF n
<1>4. f[0] = <<>> /\ \A i \in 0..n : i # 0 => f[i] = PlaceOne(sc, w, f[i - 1])
  BY <1>2, <1>3 DEF Rounds
<1>5. Placing(sc, w, 0, <<>>)
  <2>1. \A k \in DOMAIN sc : On(<<>>, sc, k) = 0
    BY FS_EmptySet DEF On, OnNode
  <2> QED
    BY <2>1 DEF Placing
<1> DEFINE T == {i \in 0..n : ~Placing(sc, w, i, f[i])}
<1>6. T = {}
  <2> SUFFICES ASSUME T # {}
               PROVE  FALSE
    OBVIOUS
  <2>1. PICK m \in T : \A i \in T : m <= i
    <3>1. T \subseteq Nat
      BY <1>3
    <3> HIDE DEF T
    <3> QED
      BY ZenonT(60), <3>1, Least
  <2>2. m # 0
    BY <1>4, <1>5
  <2>3. m - 1 \in 0..n /\ m - 1 \in Nat /\ m - 1 \notin T
    BY <1>3, <2>1, <2>2
  <2>4. Placing(sc, w, m - 1, f[m - 1])
    BY <2>3
  <2>5. Placing(sc, w, (m - 1) + 1, PlaceOne(sc, w, f[m - 1]))
    BY SMTT(60), <2>3, <2>4, PlaceOneFacts
  <2>6. (m - 1) + 1 = m /\ f[m] = PlaceOne(sc, w, f[m - 1])
    BY <1>3, <1>4, <2>2
  <2> QED
    BY <2>5, <2>6
<1> QED
  BY <1>1, <1>3, <1>6 DEF n

-----------------------------------------------------------------------------
\* What the assumption says of the argument.
WorkloadOK == workload.replicas \in Nat /\ workload.cpu \in Nat /\ workload.mem \in Nat /\ workload.anti \in BOOLEAN

\* maxPerNode is the room of a node that passed the filter.
LEMMA MaxIsRoom ==
  ASSUME WorkloadOK, NEW n, n.cpu \in Nat, n.cpuUsed \in Nat, Fits(n, workload)
  PROVE  /\ MaxPerNode(workload, n) = Room(n)
         /\ Room(n) \in Nat
<1> DEFINE most == IF workload.anti THEN 1 ELSE PerNodeCap
           free == FreeCPU(n)
           cpu == workload.cpu
           c == free \div cpu
           carried == {k \in 0..most : k * cpu <= free}
           mpn == MaxPerNode(workload, n)
<1>1. free \in Nat /\ cpu \in Nat /\ free >= cpu
  BY DEF Fits, FreeCPU, WorkloadOK
<1>2. mpn \in carried /\ \A l \in carried : l <= mpn
  <2>1. CASE workload.anti
    BY <1>1, <2>1 DEF MaxPerNode
  <2>2. CASE ~workload.anti /\ cpu = 0
    BY <1>1, <2>2 DEF MaxPerNode, PerNodeCap
  <2>3. CASE ~workload.anti /\ cpu # 0
    <3> HIDE DEF free, cpu
    <3>1. c \in Nat /\ c * cpu <= free /\ free < (c + 1) * cpu
      BY <1>1, <2>3
    <3>2. c >= 1
      <4> SUFFICES ASSUME c = 0
                   PROVE  FALSE
        BY <3>1
      <4> QED
        BY <1>1, <3>1
    <3>3. mpn = IF c > 4 THEN 4 ELSE c
      BY <2>3, <3>1, <3>2 DEF MaxPerNode, PerNodeCap, free, cpu
    <3> HIDE DEF c, mpn
    <3>4. most = 4
      BY <2>3 DEF PerNodeCap
    <3>5. CASE c > 4
      <4>1. 4 * cpu <= c * cpu
        BY <1>1, <3>1, <3>5
      <4>2. 4 * cpu <= free
        BY <1>1, <3>1, <4>1
      <4> QED
        BY <3>3, <3>4, <3>5, <4>2
    <3>6. CASE c <= 4
      <4>1. ASSUME NEW l \in 0..4, l * cpu <= free
            PROVE  l <= c
        <5> SUFFICES ASSUME l >= c + 1
                     PROVE  FALSE
          BY <3>1
        <5>1. (c + 1) * cpu <= l * cpu
          BY <1>1, <3>1
        <5> QED
          BY <1>1, <3>1, <4>1, <5>1
      <4> QED
        BY <3>1, <3>3, <3>4, <3>6, <4>1
    <3> QED
      BY <3>1, <3>5, <3>6
  <2> QED
    BY <2>1, <2>2, <2>3
<1>3. Room(n) = CHOOSE k \in carried : \A l \in carried : l <= k
  BY DEF Room
<1>4. carried \subseteq Nat
  BY DEF PerNodeCap
<1> HIDE DEF mpn, carried
<1>5. Room(n) \in carried /\ \A l \in carried : l <= Room(n)
  BY <1>2, <1>3
<1>6. mpn <= Room(n) /\ Room(n) <= mpn
  BY <1>2, <1>5
<1>7. mpn \in Nat /\ Room(n) \in Nat
  BY ZenonT(60), <1>2, <1>4, <1>5
<1>8. mpn = Room(n)
  BY <1>6, <1>7
<1> QED
  BY <1>7, <1>8 DEF mpn

\* The call: its argument is in order, and it returned what Plan gives.
PlanInv ==
  /\ NodeList(nodes) /\ DistinctIds(nodes)
  /\ WorkloadOK
  /\ decision \subseteq {Plan(nodes, workload)}

LEMMA PlanAlways == PlanSpec => []PlanInv
<1>1. PlanInit => PlanInv
  BY PlanAssumption DEF PlanInit, PlanInv, NodeList, DistinctIds, WorkloadOK
<1>2. PlanInv /\ [CallPlan]_planVars => PlanInv'
  BY SMTT(60) DEF PlanInv, NodeList, DistinctIds, WorkloadOK, CallPlan, planVars
<1> QED
  BY <1>1, <1>2, PTL DEF PlanSpec

\* What Plan returns, in terms of the order h in which it goes through the list.
Planned(d, len, h) ==
  /\ h \in [1..len -> FittingIn(nodes, workload)]
  /\ \A i \in FittingIn(nodes, workload) : \E k \in 1..len : h[k] = i
  /\ \A k, l \in 1..len : k < l <=> Before(nodes, h[k], h[l])
  /\ d.placements \in Seq({nodes[h[k]].id : k \in 1..len})
  /\ Len(d.placements) <= workload.replicas
  /\ \A k \in 1..len : Load(d, nodes[h[k]]) <= Room(nodes[h[k]])
  /\ Len(d.placements) < workload.replicas => \A k \in 1..len : Load(d, nodes[h[k]]) = Room(nodes[h[k]])
  /\ \A k, l \in 1..len : (l < k /\ Load(d, nodes[h[k]]) > 0) => Load(d, nodes[h[l]]) = Room(nodes[h[l]])
  /\ d.unscheduled <=> (len = 0 \/ Len(d.placements) < workload.replicas)

LEMMA PlanFacts ==
  ASSUME PlanInv, NEW d \in decision
  PROVE  \E len \in Nat : \E h : Planned(d, len, h)
<1> DEFINE D == FittingIn(nodes, workload)
           sc == Score(Filter(nodes, workload))
           ps == Place(sc, workload)
<1>1. d.placements = ps /\ (d.unscheduled <=> (sc = <<>> \/ Len(ps) < workload.replicas))
  <2> DEFINE short == sc = <<>> \/ Len(ps) < workload.replicas
  <2>1. d = [placements |-> ps, unscheduled |-> short]
    BY Zenon DEF PlanInv, Plan
  <2> HIDE DEF ps, short
  <2>2. d.placements = ps /\ d.unscheduled = short
    BY Zenon, <2>1
  <2> QED
    BY Zenon, <2>2 DEF short
<1>2a. PICK len \in Nat : \E h : InTurn(nodes, workload, sc, len, h)
  BY Zenon, ScoredFacts DEF PlanInv
<1>2. PICK h : InTurn(nodes, workload, sc, len, h)
  BY Zenon, <1>2a
<1>3. /\ h \in [1..len -> D]
      /\ sc = [k \in 1..len |-> nodes[h[k]]]
      /\ \A i \in D : \E k \in 1..len : h[k] = i
      /\ \A k, l \in 1..len : k < l <=> Before(nodes, h[k], h[l])
  BY Zenon, <1>2 DEF InTurn
<1> HIDE DEF sc
<1>4. DOMAIN sc = 1..len /\ \A k \in 1..len : sc[k] = nodes[h[k]]
  BY <1>3
<1>6. Scored(sc)
  BY ZenonT(60), <1>2, ScoredDistinct DEF PlanInv
<1>7. ASSUME NEW k \in 1..len
      PROVE  MaxPerNode(workload, sc[k]) = Room(nodes[h[k]]) /\ Room(nodes[h[k]]) \in Nat
  <2>1. h[k] \in DOMAIN nodes /\ Fits(nodes[h[k]], workload)
    BY <1>3 DEF FittingIn
  <2>2. nodes[h[k]].cpu \in Nat /\ nodes[h[k]].cpuUsed \in Nat
    BY SMTT(60), <2>1 DEF PlanInv, NodeList
  <2> QED
    BY <1>4, <2>1, <2>2, MaxIsRoom DEF PlanInv
<1>8. Placing(sc, workload, workload.replicas, ps)
  BY SMTT(60), <1>4, <1>6, <1>7, PlaceFacts DEF PlanInv, WorkloadOK
<1> HIDE DEF ps
<1>9. \A k \in 1..len : On(ps, sc, k) = Load(d, nodes[h[k]])
  BY <1>1, <1>4 DEF On, Load
<1>10. {sc[k].id : k \in DOMAIN sc} = {nodes[h[k]].id : k \in 1..len}
  BY <1>4
<1>11. sc = <<>> <=> len = 0
  BY SMTT(60), <1>3, <1>4
<1>12. /\ ps \in Seq({nodes[h[k]].id : k \in 1..len})
       /\ Len(ps) <= workload.replicas
       /\ \A k \in 1..len : Load(d, nodes[h[k]]) <= Room(nodes[h[k]])
       /\ Len(ps) < workload.replicas => \A k \in 1..len : Load(d, nodes[h[k]]) = Room(nodes[h[k]])
       /\ \A k, l \in 1..len : (l < k /\ Load(d, nodes[h[k]]) > 0) => Load(d, nodes[h[l]]) = Room(nodes[h[l]])
  BY ZenonT(60), <1>4, <1>7, <1>8, <1>9, <1>10 DEF Placing
<1>13. d.unscheduled <=> (len = 0 \/ Len(d.placements) < workload.replicas)
  BY Zenon, <1>1, <1>11
<1>14. Planned(d, len, h)
  <2>1. d.placements = ps
    BY Zenon, <1>1
  <2>2. /\ h \in [1..len -> D]
        /\ \A i \in D : \E k \in 1..len : h[k] = i
        /\ \A k, l \in 1..len : k < l <=> Before(nodes, h[k], h[l])
    BY Zenon, <1>3
  <2> QED
    BY Zenon, <1>12, <1>13, <2>1, <2>2 DEF Planned
<1> QED
  BY Zenon, <1>14

LEMMA PlanKeeps ==
  ASSUME PlanInv
  PROVE  PerNodeFits /\ PlacesAllItCan /\ BestNodesFirst
<1> DEFINE D == FittingIn(nodes, workload)
<1> SUFFICES ASSUME NEW d \in decision
             PROVE  /\ \A i \in DOMAIN d.placements : \E n \in Fitting : d.placements[i] = n.id
                    /\ \A n \in Fitting : Load(d, n) <= Room(n)
                    /\ Len(d.placements) <= workload.replicas
                    /\ Len(d.placements) < workload.replicas => \A n \in Fitting : Load(d, n) = Room(n)
                    /\ d.unscheduled <=> (Fitting = {} \/ Len(d.placements) < workload.replicas)
                    /\ \A i, j \in DOMAIN nodes :
                         (/\ {nodes[i], nodes[j]} \subseteq Fitting
                          /\ Load(d, nodes[j]) > 0
                          /\ Better(nodes[i], nodes[j]) \/ (i < j /\ ~Better(nodes[j], nodes[i])))
                         => (Room(nodes[i]) > 0 => Load(d, nodes[i]) > 0)
  BY Zenon DEF PerNodeFits, PlacesAllItCan, BestNodesFirst
<1>1a. PICK len \in Nat : \E h : Planned(d, len, h)
  BY Zenon, PlanFacts
<1>1. PICK h : Planned(d, len, h)
  BY Zenon, <1>1a
<1>2. /\ h \in [1..len -> D]
      /\ \A i \in D : \E k \in 1..len : h[k] = i
      /\ \A k, l \in 1..len : k < l <=> Before(nodes, h[k], h[l])
      /\ d.placements \in Seq({nodes[h[k]].id : k \in 1..len})
      /\ Len(d.placements) <= workload.replicas
      /\ \A k \in 1..len : Load(d, nodes[h[k]]) <= Room(nodes[h[k]])
      /\ Len(d.placements) < workload.replicas => \A k \in 1..len : Load(d, nodes[h[k]]) = Room(nodes[h[k]])
      /\ \A k, l \in 1..len : (l < k /\ Load(d, nodes[h[k]]) > 0) => Load(d, nodes[h[l]]) = Room(nodes[h[l]])
      /\ d.unscheduled <=> (len = 0 \/ Len(d.placements) < workload.replicas)
  BY Zenon, <1>1 DEF Planned
<1>3. ASSUME NEW n \in Fitting
      PROVE  \E k \in 1..len : n = nodes[h[k]]
  <2>1. PICK i \in DOMAIN nodes : n = nodes[i] /\ Fits(nodes[i], workload)
    BY Zenon DEF Fitting
  <2>2. i \in D
    BY Zenon, <2>1 DEF FittingIn
  <2> QED
    BY Zenon, <1>2, <2>1, <2>2
<1>4. \A k \in 1..len : nodes[h[k]] \in Fitting
  BY Zenon, <1>2 DEF Fitting, FittingIn
<1>5. ASSUME NEW i \in DOMAIN d.placements
      PROVE  \E n \in Fitting : d.placements[i] = n.id
  <2>1. d.placements[i] \in {nodes[h[k]].id : k \in 1..len}
    BY SMTT(60), <1>2
  <2> QED
    BY SMTT(60), <1>4, <2>1
<1>6. Fitting = {} <=> len = 0
  <2>1. ASSUME len = 0 PROVE Fitting = {}
    BY <1>3, <2>1
  <2>2. ASSUME len # 0 PROVE Fitting # {}
    <3>1. 1 \in 1..len
      BY <2>2
    <3> QED
      BY <1>4, <3>1
  <2> QED
    BY <2>1, <2>2
<1>7. ASSUME NEW i \in DOMAIN nodes, NEW j \in DOMAIN nodes, {nodes[i], nodes[j]} \subseteq Fitting,
             Load(d, nodes[j]) > 0,
             Better(nodes[i], nodes[j]) \/ (i < j /\ ~Better(nodes[j], nodes[i]))
      PROVE  Room(nodes[i]) > 0 => Load(d, nodes[i]) > 0
  <2>1. i \in D /\ j \in D
    BY Zenon, <1>7 DEF Fitting, FittingIn
  <2>2. PICK k \in 1..len, l \in 1..len : h[k] = i /\ h[l] = j
    BY Zenon, <1>2, <2>1
  <2>3. Before(nodes, h[k], h[l])
    BY Zenon, <1>7, <2>2 DEF Before
  <2>4. k < l
    BY Zenon, <1>2, <2>3
  <2>5. Load(d, nodes[i]) = Room(nodes[i])
    BY Zenon, <1>2, <1>7, <2>2, <2>4
  <2> QED
    BY Zenon, <2>5
<1>8. \A n \in Fitting : Load(d, n) <= Room(n)
  BY ZenonT(60), <1>2, <1>3
<1>9. ASSUME Len(d.placements) < workload.replicas, NEW n \in Fitting
      PROVE  Load(d, n) = Room(n)
  <2>1. \A k \in 1..len : Load(d, nodes[h[k]]) = Room(nodes[h[k]])
    BY Zenon, <1>2, <1>9
  <2>2. PICK k \in 1..len : n = nodes[h[k]]
    BY Zenon, <1>3
  <2> QED
    BY Zenon, <2>1, <2>2
<1> QED
  BY Zenon, <1>2, <1>5, <1>6, <1>7, <1>8, <1>9

\* One call of Plan, for any list of nodes and any workload: it respects the room
\* of every node, ...
THEOREM PlanPerNodeFits == PlanSpec => []PerNodeFits
BY PlanAlways, PlanKeeps, PTL

\* ... leaves a replica out only when every node is full, ...
THEOREM PlanPlacesAllItCan == PlanSpec => []PlacesAllItCan
BY PlanAlways, PlanKeeps, PTL

\* ... and passes over no less allocated node that has room.
THEOREM PlanBestNodesFirst == PlanSpec => []BestNodesFirst
BY PlanAlways, PlanKeeps, PTL

-----------------------------------------------------------------------------
LEMMA SeqWiden ==
  ASSUME NEW S, NEW T, S \subseteq T, NEW s \in Seq(S)
  PROVE  s \in Seq(T)
OBVIOUS

\* The placements of a plan are nodes of the list.
LEMMA PlanNames ==
  ASSUME NEW s, NEW w, NodeList(s), DistinctIds(s), w.replicas \in Nat, w.cpu \in Nat, w.anti \in BOOLEAN
  PROVE  Plan(s, w).placements \in Seq({s[i].id : i \in DOMAIN s})
<1> DEFINE sc == Score(Filter(s, w))
           D == FittingIn(s, w)
<1>1a. PICK len \in Nat : \E h : InTurn(s, w, sc, len, h)
  BY Zenon, ScoredFacts
<1>1. PICK h : InTurn(s, w, sc, len, h)
  BY Zenon, <1>1a
<1>2. h \in [1..len -> D] /\ sc = [k \in 1..len |-> s[h[k]]]
  BY Zenon, <1>1 DEF InTurn
<1>3. Plan(s, w).placements = Place(sc, w)
  BY Zenon DEF Plan
<1> HIDE DEF sc
<1>4. Scored(sc)
  BY Zenon, <1>1, ScoredDistinct
<1>5. DOMAIN sc = 1..len /\ \A k \in 1..len : h[k] \in DOMAIN s /\ sc[k] = s[h[k]]
  BY <1>2 DEF FittingIn
<1>6. \A k \in DOMAIN sc : MaxPerNode(w, sc[k]) \in Nat
  <2> SUFFICES ASSUME NEW k \in DOMAIN sc
               PROVE  MaxPerNode(w, sc[k]) \in Nat
    OBVIOUS
  <2>1. FreeCPU(sc[k]) \in Int
    BY <1>5 DEF FreeCPU, NodeList
  <2>2. w.cpu # 0 => FreeCPU(sc[k]) \div w.cpu \in Int
    BY <2>1
  <2> QED
    BY <2>2 DEF MaxPerNode, PerNodeCap
<1>7. Place(sc, w) \in Seq({sc[k].id : k \in DOMAIN sc})
  BY <1>4, <1>6, PlaceFacts DEF Placing
<1>8. {sc[k].id : k \in DOMAIN sc} \subseteq {s[i].id : i \in DOMAIN s}
  BY <1>5
<1> QED
  BY Zenon, <1>3, <1>7, <1>8, SeqWiden

\* The registered nodes are in order, and the controllers plan on nodes that are.
LEMMA ListNodesFacts ==
  ASSUME NEW ns
  PROVE  /\ NodeList(ListNodes(ns)) /\ DistinctIds(ListNodes(ns))
         /\ \A i \in DOMAIN ListNodes(ns) : ListNodes(ns)[i].id \in Nodes
<1> DEFINE D == {i \in DOMAIN NodeOrder : ns[NodeOrder[i]].registered}
           reg == Arrange(NodeOrder, D, InOrder(D))
           list == [i \in DOMAIN reg |-> AsNode(reg[i], ns[reg[i]].drain)]
           len == Cardinality(D)
<1>0. ListNodes(ns) = list
  BY DEF ListNodes
<1>1. Len(NodeOrder) \in Nat /\ DOMAIN NodeOrder = 1..Len(NodeOrder)
  BY ClusterAssumption
<1>2. D \in SUBSET (1..Len(NodeOrder)) /\ D \subseteq Nat /\ D \subseteq DOMAIN NodeOrder
  BY <1>1
<1>3. IsFiniteSet(D) /\ len \in Nat
  <2>1. IsFiniteSet(1..Len(NodeOrder))
    BY <1>1, FS_Interval
  <2>2. IsFiniteSet(D)
    BY <1>2, <2>1, FS_Subset
  <2> QED
    BY Zenon, <2>2, FS_CardinalityType
<1> HIDE DEF D
<1>4. StrictOrder(InOrder(D), D)
  BY ZenonT(60), <1>2, InOrderOrders
<1>5. Row(reg, len, NodeOrder, D, InOrder(D))
  BY Zenon, <1>3, <1>4, ArrangeFacts
<1> HIDE DEF reg, len
<1>6. PICK f \in [1..len -> D] :
        /\ reg = [k \in 1..len |-> NodeOrder[f[k]]]
        /\ \A k, l \in 1..len : k < l <=> <<f[k], f[l]>> \in InOrder(D)
  BY Zenon, <1>5 DEF Row
<1>7. DOMAIN reg = 1..len /\ \A k \in 1..len : f[k] \in DOMAIN NodeOrder /\ reg[k] = NodeOrder[f[k]] /\ reg[k] \in Nodes
  BY ZenonT(60), <1>2, <1>6, ClusterAssumption
<1>8. ASSUME NEW k \in 1..len, NEW l \in 1..len, reg[k] = reg[l]
      PROVE  k = l
  <2>1. f[k] = f[l]
    BY <1>7, <1>8, ClusterAssumption
  <2>2. <<f[k], f[l]>> \notin InOrder(D) /\ <<f[l], f[k]>> \notin InOrder(D)
    BY <1>2, <1>6, <2>1 DEF InOrder
  <2>3. ~(k < l) /\ ~(l < k)
    BY SMTT(60), <1>6, <2>2
  <2> QED
    BY <2>3
<1>9. DOMAIN list = 1..len /\ list \in Seq({list[k] : k \in 1..len}) /\ Len(list) = len
  BY SMTT(60), <1>3, <1>7
<1>10. ASSUME NEW k \in 1..len
       PROVE  /\ list[k].id = reg[k]
              /\ list[k].cpu \in Nat /\ list[k].mem \in Nat /\ list[k].cpuUsed \in Nat /\ list[k].memUsed \in Nat
  BY ZenonT(60), <1>7, ClusterAssumption DEF AsNode, Collect
<1> HIDE DEF list
<1>11. NodeList(list)
  BY <1>3, <1>9, <1>10 DEF NodeList
<1>12. DistinctIds(list)
  BY <1>8, <1>9, <1>10 DEF DistinctIds
<1>13. \A i \in DOMAIN list : list[i].id \in Nodes
  BY <1>7, <1>9, <1>10
<1> QED
  BY ZenonT(60), <1>0, <1>11, <1>12, <1>13

LEMMA PlanForNames ==
  ASSUME NEW ns \in [Nodes -> NodeRecord], NEW r \in 0..MostReplicas
  PROVE  PlanFor(ns, r).placements \in Seq(Nodes)
<1> DEFINE t == CHOOSE t \in Plans : t.nodes = ns /\ t.replicas = r
           list == ListNodes(ns)
           d == Plan(list, AsSpec(r))
<1>1. [nodes |-> ns, replicas |-> r, decision |-> d] \in Plans
  BY DEF Plans
<1>2. t \in Plans /\ t.nodes = ns /\ t.replicas = r
  <2> DEFINE e == [nodes |-> ns, replicas |-> r, decision |-> d]
  <2>1. e.nodes = ns /\ e.replicas = r
    BY Zenon
  <2> HIDE DEF e
  <2>2. \E x \in Plans : x.nodes = ns /\ x.replicas = r
    BY Zenon, <1>1, <2>1 DEF e
  <2> QED
    BY Zenon, <2>2
<1>3. PlanFor(ns, r) = t.decision
  BY Zenon DEF PlanFor
<1> HIDE DEF t
<1>4. t.decision = d
  <2>1. PICK m \in [Nodes -> NodeRecord], q \in 0..MostReplicas :
          t = [nodes |-> m, replicas |-> q, decision |-> Plan(ListNodes(m), AsSpec(q))]
    BY <1>2 DEF Plans
  <2>2. m = ns /\ q = r /\ t.decision = Plan(ListNodes(m), AsSpec(q))
    BY ZenonT(60), <1>2, <2>1
  <2> QED
    BY ZenonT(60), <2>2
<1>5. AsSpec(r).replicas \in Nat /\ AsSpec(r).cpu \in Nat /\ AsSpec(r).anti \in BOOLEAN
  BY ClusterAssumption DEF AsSpec
<1>6. d.placements \in Seq({list[i].id : i \in DOMAIN list})
  BY ZenonT(60), <1>5, ListNodesFacts, PlanNames
<1> HIDE DEF list, d
<1>7. {list[i].id : i \in DOMAIN list} \subseteq Nodes
  BY ListNodesFacts DEF list
<1> QED
  BY ZenonT(60), <1>3, <1>4, <1>6, <1>7, SeqWiden

-----------------------------------------------------------------------------
\* The types of Cluster's state: replicas stay within the most there can be, in
\* the store, in the copies and in what the autoscaler is about to write.
Bounded == [exists : BOOLEAN, replicas : 0..MostReplicas]

PassTypes(r) ==
  /\ r.pc \in {"idle", "plan", "set", "update", "giveup"}
  /\ \A w \in DOMAIN r.copy : r.copy[w] \in Bounded
  /\ r.plan \in Seq(Nodes)

ScalerTypes ==
  /\ scaler.pc \in {"wait", "next", "write"} /\ scaler.w \subseteq scaler.todo
  /\ \A w \in scaler.todo : scaler.rule[w] \subseteq Policies
  /\ scaler.copy \in Bounded

Types ==
  /\ stored \in [Workloads -> Bounded]
  /\ placements = [w \in Workloads |-> placements[w]] /\ \A w \in Workloads : placements[w] \in Seq(Nodes)
  /\ node \in [Nodes -> NodeRecord]
  /\ current \subseteq (Controllers \cup {Scaler}) \X Workloads
  /\ \A c \in Controllers : PassTypes(ctl[c])
  /\ policy \in [Workloads -> SUBSET Policies]
  /\ ScalerTypes
  /\ faults \in 0..MaxFaults

LEMMA TypesInit == Init => Types
<1> SUFFICES ASSUME Init
             PROVE  Types
  OBVIOUS
<1>1. NoWorkload \in Bounded
  BY ClusterAssumption DEF NoWorkload, Bounded
<1>2. \A c \in Controllers : PassTypes(ctl[c])
  <2>1. \A c \in Controllers : ctl[c] = Idle
    BY Zenon DEF Init
  <2>2. Idle.pc = "idle" /\ Idle.copy = <<>> /\ Idle.plan = <<>>
    BY DEF Idle
  <2>3. PassTypes(Idle)
    BY <2>2 DEF PassTypes
  <2> QED
    BY Zenon, <2>1, <2>3
<1>3. ScalerTypes
  <2>1. scaler.pc = "wait" /\ scaler.todo = {} /\ scaler.w = {} /\ scaler.copy = NoWorkload
    BY Zenon DEF Init, Waiting
  <2> QED
    BY Zenon, <1>1, <2>1 DEF ScalerTypes
<1>4. stored \in [Workloads -> Bounded]
  BY <1>1 DEF Init
<1>5. placements = [w \in Workloads |-> placements[w]] /\ \A w \in Workloads : placements[w] \in Seq(Nodes)
  BY DEF Init
<1>6. node \in [Nodes -> NodeRecord]
  BY DEF Init, NodeRecord
<1>7. policy \in [Workloads -> SUBSET Policies] /\ current \subseteq (Controllers \cup {Scaler}) \X Workloads
  BY DEF Init
<1>8. faults \in 0..MaxFaults
  BY ClusterAssumption DEF Init
<1> QED
  BY ZenonT(60), <1>2, <1>3, <1>4, <1>5, <1>6, <1>7, <1>8 DEF Types

\* What a policy asks for is within the bounds when the replicas are.
LEMMA WantBounded ==
  ASSUME NEW p \in Policies, NEW avg, NEW r \in 0..MostReplicas
  PROVE  Want(p, avg, r) \in 0..MostReplicas
<1>1. p.min \in Nat /\ p.max \in 0..MostReplicas /\ p.up \in Nat /\ p.down \in Nat /\ MostReplicas \in Nat
  BY ClusterAssumption
<1>2. CASE avg = "high" /\ r < p.max
  BY <1>1, <1>2 DEF Want
<1>3. CASE avg = "low" /\ r > p.min
  BY <1>1, <1>3 DEF Want
<1>4. CASE ~(avg = "high" /\ r < p.max) /\ ~(avg = "low" /\ r > p.min)
  BY <1>1, <1>4 DEF Want
<1> QED
  BY <1>2, <1>3, <1>4

\* A write of workload w leaves types as they are.
LEMMA UpdateTypes ==
  ASSUME Types, NEW p, NEW w \in Workloads, NEW r \in Bounded, UpdateWorkload(p, w, r)
  PROVE  stored' \in [Workloads -> Bounded] /\ current' \subseteq (Controllers \cup {Scaler}) \X Workloads
<1>1. CASE <<p, w>> \in current
  BY <1>1 DEF UpdateWorkload, Types
<1>2. CASE <<p, w>> \notin current
  BY <1>2 DEF UpdateWorkload, Types
<1> QED
  BY <1>1, <1>2

LEMMA ContinueTypes ==
  ASSUME Shape, Types, NEW c \in Controllers, NEW w, Continue(c, w)
  PROVE  \A d \in Controllers : PassTypes(ctl'[d])
<1>1. \A d \in Controllers \ {c} : ctl'[d] = ctl[d]
  BY DEF Continue, Shape
<1>2. ctl'[c] = Idle \/ \E rest : ctl'[c] = Reconciling(rest, ctl[c].copy)
  BY DEF Continue, Shape
<1>3. PassTypes(Idle)
  <2>1. Idle.pc = "idle" /\ Idle.copy = <<>> /\ Idle.plan = <<>>
    BY DEF Idle
  <2> QED
    BY <2>1 DEF PassTypes
<1>4. ASSUME NEW rest
      PROVE  PassTypes(Reconciling(rest, ctl[c].copy))
  <2> DEFINE r == Reconciling(rest, ctl[c].copy)
  <2>1. r.pc = "plan" /\ r.copy = ctl[c].copy /\ r.plan = <<>>
    BY Zenon DEF Reconciling
  <2>2. \A v \in DOMAIN ctl[c].copy : ctl[c].copy[v] \in Bounded
    BY Zenon DEF Types, PassTypes
  <2>3. <<>> \in Seq(Nodes)
    OBVIOUS
  <2> HIDE DEF r
  <2>4. \A v \in DOMAIN r.copy : r.copy[v] \in Bounded
    BY Zenon, <2>1, <2>2
  <2>5. r.plan \in Seq(Nodes)
    BY Zenon, <2>1, <2>3
  <2>6. PassTypes(r)
    BY Zenon, <2>1, <2>4, <2>5 DEF PassTypes
  <2> QED
    BY Zenon, <2>6 DEF r
<1>5. PassTypes(ctl'[c])
  BY ZenonT(60), <1>2, <1>3, <1>4
<1> QED
  BY Zenon, <1>1, <1>5 DEF Types

LEMMA NextSpecTypes ==
  ASSUME Types, NEW w, NextSpec(w)
  PROVE  ScalerTypes'
<1>1. NoWorkload \in Bounded
  BY ClusterAssumption DEF NoWorkload, Bounded
<1>2. /\ scaler'.pc \in {"wait", "next"} /\ scaler'.w = {} /\ scaler'.copy = NoWorkload
      /\ scaler'.todo \subseteq scaler.todo /\ (scaler'.todo = {} \/ scaler'.rule = scaler.rule)
  BY ZenonT(30) DEF NextSpec, Waiting, Evaluating
<1> QED
  BY <1>1, <1>2 DEF Types, ScalerTypes

LEMMA TypesStep ==
  ASSUME ScaleInv, Types, [Next]_vars
  PROVE  Types'
<1> USE DEF ScaleInv
<1>1. ASSUME NEW w \in Workloads, CreateWorkload(w)
      PROVE  Types'
  <2>1. PICK r \in 0..MaxReplicas :
          stored' = [stored EXCEPT ![w] = [exists |-> TRUE, replicas |-> r]]
    BY Zenon, <1>1 DEF CreateWorkload
  <2>2. UNCHANGED <<placements, node, current, ctl, policy, scaler, faults>>
    BY ZenonT(60), <1>1 DEF CreateWorkload, scaling
  <2>3. [exists |-> TRUE, replicas |-> r] \in Bounded
    BY ClusterAssumption DEF Bounded
  <2>4. stored' \in [Workloads -> Bounded]
    BY <2>1, <2>3 DEF Types
  <2> QED
    BY Zenon, <2>2, <2>4 DEF Types, ScalerTypes
<1>2. ASSUME NEW w \in Workloads, NEW p \in Policies, SetPolicy(w, p)
      PROVE  Types'
  <2>1. UNCHANGED <<stored, placements, node, current, ctl, scaler, faults>>
    BY Zenon, <1>2 DEF SetPolicy, store
  <2>2. policy' \in [Workloads -> SUBSET Policies]
    BY <1>2 DEF SetPolicy, Types
  <2> QED
    BY Zenon, <2>1, <2>2 DEF Types, ScalerTypes
<1>3. ASSUME NEW w \in Workloads, RemovePolicy(w)
      PROVE  Types'
  <2>1. UNCHANGED <<stored, placements, node, current, ctl, scaler, faults>>
    BY Zenon, <1>3 DEF RemovePolicy, store
  <2>2. policy' \in [Workloads -> SUBSET Policies]
    BY <1>3 DEF RemovePolicy, Types
  <2> QED
    BY Zenon, <2>1, <2>2 DEF Types, ScalerTypes
<1>4. ASSUME NEW c \in Controllers, NEW ws, ws \subseteq Listed, Begin(c, ws)
      PROVE  Types'
  <2> DEFINE copy == [w \in ws |-> stored[w]]
  <2>1. /\ current' = current \cup {<<c, w>> : w \in ws}
        /\ ctl' = [ctl EXCEPT ![c] = Reconciling(ws, copy)]
        /\ UNCHANGED <<stored, placements, node, policy, scaler, faults>>
    BY Zenon, <1>4 DEF Begin, scaling
  <2>2. ctl'[c] = Reconciling(ws, copy) /\ \A d \in Controllers \ {c} : ctl'[d] = ctl[d]
    BY Zenon, <2>1 DEF Shape
  <2>4. ws \subseteq Workloads
    BY Zenon, <1>4 DEF Listed
  <2>5. \A w \in DOMAIN copy : copy[w] \in Bounded
    BY SMTT(60), <2>4 DEF Types
  <2> HIDE DEF copy
  <2>3. ctl'[c].pc = "plan" /\ ctl'[c].copy = copy /\ ctl'[c].plan = <<>>
    BY <2>2 DEF Reconciling
  <2>6. PassTypes(ctl'[c])
    BY <2>3, <2>5 DEF PassTypes
  <2>7. current' \subseteq (Controllers \cup {Scaler}) \X Workloads
    BY <2>1, <2>4 DEF Types
  <2>8. \A d \in Controllers : PassTypes(ctl'[d])
    BY Zenon, <2>2, <2>6 DEF Types
  <2> QED
    BY Zenon, <2>1, <2>7, <2>8 DEF Types, ScalerTypes
<1>5. ASSUME NEW c \in Controllers, Reconcile(c)
      PROVE  Types'
  <2>1. PICK w \in ctl[c].todo : \E pc \in {"giveup", "set"} :
          ctl' = [ctl EXCEPT ![c] = [pc |-> pc, todo |-> ctl[c].todo, w |-> {w}, copy |-> ctl[c].copy,
                                     plan |-> PlanFor(node, ctl[c].copy[w].replicas).placements]]
    BY ZenonT(30), <1>5 DEF Reconcile
  <2>2. PICK pc \in {"giveup", "set"} :
          ctl' = [ctl EXCEPT ![c] = [pc |-> pc, todo |-> ctl[c].todo, w |-> {w}, copy |-> ctl[c].copy,
                                     plan |-> PlanFor(node, ctl[c].copy[w].replicas).placements]]
    BY Zenon, <2>1
  <2>3. UNCHANGED <<stored, placements, node, current, policy, scaler, faults>>
    BY Zenon, <1>5 DEF Reconcile, store, scaling
  <2>4. /\ ctl'[c].pc = pc /\ ctl'[c].copy = ctl[c].copy
        /\ ctl'[c].plan = PlanFor(node, ctl[c].copy[w].replicas).placements
        /\ \A d \in Controllers \ {c} : ctl'[d] = ctl[d]
    BY ZenonT(30), <2>2 DEF Shape
  <2>5. w \in DOMAIN ctl[c].copy /\ ctl[c].copy[w] \in Bounded
    BY Zenon DEF PassOnCopies, Types, PassTypes
  <2>6. ctl[c].copy[w].replicas \in 0..MostReplicas
    BY Zenon, <2>5 DEF Bounded
  <2>7. PlanFor(node, ctl[c].copy[w].replicas).placements \in Seq(Nodes)
    BY Zenon, <2>6, PlanForNames DEF Types
  <2>8. PassTypes(ctl'[c])
    BY Zenon, <2>4, <2>7 DEF Types, PassTypes
  <2>9. \A d \in Controllers : PassTypes(ctl'[d])
    BY Zenon, <2>4, <2>8 DEF Types
  <2> QED
    BY Zenon, <2>3, <2>9 DEF Types, ScalerTypes
<1>6. ASSUME NEW c \in Controllers, SetPlacements(c)
      PROVE  Types'
  <2>1. PICK w \in ctl[c].w : placements' = [placements EXCEPT ![w] = ctl[c].plan]
    BY Zenon, <1>6 DEF SetPlacements
  <2>2. ctl' = [ctl EXCEPT ![c].pc = "update"] /\ UNCHANGED <<stored, node, current, policy, scaler, faults>>
    BY Zenon, <1>6 DEF SetPlacements, scaling
  <2>3. /\ ctl'[c].pc = "update" /\ ctl'[c].copy = ctl[c].copy /\ ctl'[c].plan = ctl[c].plan
        /\ \A d \in Controllers \ {c} : ctl'[d] = ctl[d]
    BY <2>2 DEF Shape, IsPass
  <2>4. \A d \in Controllers : PassTypes(ctl'[d])
    BY Zenon, <2>3 DEF Types, PassTypes
  <2>5. ctl[c].plan \in Seq(Nodes)
    BY Zenon DEF Types, PassTypes
  <2>6. placements' = [v \in Workloads |-> placements'[v]] /\ \A v \in Workloads : placements'[v] \in Seq(Nodes)
    BY Zenon, <2>1, <2>5 DEF Types
  <2> QED
    BY Zenon, <2>2, <2>4, <2>6 DEF Types, ScalerTypes
<1>7. ASSUME NEW c \in Controllers, UpdateStatus(c)
      PROVE  Types'
  <2>1. PICK w \in ctl[c].w : UpdateWorkload(c, w, ctl[c].copy[w]) /\ Continue(c, w)
    BY Zenon, <1>7 DEF UpdateStatus
  <2>2. UNCHANGED <<placements, node, policy, scaler, faults>>
    BY Zenon, <1>7 DEF UpdateStatus, scaling
  <2>3. w \in Workloads /\ ctl[c].copy[w] \in Bounded
    BY DEF PassOnCopies, Types, PassTypes
  <2>4. stored' \in [Workloads -> Bounded] /\ current' \subseteq (Controllers \cup {Scaler}) \X Workloads
    BY Zenon, <2>1, <2>3, UpdateTypes
  <2>5. \A d \in Controllers : PassTypes(ctl'[d])
    BY Zenon, <2>1, ContinueTypes
  <2> QED
    BY Zenon, <2>2, <2>4, <2>5 DEF Types, ScalerTypes
<1>8. ASSUME Fault
      PROVE  faults' \in 0..MaxFaults
  BY <1>8, ClusterAssumption DEF Fault, Types
<1>9. ASSUME NEW c \in Controllers, ReconcileFails(c)
      PROVE  Types'
  <2>1. PICK w : Continue(c, w)
    BY Zenon, <1>9 DEF ReconcileFails
  <2>2. UNCHANGED <<stored, placements, node, current, policy, scaler>> /\ Fault
    BY Zenon, <1>9 DEF ReconcileFails, store, scaling
  <2>3. \A d \in Controllers : PassTypes(ctl'[d])
    BY Zenon, <2>1, ContinueTypes
  <2> QED
    BY Zenon, <1>8, <2>2, <2>3 DEF Types, ScalerTypes
<1>10. ASSUME NEW c \in Controllers, ControllerCrash(c)
       PROVE  Types'
  <2>1. ctl' = [ctl EXCEPT ![c] = Idle] /\ UNCHANGED <<stored, placements, node, current, policy, scaler>> /\ Fault
    BY Zenon, <1>10 DEF ControllerCrash, store, scaling
  <2>2. ctl'[c] = Idle /\ \A d \in Controllers \ {c} : ctl'[d] = ctl[d]
    BY Zenon, <2>1 DEF Shape
  <2>3. Idle.pc = "idle" /\ Idle.copy = <<>> /\ Idle.plan = <<>>
    BY Zenon DEF Idle
  <2>4. PassTypes(Idle)
    BY <2>3 DEF PassTypes
  <2>5. \A d \in Controllers : PassTypes(ctl'[d])
    BY Zenon, <2>2, <2>4 DEF Types
  <2> QED
    BY Zenon, <1>8, <2>1, <2>5 DEF Types, ScalerTypes
<1>11. CASE Evaluate
  <2> DEFINE ws == {w \in Workloads : policy[w] # {}}
             rule == [w \in ws |-> policy[w]]
  <2>1. scaler' = Evaluating(ws, rule) /\ UNCHANGED <<stored, placements, node, current, ctl, policy, faults>>
    BY Zenon, <1>11 DEF Evaluate, store
  <2>2. \A w \in ws : rule[w] \subseteq Policies
    BY DEF Types
  <2> HIDE DEF ws, rule
  <2>3. scaler'.pc = "next" /\ scaler'.w = {} /\ scaler'.todo = ws /\ scaler'.rule = rule /\ scaler'.copy = NoWorkload
    BY Zenon, <2>1 DEF Evaluating
  <2>4. NoWorkload \in Bounded
    BY ClusterAssumption DEF NoWorkload, Bounded
  <2>5. ScalerTypes'
    BY Zenon, <2>2, <2>3, <2>4 DEF ScalerTypes
  <2> QED
    BY Zenon, <2>1, <2>5 DEF Types
<1>12. CASE EvaluateOne
  <2>1. PICK w \in scaler.todo, avg \in Averages, cooling \in BOOLEAN : \E p \in scaler.rule[w] :
          LET want == Want(p, avg, stored[w].replicas)
          IN IF w \notin Listed \/ cooling \/ want = stored[w].replicas
               THEN NextSpec(w) /\ UNCHANGED current
               ELSE /\ scaler' = [pc |-> "write", todo |-> scaler.todo, w |-> {w},
                                  rule |-> scaler.rule,
                                  copy |-> [exists |-> TRUE, replicas |-> want]]
                    /\ current' = current \cup {<<Scaler, w>>}
    BY SMTT(60), <1>12 DEF EvaluateOne
  <2>2. PICK p \in scaler.rule[w] :
          \/ NextSpec(w) /\ UNCHANGED current
          \/ /\ scaler' = [pc |-> "write", todo |-> scaler.todo, w |-> {w}, rule |-> scaler.rule,
                           copy |-> [exists |-> TRUE,
                                     replicas |-> Want(p, avg, stored[w].replicas)]]
             /\ current' = current \cup {<<Scaler, w>>}
    BY ZenonT(60), <2>1
  <2>3. UNCHANGED <<stored, placements, node, ctl, policy, faults>>
    BY Zenon, <1>12 DEF EvaluateOne
  <2>4. CASE NextSpec(w) /\ UNCHANGED current
    <3>1. ScalerTypes'
      BY Zenon, <2>4, NextSpecTypes
    <3> QED
      BY Zenon, <2>3, <2>4, <3>1 DEF Types
  <2>5. CASE /\ scaler' = [pc |-> "write", todo |-> scaler.todo, w |-> {w}, rule |-> scaler.rule,
                           copy |-> [exists |-> TRUE,
                                     replicas |-> Want(p, avg, stored[w].replicas)]]
             /\ current' = current \cup {<<Scaler, w>>}
    <3> DEFINE want == Want(p, avg, stored[w].replicas)
    <3>1. w \in Workloads /\ p \in Policies
      BY Zenon DEF ScalerCurrent, Types, ScalerTypes
    <3>2. stored[w].replicas \in 0..MostReplicas
      BY <3>1 DEF Types, Bounded
    <3>3. want \in 0..MostReplicas
      BY ZenonT(60), <3>1, <3>2, WantBounded
    <3> HIDE DEF want
    <3>4. [exists |-> TRUE, replicas |-> want] \in Bounded
      BY <3>3 DEF Bounded
    <3>5. /\ scaler'.pc = "write" /\ scaler'.todo = scaler.todo /\ scaler'.w = {w} /\ scaler'.rule = scaler.rule
          /\ scaler'.copy = [exists |-> TRUE, replicas |-> want]
      BY Zenon, <2>5 DEF want
    <3>6. ScalerTypes'
      BY ZenonT(60), <3>4, <3>5 DEF Types, ScalerTypes
    <3>7. current' \subseteq (Controllers \cup {Scaler}) \X Workloads
      BY <2>5, <3>1 DEF Types
    <3> QED
      BY Zenon, <2>3, <3>6, <3>7 DEF Types
  <2> QED
    BY ZenonT(60), <2>2, <2>4, <2>5
<1>13. CASE Scale
  <2>1. PICK w \in scaler.w : UpdateWorkload(Scaler, w, scaler.copy) /\ NextSpec(w)
    BY Zenon, <1>13 DEF Scale
  <2>2. w \in Workloads /\ scaler.copy \in Bounded
    BY Zenon DEF ScalerCurrent, Types, ScalerTypes
  <2>3. UNCHANGED <<placements, node, ctl, policy, faults>>
    BY Zenon, <1>13 DEF Scale
  <2>4. stored' \in [Workloads -> Bounded] /\ current' \subseteq (Controllers \cup {Scaler}) \X Workloads
    BY Zenon, <2>1, <2>2, UpdateTypes
  <2>5. ScalerTypes'
    BY Zenon, <2>1, NextSpecTypes
  <2> QED
    BY Zenon, <2>3, <2>4, <2>5 DEF Types
<1>14. ASSUME NEW n \in Nodes, NEW d \in BOOLEAN, Heartbeat(n, d) \/ HeartbeatForgets(n, d)
       PROVE  Types'
  <2>1. UNCHANGED <<stored, placements, current, ctl, policy, scaler>>
    BY Zenon, <1>14 DEF Heartbeat, HeartbeatForgets, scaling
  <2>2. faults' \in 0..MaxFaults
    BY Zenon, <1>8, <1>14 DEF Heartbeat, HeartbeatForgets, Types
  <2>3. node' \in [Nodes -> NodeRecord]
    <3>1. PICK e \in BOOLEAN : node' = [node EXCEPT ![n] = [registered |-> TRUE, drain |-> e]]
      <4>1. node[n].drain \in BOOLEAN
        BY Zenon DEF Types, NodeRecord
      <4> QED
        BY <1>14, <4>1 DEF Heartbeat, HeartbeatForgets
    <3>2. [registered |-> TRUE, drain |-> e] \in NodeRecord
      BY Zenon DEF NodeRecord
    <3> QED
      BY ZenonT(60), <3>1, <3>2 DEF Types
  <2> QED
    BY Zenon, <2>1, <2>2, <2>3 DEF Types, ScalerTypes
<1>15. CASE UNCHANGED vars
  BY Zenon, <1>15 DEF vars, store, scaling, Types, ScalerTypes
<1> QED
  BY ZenonT(60), <1>1, <1>2, <1>3, <1>4, <1>5, <1>6, <1>7, <1>9, <1>10, <1>11, <1>12, <1>13, <1>14, <1>15
     DEF Next, Pass, Tick, ReconcileOne, DrainFlag

\* Whatever the controllers, the autoscaler, the heartbeats and the faults: the
\* placements that are stored, and those that a controller is about to store,
\* name nodes of the cluster only, and the state has its types.
THEOREM ClusterTypeOK == Spec => []TypeOK
<1>1. Types /\ ScaleInv => TypeOK
  <2> SUFFICES ASSUME Types, ScaleInv
               PROVE  TypeOK
    OBVIOUS
  <2>1. Bounded \subseteq Record
    BY DEF Bounded, Record
  <2>2. stored \in [Workloads -> Record] /\ scaler.copy \in Record
    BY <2>1 DEF Types, ScalerTypes
  <2>3. \A c \in Controllers :
       /\ ctl[c].pc \in {"idle", "plan", "set", "update", "giveup"}
       /\ ctl[c].todo \subseteq DOMAIN ctl[c].copy /\ ctl[c].w \subseteq ctl[c].todo
       /\ ctl[c].plan \in Seq(Nodes)
    BY Zenon DEF Types, PassTypes, ScaleInv, PassOnCopies
  <2> QED
    BY Zenon, <2>2, <2>3 DEF Types, ScalerTypes, TypeOK
<1>2. ScaleInv /\ Types /\ [Next]_vars => Types'
  BY TypesStep
<1> QED
  BY <1>1, <1>2, TypesInit, ScaleInit, ScaleStep, PTL DEF Spec
==============================================================================

----------------------------- MODULE MCStandalone -----------------------------
(***************************************************************************)
(* The parts of the platform that share no state with any other: Plan,     *)
(* retry.Do, the log ring, the alerts, the metrics, ResolveEnv, the DNS    *)
(* zone, the DNS server, a chat request and the agent of a node.  An       *)
(* initial state picks one part and its input; the steps are that part's.  *)
(* st is the part's state: the value the code keeps, and what the          *)
(* properties remember of the calls so far.                                *)
(***************************************************************************)
EXTENDS MCScheduler, Retry, Logs, Metrics, Inference, AgentPart, FiniteSetsExt, SequencesExt

CONSTANTS
  MaxTime,      \* time of the alerts
  MaxEvals,     \* evaluations of the alerts
  NotJSON       \* a plaintext that is no map

VARIABLES part, st, run, srvCtx, open, loop, conn

serverVars == <<run, srvCtx, open, loop, conn>>
ownVars == <<planVars, retryVars, logVars, metricsVars, chatVars, serverVars, agentVars>>
vars == <<part, st, ownVars>>

Lower(name) == [i \in DOMAIN name |-> IF name[i] = "Web" THEN "web" ELSE name[i]]
IsIPv4(ip) == ip # "bad"

MCArguments == [attempts : {0, 1, 5}, base : {0, 1, 4, 16}, cap : {0, 3, 12, 60}]
MCBuckets == {<<1>>, <<1, 3>>, << >>}
MCWords == {[len |-> 4, stop |-> FALSE], [len |-> 3, stop |-> TRUE]}
MCRequests ==
  [model : {"", "echo"}, messages : {<<>>, <<"p">>, <<"p", "p">>}, max : {0, 2}, stream : BOOLEAN]

O == INSTANCE Obs
C == INSTANCE Config WITH NonceSize <- 12
D == INSTANCE DNS
Srv == INSTANCE DNSServer WITH Conns <- {1, 2}, ctx <- srvCtx

\* A part that the initial state did not pick.
NoPlan == nodes = <<>> /\ workload = <<>> /\ decision = {}
NoRetry == do = StartDo(0, 0, 0) /\ over = FALSE
NoLogs == log = NewLogs(1) /\ appended = <<>>
NoMetrics == MetricsInit /\ bounds = << >>
NoStream ==
  /\ models = {} /\ engines = {} /\ draws = <<>> /\ req = <<>> /\ ctx = "done"
  /\ prod = [pc |-> "none", sent |-> 0] /\ ch = <<>> /\ cons = "none" /\ out = <<>>
NoServer == run = "none" /\ srvCtx = "live" /\ open = {} /\ loop = [l \in Srv!Loops |-> "none"] /\ conn = <<"none", "none">>
NoAgent == Ag!NewAgent /\ pc = "down"

-----------------------------------------------------------------------------
(* Alerts over a gauge with two label sets                                  *)

Gauge == "load"
Series == {<<Gauge, 1>>, <<Gauge, 2>>}
Labels == <<<<"{", 0>>, <<"op", "==">>, <<"}", 0>>>>
Expr(labels, op, n) == <<<<"name", Gauge>>>> \o labels \o <<<<"op", op>>, <<"num", n>>>>
Rules ==
  {[id |-> "high", expr |-> Expr(<<>>, ">", 1), for |-> f] : f \in {0, 2}} \cup
  {[id |-> "odd", expr |-> Expr(<<>>, "!=", 2), for |-> 1], [id |-> "one", expr |-> Expr(Labels, ">", 0), for |-> 0]}

AlertsInit == st = [al |-> O!NewAlerts, reg |-> NewMetrics, now |-> 0, evals |-> <<>>]

AddRule ==
  /\ part = "alerts" /\ st.evals = <<>> /\ Len(st.al.rules) < 2
  /\ \E r \in Rules :
        /\ st.al.rules # <<>> => r.id = "high"
        /\ st' = [st EXCEPT !.al = O!Add(st.al, r)]

SetGauge ==
  /\ part = "alerts"
  /\ \E k \in Series : \E v \in {0, k[2]} : st' = [st EXCEPT !.reg = SetMetric(st.reg, k, v)]

Clock ==
  /\ part = "alerts" /\ st.now < MaxTime
  /\ st' = [st EXCEPT !.now = @ + 1]

\* evals: when rules were evaluated on a gauge that exists, and its total then.
EvaluateStep ==
  /\ part = "alerts" /\ Len(st.evals) < MaxEvals
  /\ st' = [st EXCEPT
       !.al = O!Evaluate(st.al, st.reg, st.now),
       !.evals = IF DOMAIN st.reg = {} THEN @
                 ELSE Append(@, [t |-> st.now, v |-> MapThenSumSet(LAMBDA k : st.reg[k].value, DOMAIN st.reg)])]

\* Evaluate fires a rule on a plain metric exactly when the latest evaluations,
\* two or more, all found its comparison true and the first of them is at least
\* For before the last; one evaluation that finds it false resolves it.  This is
\* about rules with an ID of their own, as rules with equal IDs share one state,
\* and without a label block.
AlertsExact ==
  part = "alerts" =>
    \A i \in DOMAIN st.al.rules :
       LET r == st.al.rules[i]
           n == Len(st.evals)
           held(j) == IF r.id = "high" THEN st.evals[j].v > 1 ELSE st.evals[j].v # 2
           fires == \E j \in 1..(n - 1) :
                       /\ \A k \in j..n : held(k)
                       /\ \E last \in (j + 1)..n : st.evals[last].t - st.evals[j].t >= r.for
       IN (r.id # "one" /\ \A j \in DOMAIN st.al.rules : st.al.rules[j].id = r.id => j = i)
            => (O!StateOf(st.al)[r.id].firing <=> fires)

-----------------------------------------------------------------------------
(* The environment of a workload                                            *)

ConfigMaps == [c \in {"c1", "c2"} |-> IF c = "c1" THEN [x |-> 1] ELSE [x |-> 2, y |-> 2]]
Sealed ==
  {C!Encrypt("key", "n", [y |-> 3]), C!Encrypt("other", "n", [x |-> 4]), C!Encrypt("key", "n", NotJSON),
   [C!Encrypt("key", "n", [x |-> 4]) EXCEPT !.nonceLen = 0]}
RefLists(S) == UNION {[1..n -> S] : n \in 0..2}

EnvInit ==
  \E env \in {<< >>, [x |-> 0]}, cms \in RefLists({"c1", "c2", "gone"}), secs \in RefLists({"s1", "s2", "gone"}),
     sealed \in Sealed :
     st = [w |-> [env |-> env, configMapRefs |-> cms, secretRefs |-> secs],
           secrets |-> [s \in {"s1", "s2"} |-> IF s = "s1" THEN C!Encrypt("key", "m", [x |-> 5]) ELSE sealed],
           result |-> {}]

ResolveStep ==
  /\ part = "env" /\ st.result = {}
  /\ st' = [st EXCEPT !.result = {C!ResolveEnv(st.w, ConfigMaps, st.secrets, "key")}]

\* ResolveEnv fails exactly when a reference is missing or a secret does not
\* open or is not a map, and it blames a ConfigMap exactly when one is missing,
\* because those are read first.  Otherwise a name has the value of the last
\* source that sets it: Env, then the ConfigMaps, then the Secrets, each in the
\* workload's order.
EnvLastWins ==
  part = "env" => \A r \in st.result :
    LET cms == st.w.configMapRefs
        secs == st.w.secretRefs
        n == Len(cms) + Len(secs)
        bad(i) == IF i <= Len(cms) THEN cms[i] = "gone"
                  ELSE LET s == secs[i - Len(cms)]
                       IN s = "gone" \/ ~C!Decrypt("key", st.secrets[s]).ok
        source(i) == IF i = 0 THEN st.w.env ELSE IF i <= Len(cms) THEN ConfigMaps[cms[i]]
                     ELSE st.secrets[secs[i - Len(cms)]].plain
        setters(k) == {i \in 0..n : k \in DOMAIN source(i)}
    IN IF \E i \in 1..n : bad(i)
       THEN ~r.ok /\ (r.why = "configmap" <=> Min({i \in 1..n : bad(i)}) <= Len(cms))
       ELSE r.ok /\ \A k \in {"x", "y"} :
              IF setters(k) = {} THEN k \notin DOMAIN r.env
              ELSE k \in DOMAIN r.env /\ r.env[k] = source(Max(setters(k)))[k]

-----------------------------------------------------------------------------
(* The DNS zone: records of two projects, read in this order                *)

Projects == <<"a", "b">>
Records == {[name |-> <<"web", "local">>, ip |-> "10.0.0.1"], [name |-> <<"Web", "local">>, ip |-> "10.0.0.2"],
            [name |-> <<"db">>, ip |-> "10.0.0.3"], [name |-> <<"db">>, ip |-> "bad"]}

DNSInit == st = [lists |-> [p \in {"a", "b"} |-> {}], seen |-> [p \in {"a", "b"} |-> <<>>], zone |-> << >>]

\* UpdateRecord: the ID is made of name and project, so that a record replaces
\* the project's record of that name.
UpdateRecord ==
  /\ part = "dns"
  /\ \E p \in {"a", "b"}, r \in Records :
        LET others == {o \in st.lists[p] : o.name # r.name}
        IN /\ Cardinality(others) < 2
           /\ st' = [st EXCEPT !.lists[p] = others \cup {r}]

\* refreshZone; the list of a project in failed could not be read.  ListDNS
\* returns the others in some order.
RefreshStep ==
  /\ part = "dns"
  /\ \E failed \in SUBSET {"a", "b"} : \E a \in SetToSeqs(st.lists["a"]), b \in SetToSeqs(st.lists["b"]) :
        LET got == [p \in {"a", "b"} |-> IF p \in failed THEN <<>> ELSE IF p = "a" THEN a ELSE b]
        IN st' = [st EXCEPT !.seen = got, !.zone = D!RefreshZone(Projects, got)]

\* Spellings of a name on the wire: plain, with its tail shared, and with all of
\* it shared.
Wires(name) ==
  {D!WriteName(name), <<[kind |-> "ptr", val |-> 2]>> \o D!WriteName(name)} \cup
  (IF Len(name) < 2 THEN {}
   ELSE {<<[kind |-> "label", val |-> name[1]], [kind |-> "ptr", val |-> 3]>> \o D!WriteName(Tail(name))})

\* All buffers of two cells.
Buffers == [1..2 -> [kind : {"label"}, val : {"db"}] \cup [kind : {"end"}, val : {0}] \cup [kind : {"ptr"}, val : 1..3]]

\* A query for an A record is answered, in the order of the projects and of
\* their lists, with the address of every record whose name equals the query's
\* up to case, as far as the last refresh could read them, and ANCOUNT is their
\* number; a query for another type gets no answer.  A record whose address is
\* no IPv4 address is counted and has no data.  handleQuery comes back unless
\* the pointers of the name lead from its start only to cells that are no end.
ZoneAnswers ==
  part = "dns" =>
    /\ \A name \in {<<"web", "local">>, <<"Web", "local">>, <<"db">>, <<"no">>} : \A wire \in Wires(name) :
       \A type \in {1, 28} :
         LET named(r) == Lower(r.name) = Lower(name)
             rs == SelectSeq(st.seen["a"] \o st.seen["b"], named)
             n == IF type = 1 THEN Len(rs) ELSE 0
             m == D!HandleQuery(st.zone, [id |-> 7, wire |-> wire, type |-> type])
         IN /\ m.kind = "message" /\ m.id = 7 /\ m.question = D!WriteName(name)
            /\ m.ancount = n /\ Len(m.answers) = n
            /\ \A i \in 1..n : /\ m.answers[i].name = m.question
                               /\ m.answers[i].data = IF IsIPv4(rs[i].ip) THEN <<rs[i].ip>> ELSE <<>>
    /\ \A wire \in Buffers :
         LET next(i) == IF wire[i].kind = "ptr" THEN wire[i].val ELSE i + 1
             stays(S) == \A i \in S : wire[i].kind # "end" /\ next(i) \in S
         IN D!HandleQuery(st.zone, [id |-> 7, wire |-> wire, type |-> 1]) = D!Dies
              <=> \E S \in SUBSET {1, 2} : 1 \in S /\ stays(S)

-----------------------------------------------------------------------------
(* A chat request and the DNS server                                        *)

ChatStep(A) == part = "chat" /\ A /\ UNCHANGED <<part, st, planVars, retryVars, logVars, metricsVars, serverVars, agentVars>>

\* The goroutine of Stream ends, whether its handler reads all tokens or the
\* client leaves while the channel is full, and every request is answered.
StreamEnds == (part = "chat" /\ cons \notin {"start", "400"}) ~> (prod.pc \in {"none", "exited"} /\ cons \in {"200", "500", "gone"})

\* Once its context ends the DNS server returns, its sockets are closed and its
\* loops end, and a query that arrived on a connection is dealt with, unless the
\* process has died of one (see DNSServer).
ServerStops == Srv!ServerStops

-----------------------------------------------------------------------------
Init ==
  /\ part \in {"plan", "retry", "logs", "metrics", "counter", "alerts", "env", "dns", "chat", "server", "agent"}
  /\ IF part = "plan" THEN PlanInit ELSE NoPlan
  /\ IF part = "retry" THEN RetryInit ELSE NoRetry
  /\ IF part = "logs" THEN LogsInit ELSE NoLogs
  /\ IF part \in {"metrics", "counter"} THEN MetricsInit ELSE NoMetrics
  /\ IF part = "chat" THEN ChatInit ELSE NoStream
  /\ IF part = "server" THEN Srv!Init ELSE NoServer
  /\ IF part = "agent" THEN Ag!Init ELSE NoAgent
  /\ IF part = "alerts" THEN AlertsInit ELSE IF part = "env" THEN EnvInit
     ELSE IF part = "dns" THEN DNSInit ELSE st = 0

Next ==
  \/ /\ part = "plan" /\ CallPlan
     /\ UNCHANGED <<part, st, retryVars, logVars, metricsVars, chatVars, serverVars, agentVars>>
  \/ /\ part = "retry" /\ RetryStep
     /\ UNCHANGED <<part, st, planVars, logVars, metricsVars, chatVars, serverVars, agentVars>>
  \/ /\ part = "logs" /\ LogStep
     /\ UNCHANGED <<part, st, planVars, retryVars, metricsVars, chatVars, serverVars, agentVars>>
  \/ /\ (part = "metrics" /\ HistogramNext) \/ (part = "counter" /\ CounterNext)
     /\ UNCHANGED <<part, st, planVars, retryVars, logVars, chatVars, serverVars, agentVars>>
  \/ /\ part = "server" /\ Srv!Next
     /\ UNCHANGED <<part, st, planVars, retryVars, logVars, metricsVars, chatVars, agentVars>>
  \/ /\ part = "agent" /\ Ag!Next
     /\ UNCHANGED <<part, st, planVars, retryVars, logVars, metricsVars, chatVars, serverVars>>
  \/ ChatStep(ChatNext)
  \/ /\ AddRule \/ SetGauge \/ Clock \/ EvaluateStep \/ ResolveStep \/ UpdateRecord \/ RefreshStep
     /\ UNCHANGED <<part, ownVars>>

\* The Go scheduler runs the goroutine and the handler of a request, and those
\* of the server.
Spec == Init /\ [][Next]_vars /\ WF_vars(ChatStep(Producer)) /\ WF_vars(ChatStep(Handler)) /\ Srv!Fairness /\ Ag!Fairness
==============================================================================

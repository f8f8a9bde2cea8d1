--------------------------------- MODULE Api ---------------------------------
(***************************************************************************)
(* internal/apis/v1 over internal/identity: requests of clients, the       *)
(* authentication in front of the handlers, the handlers, and the restart  *)
(* of the server as cloudapi or cloudinit over the same store.  A request  *)
(* takes two steps: authRequired, then the handler; one of an open path is *)
(* answered at once.  Clients are programs that use the SDK ("sdk"),       *)
(* commands of cloudctl ("ctl"), an example, or any other ("raw").         *)
(* A store call is one step.                                              *)
(***************************************************************************)
EXTENDS Integers, Sequences, FiniteSets

CONSTANTS
  Clients,
  Names,        \* IDs and e-mail addresses of requests
  TokenLife,    \* 24 hours
  MaxTime,      \* bound of the clock
  MaxRequests   \* requests sent

\* A body that does not decode and one without an ID are told apart from these.
NamesAssumption == Names \cap {"", "{"} = {}

VARIABLES
  now,      \* time.Now()
  server,   \* "down", or the command that runs
  users,    \* user records, in the order of their creation
  keys,     \* API key records: when each expires
  store,    \* objects: [kind, project, id]
  cred,     \* the credential each client holds
  call,     \* the request each client is waiting for, and the last answer
  sent,     \* requests sent so far
  focus     \* the path this behaviour is about

vars == <<now, server, users, keys, store, cred, call, sent, focus>>

AdminEmail == "admin"
BadJSON == "{"
\* A new client has no token.
NoCred == [sort |-> "none", user |-> 0, exp |-> 0, key |-> ""]
NoUser == [id |-> 0, admin |-> FALSE]
Idle == [pc |-> "idle", req |-> <<>>, user |-> NoUser, code |-> 0]

\* Kinds of objects that belong to a project, and those that do not.
Scoped == {"workloads", "services", "deployments", "networks", "volumes", "secrets", "configmaps"}
Global == {"projects", "buckets", "alerts"}
\* Paths without authRequired: metrics, and those that the mux of cloudapi and
\* cloudinit gives to the router of internal/inference.
Open == {"metrics", "models", "chat/completions"}
Paths == Scoped \cup Global \cup Open \cup {"users", "apikeys", "nodes", "objects", "logs"}

Init ==
  /\ now = 0 /\ server = "down"
  /\ users = <<>> /\ keys = <<>> /\ store = {}
  /\ cred = [c \in Clients |-> NoCred]
  /\ call = [c \in Clients |-> Idle]
  /\ sent = 0
  /\ focus \in Paths \ {"users", "apikeys"}

-----------------------------------------------------------------------------
(* internal/identity.                                                       *)

\* The key of each command's HMAC.
HmacKey(s) == IF s = "cloudapi" THEN "dev-hmac-key" ELSE "devkey"

\* FindUserByEmail returns one of the users with the address.
WithEmail(email) == {i \in DOMAIN users : users[i].email = email}

NewUser(email, password, admin) == [email |-> email, password |-> password, admin |-> admin]

\* The users after BootstrapAdmin.
BootstrapAdmin ==
  IF WithEmail(AdminEmail) # {} THEN users ELSE Append(users, NewUser(AdminEmail, AdminEmail, TRUE))

\* signToken for a user who logged in now.
Token(i) == [sort |-> "token", user |-> i, exp |-> now + TokenLife, key |-> HmacKey(server)]

\* Login for the user that FindUserByEmail returned, VerifyPassword included.
Login(i, password) == IF users[i].password = password THEN Token(i) ELSE NoCred

VerifyToken(t) == t.sort = "token" /\ t.key = HmacKey(server) /\ now <= t.exp

\* IssueAPIKey: when the new record expires.
IssueAPIKey(ttl) == now + ttl

\* AuthAPIKey: the record of the secret is there and has not expired.
AuthAPIKey(t) == t.sort = "key" /\ t.user \in DOMAIN keys /\ now <= keys[t.user]

\* matchPart on the patterns the granted rules have.
MatchPart(pattern, value) == pattern \in {"", "*"} \/ pattern = value

\* Only viewer is ever granted.
BuiltinRoles ==
  [admin |-> {<<"*", "*">>}, editor |-> {<<"*", "*">>}, viewer |-> {<<"get", "*">>, <<"list", "*">>},
   operator |-> {<<"get", "nodes">>, <<"list", "nodes">>, <<"post", "nodes">>, <<"get", "workloads">>,
                 <<"list", "workloads">>, <<"get", "metrics">>, <<"get", "alerts">>, <<"list", "alerts">>}]

RulesFor(u) == IF u.admin THEN {<<"*", "*">>} ELSE BuiltinRoles["viewer"]

Authorize(u, verb, resource) ==
  \E r \in RulesFor(u) : MatchPart(r[1], verb) /\ MatchPart(r[2], resource)

-----------------------------------------------------------------------------
(* Requests.                                                                *)

Req(from, method, path, project, id) ==
  [from |-> from, method |-> method, path |-> path, project |-> project, id |-> id]

Get(from, path, project) == Req(from, "GET", path, project, "")
Post(from, path, project, id) == Req(from, "POST", path, project, id)

\* A caller may leave any argument empty.
Args == Names \cup {""}
InOrOut(path) == IF path \in Scoped THEN {"", "p"} ELSE {""}

\* The two requests about the objects of a path.
ListAndCreate(from, path) ==
  UNION {{Get(from, path, pr), Post(from, path, pr, n)} : pr \in InOrOut(path), n \in Args}

\* pkg/sdk/go: the requests that Client's methods build.
SDK ==
  ListAndCreate("sdk", "workloads") \cup UNION {{Post("sdk", "projects", "", n), Post("sdk", "buckets", "", n)} : n \in Args}

sdkChat == {Post("sdk", "chat/completions", "", n) : n \in Args}

\* examples: microservice uses the SDK, ai-workload net/http.
microservice == UNION {{Post("sdk", "projects", "", n), Post("sdk", "workloads", "p", n)} : n \in Names}
aiWorkload == {Post("example", "chat/completions", "", "echo")}

\* cmd/cloudctl: the requests that its commands build.  Flags count before the
\* subcommand only: fs.Parse stops at the first word that is none, so behind it
\* --project_id and the workload's --id are ignored and stay empty.
userCmd == {Post("ctl", "users", "", n) : n \in Args}
projectCmd == ListAndCreate("ctl", "projects")
workloadCmd == ListAndCreate("ctl", "workloads")
serviceCmd == ListAndCreate("ctl", "services")
deploymentCmd == ListAndCreate("ctl", "deployments")
networkCmd == ListAndCreate("ctl", "networks")
volumeCmd == ListAndCreate("ctl", "volumes")
secretCmd == ListAndCreate("ctl", "secrets")
configmapCmd == ListAndCreate("ctl", "configmaps")
bucketCmd == ListAndCreate("ctl", "buckets")
nodeCmd == {Get("ctl", "nodes", "")}
modelCmd == {Get("ctl", "models", "")}
chatCmd == {Post("ctl", "chat/completions", "", n) : n \in Args \cup {"echo"}}
\* The switch of main, for arguments that reach it: main takes flag.Args()
\* without a flag.Parse(), so that as it stands it always ends in usage().
Ctl == userCmd \cup projectCmd \cup workloadCmd \cup serviceCmd \cup deploymentCmd \cup networkCmd
       \cup volumeCmd \cup secretCmd \cup configmapCmd \cup bucketCmd \cup nodeCmd
       \cup modelCmd \cup chatCmd

Raw(path) ==
  UNION {{Req("raw", m, path, project, "") : m \in {"GET", "DELETE", "PATCH"}}
         \cup {Req("raw", "POST", path, project, id) : id \in {"", BadJSON} \cup Names} : project \in InOrOut(path)}

\* The requests of a behaviour: those of one path, and the ones that change
\* users and keys, which are all that handlers of different paths share.
Requests ==
  {r \in SDK \cup sdkChat \cup microservice \cup aiWorkload \cup Ctl : r.path \in {focus, "users", "apikeys"}}
  \cup UNION {Raw(path) : path \in {focus, "users", "apikeys"}}

\* The SDK returns an error, and cloudctl and the example exit, for a status ...
do(code) == IF code >= 400 THEN code ELSE 0
check(code) == IF code \in {200, 201} THEN 0 ELSE code

\* ... and the state of a client that got an answer keeps those that say that
\* the request was wrong, unless its project or its ID was left empty.
Lacks(r) == (r.path \in Scoped /\ r.project = "") \/ (r.method = "POST" /\ r.id = "")
Answered(r, code) ==
  LET told == CASE r.from = "raw" -> 0 [] r.from = "sdk" -> do(code) [] OTHER -> check(code)
      bad  == IF Lacks(r) THEN {404, 405} ELSE {400, 404, 405}
  IN [Idle EXCEPT !.code = IF told \in bad THEN told ELSE 0]

\* Mutant of VerbFor: only DELETE is told apart from reading.
VerbForLoose(method) == IF method = "DELETE" THEN "delete" ELSE "get"

VerbFor(method) ==
  CASE method = "POST" -> "create" [] method = "PUT" -> "update" [] method = "DELETE" -> "delete" [] OTHER -> "get"

\* The resource of a path under /v1/: the whole path if it has one more part,
\* which no rule of a role but "*" matches.
ResourceFor(path) == IF path = "objects" THEN path ELSE <<"/v1/", path>>

\* do and call send the request, with the client's credential.
Send(c) ==
  /\ server # "down" /\ sent < MaxRequests
  /\ call[c].pc = "idle"
  /\ sent' = sent + 1

Bearer(c) == cred[c]

\* authRequired looks for a token, else an API key, whose bearer is no
\* administrator.
AuthRequired(c) ==
  /\ Send(c)
  /\ \E r \in {q \in Requests : q.path \notin Open} :
     LET t == Bearer(c)
         u == IF VerifyToken(t) THEN [id |-> t.user, admin |-> users[t.user].admin] ELSE NoUser
     IN call' = [call EXCEPT ![c] =
          IF ~VerifyToken(t) /\ ~AuthAPIKey(t) THEN Answered(r, 401)
          ELSE IF ~Authorize(u, VerbFor(r.method), ResourceFor(r.path)) THEN Answered(r, 403)
          ELSE [Idle EXCEPT !.pc = "handle", !.req = r, !.user = u]]
  /\ UNCHANGED <<now, server, users, keys, store, cred>>

-----------------------------------------------------------------------------
(* Handlers.                                                                *)

At(c, path) == call[c].pc = "handle" /\ call[c].req.path = path

Reply(c, code) == call' = [call EXCEPT ![c] = Answered(call[c].req, code)]

\* The handler changes nothing.
Answer(c, code) == Reply(c, code) /\ UNCHANGED <<now, server, users, keys, store, cred, sent>>

Exists(kind, project, id) == \E o \in store : o.kind = kind /\ o.project = project /\ o.id = id

\* POST: the body is decoded, an ID required, and the object created unless
\* there is one.
Create(c, project) ==
  LET r   == call[c].req
      new == [kind |-> r.path, project |-> project, id |-> r.id]
  IN IF r.id \in {"", BadJSON} THEN Answer(c, 400)
     ELSE IF Exists(r.path, project, r.id) THEN Answer(c, 409)
     ELSE /\ store' = store \cup {new}
          /\ Reply(c, 201)
          /\ UNCHANGED <<now, server, users, keys, cred, sent>>

\* The switch over the method.
Resource(c, project) ==
  CASE call[c].req.method = "GET"  -> Answer(c, 200)
    [] call[c].req.method = "POST" -> Create(c, project)
    [] OTHER                       -> Answer(c, 405)

InProject(c) == IF call[c].req.project = "" THEN Answer(c, 400) ELSE Resource(c, call[c].req.project)

handleProjects(c) == At(c, "projects") /\ Resource(c, "")
handleWorkloads(c) == At(c, "workloads") /\ InProject(c)
handleServices(c) == At(c, "services") /\ InProject(c)
handleDeployments(c) == At(c, "deployments") /\ InProject(c)
handleNetworks(c) == At(c, "networks") /\ InProject(c)
handleVolumes(c) == At(c, "volumes") /\ InProject(c)
handleSecrets(c) == At(c, "secrets") /\ InProject(c)
handleConfigMaps(c) == At(c, "configmaps") /\ InProject(c)

\* Mutant of handleBuckets: a project is required.
handleBucketsInProject(c) == At(c, "buckets") /\ InProject(c)

handleBuckets(c) == At(c, "buckets") /\ Resource(c, "")
handleAlerts(c) == At(c, "alerts") /\ Resource(c, "")

ReadOnly(c) == Answer(c, IF call[c].req.method = "GET" THEN 200 ELSE 405)
handleNodes(c) == At(c, "nodes") /\ ReadOnly(c)
handleLogs(c) == At(c, "logs") /\ ReadOnly(c)

\* No command of the platform stores objects: GET finds none, DELETE succeeds.
handleObjects(c) ==
  /\ At(c, "objects")
  /\ Answer(c, CASE call[c].req.method = "GET" -> 404 [] call[c].req.method = "DELETE" -> 204 [] OTHER -> 405)

\* POST creates a user, whether or not the address is taken.
handleUsers(c) ==
  /\ At(c, "users")
  /\ LET r == call[c].req
     IN IF r.method # "POST" THEN Answer(c, IF r.method = "GET" THEN 200 ELSE 405)
        ELSE IF r.id \in {"", BadJSON} THEN Answer(c, 400)
        ELSE /\ \E admin \in BOOLEAN : users' = Append(users, NewUser(r.id, r.id, admin))
             /\ Reply(c, 201)
             /\ UNCHANGED <<now, server, keys, store, cred, sent>>

\* POST issues a key with a lifetime of zero; some client uses the secret.
handleAPIKeys(c) ==
  /\ At(c, "apikeys")
  /\ LET r == call[c].req
     IN IF r.method # "POST" THEN Answer(c, IF r.method = "GET" THEN 200 ELSE 405)
        ELSE IF r.id = BadJSON THEN Answer(c, 400)
        ELSE /\ keys' = Append(keys, IssueAPIKey(0))
             /\ \E d \in Clients : cred' = [cred EXCEPT ![d] = [NoCred EXCEPT !.sort = "key", !.user = Len(keys) + 1]]
             /\ Reply(c, 201)
             /\ UNCHANGED <<now, server, users, store, sent>>

\* A login that succeeds leaves the client with the token: ...
handleLogin(c, email, password) ==
  /\ server # "down" /\ call[c].pc = "idle"
  /\ \E i \in WithEmail(email) :
        /\ Login(i, password) # NoCred
        /\ cred' = [cred EXCEPT ![c] = Login(i, password)]
  /\ UNCHANGED <<now, server, users, keys, store, call, sent>>

\* ... cloudctl prints it for its later calls, the SDK stores it.
loginCmd(c) == \E e \in Names \cup {AdminEmail} : handleLogin(c, e, e)
sdkLogin(c) == \E e \in Names \cup {AdminEmail} : handleLogin(c, e, e)
webapp(c) == handleLogin(c, AdminEmail, AdminEmail)

handleMetrics(r) == IF r.method = "GET" THEN 200 ELSE 405

\* The list of the models, whatever is registered.
handleModels == 200

\* ServeHTTP of the router, until the engine is called: no model is unknown.
ServeHTTP(r) ==
  CASE r.path = "models" /\ r.method = "GET" -> handleModels
    [] r.path = "chat/completions" /\ r.method = "POST" -> IF r.id \in {"", BadJSON} THEN 400 ELSE 200
    [] OTHER -> 404

\* A request of an open path.
AnswerOpen(c) ==
  /\ Send(c)
  /\ \E r \in {q \in Requests : q.path \in Open} :
        call' = [call EXCEPT ![c] = Answered(r, IF r.path = "metrics" THEN handleMetrics(r) ELSE ServeHTTP(r))]
  /\ UNCHANGED <<now, server, users, keys, store, cred>>

Handle(c) ==
  \/ handleProjects(c) \/ handleWorkloads(c) \/ handleServices(c) \/ handleDeployments(c) \/ handleNetworks(c)
  \/ handleVolumes(c) \/ handleSecrets(c) \/ handleConfigMaps(c) \/ handleBuckets(c) \/ handleAlerts(c)
  \/ handleNodes(c) \/ handleLogs(c) \/ handleObjects(c) \/ handleUsers(c) \/ handleAPIKeys(c)

-----------------------------------------------------------------------------
\* The store is opened, the administrator made sure of, and the routes served.
Boot(s) ==
  /\ server = "down"
  /\ server' = s
  /\ users' = BootstrapAdmin
  /\ UNCHANGED <<now, keys, store, cred, call, sent>>

\* main of the two commands that serve the API.
cloudapi == Boot("cloudapi")
cloudinit == Boot("cloudinit")

\* The process ends: the requests in it are lost, clients and store stay.
Exit ==
  /\ server # "down"
  /\ server' = "down"
  /\ call' = [c \in Clients |-> IF call[c].pc = "idle" THEN call[c] ELSE Idle]
  /\ UNCHANGED <<now, users, keys, store, cred, sent>>

Tick ==
  /\ now < MaxTime
  /\ now' = now + 1
  /\ UNCHANGED <<server, users, keys, store, cred, call, sent>>

Step ==
  \/ \E c \in Clients :
       \/ AuthRequired(c) \/ AnswerOpen(c)
       \/ loginCmd(c) \/ sdkLogin(c) \/ webapp(c)
       \/ Handle(c)
  \/ cloudapi \/ cloudinit \/ Exit \/ Tick

Next == Step /\ UNCHANGED focus

Spec == Init /\ [][Next]_vars

-----------------------------------------------------------------------------
\* While a server runs, users, keys and objects change only in a handler whose
\* caller is an administrator: verbFor's reading of the method, which lets any
\* authenticated caller through for methods it does not know, and the handlers'
\* own switches over the method agree.  A bearer of an API key only reads.
OnlyAdminsWrite ==
  [][<<users, keys, store>>' # <<users, keys, store>>
       => \/ server = "down"
          \/ \E c \in Clients : call[c].pc = "handle" /\ call'[c].pc = "idle" /\ call[c].user.admin]_vars

\* What the SDK, the examples and cloudctl send fits the routes: an answer is
\* never 404 or 405, and 400 only if the project or the ID was left empty.
ClientsFit == \A c \in Clients : call[c].code \notin {400, 404, 405}
==============================================================================

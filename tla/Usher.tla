------------------------------- MODULE Usher -------------------------------
(***************************************************************************)
(* One usher process in front of the deployments it was configured with:   *)
(* the table of hosts, what becomes of a request from its first line to    *)
(* its answer, the polls that failing requests ask for, the probes and the *)
(* shutdown.  A request keeps the reverse proxy that it was given, also    *)
(* when the tracker has a new leader before the answer comes.              *)
(*                                                                         *)
(* Abstracted: hosts are names with the port and the final dot told apart, *)
(* paths are sequences of segments, sizes are small numbers; a tracker's   *)
(* view is the URL it has applied, and its numbers, epochs and stream are  *)
(* Routing's; a poll is answered and applied in one step, and what a       *)
(* backend other than the published leader answers is its gate.            *)
(***************************************************************************)
EXTENDS Integers, Sequences, FiniteSets, SequencesExt

CONSTANTS
  Dep,             \* names of deployments
  Urls,            \* Urls[d]: the leaders that d may have
  NoUrl,
  Unpublished,     \* bigbrain has not yet published d's leader
  Configs,         \* what the file, the flags and the environment may say
  Lower,           \* strings.ToLower, as a function on the words used
  ValidHost,       \* those that hostnameRe matches
  Requests,
  DefaultMaxBody,
  MaxVersion,      \* maxClientVersionBytes
  NudgeInterval,   \* nudgeCoalesceInterval, in ticks
  ShutdownTimeout, \* in ticks
  Client,
  MaxChanges,      \* bound on the changes of leaders
  MaxFailures        \* bound on failing polls and connections to a published leader

ASSUME UsherAssumption ==
  /\ NudgeInterval \in Nat \ {0} /\ ShutdownTimeout \in Nat
  /\ MaxChanges \in Nat /\ MaxFailures \in Nat /\ DefaultMaxBody \in Nat
  /\ \A d \in Dep : Unpublished \notin Urls[d] \union {NoUrl}
  /\ \A cfg \in Configs :
       /\ cfg.deployments \in Seq(ToSet(cfg.deployments))
       /\ cfg.maxBody = << >> \/ cfg.maxBody[1] \in Int

VARIABLES
  config,    \* the deployments of the configuration in force
  routes,    \* host -> [dep, site]
  monoHost,  \* or the empty host
  maxBody,   \* maxBodyBytes, 0 for no cap
  phase,     \* of run(), "exited" at once when the configuration is refused
  code,      \* what it returns
  served,    \* srv.Serve has failed, or not
  waited,    \* ticks since the shutdown began
  announced, \* what bigbrain has published of each deployment
  routed,    \* leaderURL and, with it, both proxies
  resolved,  \* of a tracker
  polling,   \* deployments with a poll under way
  resolveCh,      \* deployments whose resolveCh holds a token
  pace,      \* ticks to nextResolve
  inflight,      \* the request of each client
  changes, failures,
  askedFor,  \* ticks since the last poll began, up to a limit; read by no action
  cleared,   \* deployments that bigbrain has published as leaderless; read by no action
  saidReady  \* readyz has answered 200; read by no action

tableVars == <<config, routes, monoHost, maxBody>>
processVars == <<phase, code, served, waited>>
trackerVars == <<routed, resolved, polling, resolveCh, pace, askedFor>>
worldVars == <<announced, changes, failures, cleared>>
usherVars == <<tableVars, processVars, trackerVars, worldVars, inflight, saidReady>>

-----------------------------------------------------------------------------
(* Configuration. *)

\* The hosts that are set, by deployment and field, and what each is looked up as.
hostFields == {"host", "siteHost"}
hostsOf(ds) == {s \in (DOMAIN ds) \X hostFields : ds[s[1]][s[2]] # ""}
hostAt(ds, s) == Lower[ds[s[1]][s[2]]]
allHosts(ds) == {hostAt(ds, s) : s \in hostsOf(ds)}

validateDeployments(ds) ==
  /\ \A i \in DOMAIN ds : ds[i].host # "" /\ ds[i].name \in Dep
  /\ \A i, j \in DOMAIN ds : ds[i].name = ds[j].name => i = j
  /\ allHosts(ds) \subseteq ValidHost
  /\ \A s, t \in hostsOf(ds) : hostAt(ds, s) = hostAt(ds, t) => s = t

\* rest: bigbrain's URL, the file and the listener are in order.
validateConfig(cfg) ==
  /\ cfg.rest /\ cfg.deployments # << >> /\ (cfg.mono => Len(cfg.deployments) = 1)
  /\ validateDeployments(cfg.deployments)

\* The cap of a variable that is unset, << >>, or a number; negative for an error.
parseMaxBodyBytes(v) == IF v = << >> THEN DefaultMaxBody ELSE v[1]

Route(d, isSite) == [dep |-> d, site |-> isSite]

routeOfHost(ds, s) == Route(ds[s[1]].name, s[2] = "siteHost")

routeTable(ds) == [h \in allHosts(ds) |-> routeOfHost(ds, CHOOSE s \in hostsOf(ds) : hostAt(ds, s) = h)]

NoRequest == [stage |-> "none"]

UsherInit ==
  /\ \E cfg \in Configs :
       IF validateConfig(cfg) /\ parseMaxBodyBytes(cfg.maxBody) >= 0
       THEN /\ config = cfg.deployments /\ routes = routeTable(config)
            /\ monoHost = IF cfg.mono THEN Lower[cfg.deployments[1].host] ELSE ""
            /\ maxBody = parseMaxBodyBytes(cfg.maxBody)
            /\ phase = "serving" /\ code = 0
            /\ polling = {cfg.deployments[i].name : i \in DOMAIN cfg.deployments}
       ELSE /\ config = << >> /\ routes = << >> /\ monoHost = "" /\ maxBody = 0
            /\ phase = "exited" /\ code = 1 /\ polling = {}
  /\ served = TRUE /\ waited = 0
  /\ announced = [d \in Dep |-> Unpublished] /\ routed = [d \in Dep |-> NoUrl]
  /\ resolved = {} /\ resolveCh = {} /\ pace = [d \in Dep |-> 0] /\ askedFor = [d \in Dep |-> 0]
  /\ inflight = [c \in Client |-> NoRequest]
  /\ changes = 0 /\ failures = MaxFailures /\ cleared = {} /\ saidReady = FALSE

Trackers == {routes[h].dep : h \in DOMAIN routes}

-----------------------------------------------------------------------------
(* A request. *)

healthzPath == <<"usher", "healthz">>
readyzPath == <<"usher", "readyz">>
isProbePath(p) == p \in {healthzPath, readyzPath}

\* path.Clean of an absolute path.
Clean(p) ==
  LET Enter(dir, s) == IF s \in {"", "."} THEN dir
                       ELSE IF s # ".." THEN Append(dir, s)
                       ELSE IF dir = << >> THEN dir ELSE Front(dir)
  IN  FoldLeft(Enter, << >>, p)

isBlockedAPIPath(p) ==
  \E q \in {p, Clean(p)} :
    LET low == [i \in DOMAIN q |-> Lower[q[i]]]
    IN  low = <<"metrics">> \/ (low # << >> /\ low[1] \in {"instance", "http"})

Answer(r, a) == [stage |-> "answered", request |-> r, answer |-> a]

ready == Trackers \subseteq resolved

serveProbe(r) ==
  Answer(r, IF ~isProbePath(r.path) THEN "unknown host"
            ELSE IF r.method \notin {"GET", "HEAD"} THEN "method not allowed"
            ELSE IF r.path = readyzPath /\ ~ready THEN "resolving" ELSE "ok")

allowedMethod(m) == m \in {"GET", "HEAD", "POST", "PUT", "PATCH", "DELETE", "OPTIONS"}

\* serveHTTP; currentLeader gives the site's proxy or the other, of one leader.
serveHTTP(r, rt) ==
  IF ~rt.site /\ isBlockedAPIPath(r.path) THEN Answer(r, "not found")
  ELSE IF ~allowedMethod(r.method) THEN Answer(r, "method not allowed")
  ELSE IF r.version > MaxVersion THEN Answer(r, "bad request")
  ELSE IF maxBody > 0 /\ r.length > maxBody THEN Answer(r, "too large")
  ELSE IF routed[rt.dep] = NoUrl THEN Answer(r, "no leader")
  ELSE [stage |-> "upstream", request |-> r, dep |-> rt.dep, site |-> rt.site, url |-> routed[rt.dep]]

\* Mutant: the host is looked up as the client writes it.
routeOf_AsSent(r) ==
  LET host == r.host.base
  IN  IF host \in DOMAIN routes THEN {routes[host]}
      ELSE IF monoHost # "" /\ ~isProbePath(r.path) THEN {routes[monoHost]} ELSE {}

\* The port and the final dot of r.Host do not count.
routeOf(r) ==
  LET host == Lower[r.host.base]
  IN  IF host \in DOMAIN routes THEN {routes[host]}
      ELSE IF monoHost # "" /\ ~isProbePath(r.path) THEN {routes[monoHost]} ELSE {}

newMux(r) == IF routeOf(r) = {} THEN serveProbe(r) ELSE serveHTTP(r, CHOOSE rt \in routeOf(r) : TRUE)

Arrive(c, r) ==
  /\ phase = "serving" /\ served /\ inflight[c].stage # "upstream"
  /\ inflight' = [inflight EXCEPT ![c] = newMux(r)]
  /\ saidReady' = (saidReady \/ (r.path = readyzPath /\ newMux(r) = Answer(r, "ok")))
  /\ UNCHANGED <<tableVars, processVars, trackerVars, worldVars>>

Finish(c, a) ==
  inflight' = [inflight EXCEPT ![c] = [stage |-> "answered", request |-> @.request, answer |-> a,
                               dep |-> @.dep, site |-> @.site, url |-> @.url]]

\* Mutant: each failing request puts off the next poll.
nudge_Slides(d) ==
  /\ pace' = [pace EXCEPT ![d] = NudgeInterval]
  /\ resolveCh' = IF pace[d] > 0 THEN resolveCh ELSE resolveCh \union {d}

nudge(d) ==
  IF pace[d] > 0 THEN UNCHANGED <<pace, resolveCh>>
  ELSE pace' = [pace EXCEPT ![d] = NudgeInterval] /\ resolveCh' = resolveCh \union {d}

\* The backend answers: the leader as it likes, 421 and gate header included (a
\* response it proxied itself), another with the gate of a follower.
\* Mutant: a gated answer is passed on as an error, and no more.
ModifyResponse_NoNudge(c, status, gated) ==
  IF status = 421 /\ gated THEN Finish(c, "retry") /\ UNCHANGED <<pace, resolveCh>>
  ELSE Finish(c, "passed") /\ UNCHANGED <<pace, resolveCh>>

ModifyResponse(c, status, gated) ==
  IF status = 421 /\ gated THEN Finish(c, "retry") /\ nudge(inflight[c].dep)
  ELSE Finish(c, "passed") /\ UNCHANGED <<pace, resolveCh>>

Upstream(c) == phase # "exited" /\ inflight[c].stage = "upstream"

Leads(c) == announced[inflight[c].dep] = inflight[c].url

Quiet == UNCHANGED <<tableVars, processVars, routed, resolved, polling, askedFor, saidReady>>

UpstreamAnswers(c) ==
  /\ Upstream(c)
  /\ \E status \in {200, 421}, gated \in BOOLEAN :
       /\ Leads(c) \/ (status = 421 /\ gated)
       /\ ModifyResponse(c, status, gated)
  /\ Quiet /\ UNCHANGED worldVars

\* ErrorHandler: the backend cannot be reached or the connection breaks.
UpstreamFails(c) ==
  /\ Upstream(c)
  /\ IF Leads(c) THEN failures > 0 /\ failures' = failures - 1 ELSE UNCHANGED failures
  /\ Finish(c, "retry") /\ nudge(inflight[c].dep)
  /\ Quiet /\ UNCHANGED <<announced, changes, cleared>>

\* ErrorHandler: MaxBytesReader has stopped the body.
BodyTooLarge(c) ==
  /\ Upstream(c) /\ maxBody > 0 /\ inflight[c].request.body > maxBody
  /\ Finish(c, "too large")
  /\ Quiet /\ UNCHANGED <<pace, resolveCh, worldVars>>

\* ErrorHandler: the request's own context is done, and nobody is told.
ClientGone(c) ==
  /\ Upstream(c)
  /\ inflight' = [inflight EXCEPT ![c] = NoRequest]
  /\ Quiet /\ UNCHANGED <<pace, resolveCh, worldVars>>

-----------------------------------------------------------------------------
(* The trackers. *)

Apply(d) == routed' = [routed EXCEPT ![d] = announced[d]]

\* The initial poll is under way from the start; later ones are on a token or on
\* the ticker.
ResolveStart(d) ==
  /\ phase = "serving" /\ d \in Trackers \ polling
  /\ polling' = polling \union {d} /\ resolveCh' \in {resolveCh \ {d}, resolveCh}
  /\ askedFor' = [askedFor EXCEPT ![d] = 0]
  /\ UNCHANGED <<tableVars, processVars, worldVars, routed, resolved, pace, inflight, saidReady>>

ResolveAnswered(d) ==
  /\ phase = "serving" /\ d \in polling /\ announced[d] # Unpublished
  /\ polling' = polling \ {d} /\ resolved' = resolved \union {d} /\ Apply(d)
  /\ UNCHANGED <<tableVars, processVars, worldVars, resolveCh, pace, askedFor, inflight, saidReady>>

ResolveFailing(d) ==
  /\ phase = "serving" /\ d \in polling
  /\ IF announced[d] = Unpublished THEN UNCHANGED failures ELSE failures > 0 /\ failures' = failures - 1
  /\ polling' = polling \ {d}
  /\ UNCHANGED <<tableVars, processVars, announced, changes, cleared, routed, resolveCh, pace, askedFor,
                 inflight, saidReady>>

\* Mutant: a poll has ended, so the tracker has its leader.
ResolveFails_Resolves(d) == ResolveFailing(d) /\ resolved' = resolved \union {d}

ResolveFails(d) == ResolveFailing(d) /\ UNCHANGED resolved

\* An event of the stream, of a bigbrain that has been polled.
StreamEvent(d) ==
  /\ phase = "serving" /\ d \in resolved /\ routed[d] # announced[d]
  /\ Apply(d)
  /\ UNCHANGED <<tableVars, processVars, worldVars, resolved, polling, resolveCh, pace, askedFor, inflight,
                 saidReady>>

\* bigbrain publishes; with NoLeader, that there is none.
Publish(d, u) ==
  /\ phase = "serving" /\ changes < MaxChanges /\ announced[d] # u
  /\ announced' = [announced EXCEPT ![d] = u] /\ changes' = changes + 1
  /\ cleared' = IF u = NoUrl THEN cleared \union {d} ELSE cleared
  /\ UNCHANGED <<tableVars, processVars, trackerVars, failures, inflight, saidReady>>

-----------------------------------------------------------------------------
(* The process. *)

Stop(ok) ==
  /\ phase = "serving"
  /\ phase' = "closing" /\ served' = ok
  /\ UNCHANGED <<tableVars, trackerVars, worldVars, code, waited, inflight, saidReady>>

Signal == Stop(TRUE)
ServeFails == Stop(FALSE)

drained == \A c \in Client : inflight[c].stage # "upstream"

\* Shutdown returns.
mayExit == drained \/ waited = ShutdownTimeout

Exit ==
  /\ phase = "closing" /\ mayExit
  /\ phase' = "exited" /\ code' = IF served THEN 0 ELSE 1
  /\ UNCHANGED <<tableVars, trackerVars, worldVars, served, waited, inflight, saidReady>>

\* A deadline is kept; counters stop where they tell nothing more.
Tick ==
  /\ phase # "exited"
  /\ phase = "closing" => ~mayExit
  /\ waited' = IF phase = "closing" /\ waited < ShutdownTimeout THEN waited + 1 ELSE waited
  /\ pace' = [d \in Dep |-> IF pace[d] > 0 THEN pace[d] - 1 ELSE 0]
  /\ askedFor' = [d \in Dep |-> IF askedFor[d] < NudgeInterval /\ d \in Trackers THEN askedFor[d] + 1 ELSE askedFor[d]]
  /\ UNCHANGED <<tableVars, phase, code, served, routed, resolved, polling, resolveCh, worldVars, inflight, saidReady>>

RequestStep(c) == UpstreamAnswers(c) \/ UpstreamFails(c) \/ BodyTooLarge(c) \/ ClientGone(c)
TrackerStep(d) == ResolveStart(d) \/ ResolveAnswered(d) \/ ResolveFails(d) \/ StreamEvent(d)

UsherNext ==
  \/ \E c \in Client : RequestStep(c) \/ \E r \in Requests : Arrive(c, r)
  \/ \E d \in Dep : TrackerStep(d) \/ \E u \in Urls[d] \union {NoUrl} : Publish(d, u)
  \/ Signal \/ ServeFails \/ Exit \/ Tick

UsherSpec == UsherInit /\ [][UsherNext]_usherVars

\* Requests keep coming and some are waited for, a token leads to a poll and a poll
\* to an answer; nothing is asked of the ticker of 60 s, nor of the stream.
UsherFairness ==
  /\ WF_usherVars(Tick) /\ WF_usherVars(Exit)
  /\ \A c \in Client : /\ WF_usherVars(\E r \in Requests : Arrive(c, r))
                       /\ SF_usherVars(phase = "serving" /\ (UpstreamAnswers(c) \/ UpstreamFails(c)))
  /\ \A d \in Dep : /\ WF_usherVars(d \in resolveCh /\ ResolveStart(d) /\ resolveCh' = resolveCh \ {d})
                    /\ WF_usherVars(ResolveAnswered(d) \/ ResolveFails(d))

FairUsherSpec == UsherSpec /\ UsherFairness

-----------------------------------------------------------------------------
(* Properties. *)

\* Also: every deployment and every site of the configuration in force has its host.
UsherTypeOK ==
  /\ DOMAIN routes = allHosts(config)
  /\ \A s \in hostsOf(config) : routes[hostAt(config, s)] = routeOfHost(config, s)
  /\ monoHost \in DOMAIN routes \union {""} /\ maxBody \in Nat
  /\ phase \in {"serving", "closing", "exited"} /\ code \in {0, 1} /\ waited \in 0..ShutdownTimeout
  /\ \A d \in Dep : routed[d] \in Urls[d] \union {NoUrl} /\ pace[d] \in 0..NudgeInterval
  /\ resolved \subseteq Trackers /\ polling \subseteq Trackers /\ resolveCh \subseteq Trackers
  /\ \A c \in Client : inflight[c].stage \in {"none", "upstream", "answered"}

\* A request for a host of the configuration, however the configuration or the
\* client writes it, is one for that deployment's backends, under /http exactly when
\* it is the site's host, and never comes back as one for an unknown host: a
\* backend sees no other deployment's requests (run, newMux, currentLeader).
RightDeployment ==
  \A c \in Client, i \in DOMAIN config :
    LET Named(h) == h # "" /\ inflight[c].stage # "none" /\ Lower[inflight[c].request.host.base] = Lower[h]
    IN  Named(config[i].host) \/ Named(config[i].siteHost) =>
          /\ inflight[c].stage = "answered" => inflight[c].answer # "unknown host"
          /\ "url" \in DOMAIN inflight[c] => /\ inflight[c].url \in Urls[config[i].name]
                                        /\ inflight[c].site <=> Named(config[i].siteHost)

\* Whatever the table says, the kubelet's probes get usher's own answer (newMux).
ProbesAnswered ==
  \A c \in Client :
    inflight[c].stage # "none" /\ isProbePath(inflight[c].request.path)
      /\ Lower[inflight[c].request.host.base] \notin DOMAIN routes =>
        inflight[c].stage = "answered" /\ "url" \notin DOMAIN inflight[c] /\ inflight[c].answer # "no leader"

\* Every host of the configuration has its route, and every request goes by it: to
\* its own deployment's backends, or, for a probe, to usher itself (run, newMux).
UsherInv == UsherTypeOK /\ RightDeployment /\ ProbesAnswered

\* An usher that has called itself ready has no leader for a deployment only when
\* bigbrain did publish that there is none: it never turns requests away on a guess
\* (serveProbe, resolveOnce).
ReadyNeverGuesses ==
  saidReady => \A d \in Trackers : routed[d] = NoUrl => d \in cleared

\* When a request is turned away by a follower's gate or a broken connection,
\* bigbrain will be asked after it, or was asked within the interval before:
\* the pacing of polls swallows no failure (nudgeResolve, wakeResolve).
FailuresAreAsked ==
  [][\A c \in Client :
       inflight[c].stage = "upstream" /\ inflight'[c].stage = "answered" /\ inflight'[c].answer = "retry" =>
         inflight[c].dep \in resolveCh' \/ askedFor[inflight[c].dep] < NudgeInterval]_usherVars

\* Requests alone take a tracker off a backend that no longer leads: the first that
\* it turns away leads to a poll, also when the stream is silent.
StaleHeals ==
  \A d \in Dep :
    routed[d] # NoUrl /\ routed[d] # announced[d]
      ~> routed[d] \in {NoUrl, announced[d]} \/ phase # "serving"

\* The process ends once it is told to, whatever its requests do.
UsherStops == (phase = "closing") ~> (phase = "exited")

\* While usher serves, its requests take it off a stale leader (nudgeResolve); when
\* it is told to stop, it stops under them (run).
RequestsEnd == StaleHeals /\ UsherStops
-----------------------------------------------------------------------------
(* What makes them inductive. *)

Answers ==
  {"unknown host", "method not allowed", "resolving", "ok", "not found", "bad request", "too large", "no leader"}
Outcomes == {"retry", "passed", "too large"}

Sent(r, rt, u) == [stage |-> "upstream", request |-> r, dep |-> rt.dep, site |-> rt.site, url |-> u]
Back(r, rt, u, a) ==
  [stage |-> "answered", request |-> r, answer |-> a, dep |-> rt.dep, site |-> rt.site, url |-> u]

\* One that has not gone to a backend was turned away for what the table says.
OwnAnswer(f) ==
  \E r \in Requests, a \in Answers :
    /\ f = Answer(r, a)
    /\ (a = "unknown host" => routeOf(r) = {}) /\ (a = "no leader" => routeOf(r) # {})

\* One that has went by the route that the table has for it.
Proxied(f) ==
  \E r \in Requests : \E rt \in routeOf(r) : \E u \in Urls[rt.dep] :
    f = Sent(r, rt, u) \/ \E a \in Outcomes : f = Back(r, rt, u, a)

RequestsByTable ==
  \A c \in Client : inflight[c] = NoRequest \/ OwnAnswer(inflight[c]) \/ Proxied(inflight[c])

\* What is published, and what a tracker has applied of it.
LeadersPublished ==
  /\ \A d \in Dep : announced[d] \in Urls[d] \union {NoUrl, Unpublished} /\ routed[d] \in Urls[d] \union {NoUrl}
  /\ \A d \in Dep : announced[d] = NoUrl => d \in cleared
  /\ \A d \in resolved : announced[d] # Unpublished /\ (routed[d] = NoUrl => d \in cleared)
  /\ saidReady => Trackers \subseteq resolved

\* While polls are held back there is a token, or a poll has begun since.
PaceCovered ==
  \A d \in Dep :
    /\ askedFor[d] \in 0..NudgeInterval
    /\ pace[d] > 0 => d \in resolveCh \/ askedFor[d] + pace[d] <= NudgeInterval

UsherFits ==
  /\ UsherTypeOK
  /\ inflight = [c \in Client |-> inflight[c]]
  /\ \A f \in {announced, routed, pace, askedFor} : f = [d \in Dep |-> f[d]]
  /\ Trackers = {config[i].name : i \in DOMAIN config} /\ Trackers \subseteq Dep
  /\ \A s, t \in hostsOf(config) : hostAt(config, s) = hostAt(config, t) => s = t
  /\ RequestsByTable /\ LeadersPublished /\ PaceCovered
=============================================================================

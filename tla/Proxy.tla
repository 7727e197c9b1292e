-------------------------------- MODULE Proxy --------------------------------
(***************************************************************************)
(* The reverse proxy in front of the services (apps/pingora-proxy): it     *)
(* reads and validates its configuration once, watches the file, and for   *)
(* every request asks the client's limiter, chooses a backend by the       *)
(* longest prefix and one of its upstreams in turn.  Requests run at once  *)
(* on several threads; only the limiter has a lock.                        *)
(*                                                                         *)
(* Pingora itself, the upstreams and the file watcher of the operating     *)
(* system are external: what they do is chosen.                            *)
(***************************************************************************)
EXTENDS Integers, FiniteSets, SequencesExt

CONSTANTS
  None,
  Contents,        \* what the configuration file may hold: Settings or Unreadable
  Unreadable,      \* a file that is missing or is not YAML of the right shape
  Pems,            \* the paths of certificates and keys
  Clients,         \* addresses of clients
  Uris,            \* requested URIs, sequences of path pieces
  Slots,           \* requests that are under way at once
  MaxPerMinute,    \* 100 in the code
  Window,          \* the limiter's minute, in ticks
  TrueMeansGoOn,   \* how Pingora reads request_filter's answer Ok(true)
  InDirectory,     \* whether the path of the file names its directory
  MaxTime, MaxSlow, MaxArrivals, MaxEdits, MaxStarts  \* bounds

ASSUME ProxyAssumption ==
  /\ {MaxPerMinute, Window, MaxTime, MaxSlow, MaxArrivals, MaxEdits, MaxStarts} \subseteq Nat
  /\ TrueMeansGoOn \in BOOLEAN /\ InDirectory \in BOOLEAN
  /\ Unreadable \in Contents

\* None is neither a backend's name nor what a limiter keeps of a client.
ASSUME NoneAssumption ==
  /\ None \notin [count : Nat, reset : Int]
  /\ \A all \in Contents \ {Unreadable} : \A n \in DOMAIN all : None \notin DOMAIN all[n].backends

IsList(list) == list \in Seq(ToSet(list))

\* A readable file has, for each service, lists of upstreams and of routes.
ASSUME ContentsAssumption ==
  /\ \A all \in Contents \ {Unreadable} : \A n \in DOMAIN all :
       /\ IsList(all[n].routes) /\ \A i \in DOMAIN all[n].routes : IsList(all[n].routes[i].prefix)
       /\ \A b \in DOMAIN all[n].backends : IsList(all[n].backends[b])
  /\ \A uri \in Uris : IsList(uri)

VARIABLES
  file,      \* what the configuration file holds
  pems,      \* the state of each PEM file: "good", "bad" or "missing"
  edits,     \* how often either was changed
  stage,     \* the process: "down", "loaded", "serving"
  starts,    \* how often it was started
  settings,  \* the settings it read
  watcher,   \* the watching thread: "off", "starting", "watching", "failed"
  seen,      \* what the file held when the watching began
  events,    \* what the operating system told of the directory, not yet handled
  notice,    \* what the watcher last wrote to the log
  clock,     \* the time that has passed
  slow,      \* by how much the system's clock was put back
  limiters,  \* each service's limiter: a client's count and reset time
  turns,     \* each balancer's number of selections
  req,       \* the requests under way
  arrivals,  \* how many requests have come
  admits,    \* the requests the limiter let pass: service, client, time
  given      \* how many requests each upstream was given

files == <<file, pems, edits>>
watch == <<watcher, seen, events, notice>>
time == <<clock, slow>>
traffic == <<limiters, turns, req, admits, given>>
proxyVars == <<files, stage, starts, settings, watch, time, traffic, arrivals>>

-----------------------------------------------------------------------------
(* The configuration                                                       *)

\* Settings: for each service's name the backends, routes, default and TLS.
BackendsOf(s) == DOMAIN s.backends

\* Mutant of ServiceIsValid: routes are not looked at.
ServiceIsValidButRoutes(s) ==
  /\ BackendsOf(s) # {} /\ \A b \in BackendsOf(s) : s.backends[b] # <<>>
  /\ s.default \in BackendsOf(s)
  /\ s.tls # None => \A p \in {s.tls.cert, s.tls.key} : pems[p] # "missing"

\* Settings::validate, one service's part.
ServiceIsValid(s) ==
  /\ BackendsOf(s) # {} /\ \A b \in BackendsOf(s) : s.backends[b] # <<>>
  /\ s.default \in BackendsOf(s)
  /\ \A i \in DOMAIN s.routes : s.routes[i].backend \in BackendsOf(s)
  /\ s.tls # None => \A p \in {s.tls.cert, s.tls.key} : pems[p] # "missing"

Validate(all) == \A n \in DOMAIN all : ServiceIsValid(all[n])

\* validate_tls_version and validate_tls_config: the key must be a PKCS #8
\* key, of the certificate's file only that it can be read is asked.
ValidateTls(tls) ==
  /\ tls.version \in {"1.2", "1.3"}
  /\ pems[tls.cert] # "missing" /\ pems[tls.key] = "good"

\* select_backend: the longest prefix, the last route of those with the same
\* one, or the default backend; None where there is no such backend.
SelectBackend(s, uri) ==
  LET matched == {i \in DOMAIN s.routes : IsPrefix(s.routes[i].prefix, uri)}
      longest == {i \in matched : \A j \in matched : Len(s.routes[j].prefix) <= Len(s.routes[i].prefix)}
      name == IF matched = {} THEN s.default
              ELSE s.routes[CHOOSE i \in longest : \A j \in longest : j <= i].backend
  IN IF name \in BackendsOf(s) THEN name ELSE None

\* The balancer keeps a set of upstreams.
Upstreams(s, b) == SetToSeq(ToSet(s.backends[b]))

-----------------------------------------------------------------------------
(* The limiter                                                             *)

Wall == MaxSlow + clock - slow

\* Mutant of Check: the window begins once and for all.
CheckWithoutNewWindow(limiter, now) ==
  LET e == IF now - limiter.reset > Window THEN [limiter EXCEPT !.count = 0] ELSE limiter
  IN [entry |-> IF e.count < MaxPerMinute THEN [e EXCEPT !.count = @ + 1] ELSE e, pass |-> e.count < MaxPerMinute]

\* IpRateLimiter::check on a client's entry.
Check(limiter, now) ==
  LET e == IF now - limiter.reset > Window THEN [count |-> 0, reset |-> now] ELSE limiter
  IN [entry |-> IF e.count < MaxPerMinute THEN [e EXCEPT !.count = @ + 1] ELSE e, pass |-> e.count < MaxPerMinute]

\* entry(ip).or_insert((0, now))
EntryOf(limiter, c) == IF limiter[c] = None THEN [count |-> 0, reset |-> Wall] ELSE limiter[c]

-----------------------------------------------------------------------------
Services == DOMAIN settings

NothingUnderWay == req = [r \in Slots |-> None]

ProxyInit ==
  /\ file \in Contents /\ pems \in [Pems -> {"good", "bad"}] /\ edits = 0
  /\ stage = "down" /\ starts = 0 /\ settings = <<>>
  /\ watcher = "off" /\ seen = None /\ events = <<>> /\ notice = None
  /\ clock = 0 /\ slow = 0
  /\ limiters = <<>> /\ turns = <<>> /\ NothingUnderWay /\ admits = <<>> /\ given = <<>>
  /\ arrivals = 0

-----------------------------------------------------------------------------
(* main                                                                    *)

\* from_file, validate and the TLS checks; an error ends the process, which
\* stays down.
Load ==
  /\ stage = "down" /\ starts < MaxStarts
  /\ file # Unreadable /\ Validate(file)
  /\ \A n \in DOMAIN file : file[n].tls # None => ValidateTls(file[n].tls)
  /\ stage' = "loaded" /\ settings' = file /\ starts' = starts + 1
  /\ UNCHANGED <<files, watch, time, traffic, arrivals>>

\* watch_with_logging starts a thread and goes on.
StartWatcher ==
  /\ stage = "loaded" /\ watcher = "off" /\ watcher' = "starting"
  /\ UNCHANGED <<files, stage, starts, settings, seen, events, notice, time, traffic, arrivals>>

\* The services are made from the settings: balancers, limiters, listeners.
\* Addresses that do not resolve and certificates that do not load end the
\* process.
Serve(resolve) ==
  /\ stage = "loaded" /\ watcher # "off"
  /\ IF resolve /\ \A n \in Services : settings[n].tls # None =>
                      pems[settings[n].tls.cert] = "good" /\ pems[settings[n].tls.key] = "good"
     THEN /\ stage' = "serving"
          /\ limiters' = [n \in Services |-> [c \in Clients |-> None]]
          /\ turns' = [n \in Services |-> [b \in BackendsOf(settings[n]) |-> 0]]
          /\ given' = [n \in Services |-> [b \in BackendsOf(settings[n]) |->
                                             [u \in ToSet(settings[n].backends[b]) |-> 0]]]
          /\ admits' = <<>>
          /\ UNCHANGED <<settings, watch, req>>
     ELSE /\ stage' = "down" /\ settings' = <<>>
          /\ watcher' = "off" /\ seen' = None /\ events' = <<>> /\ notice' = None
          /\ UNCHANGED traffic
  /\ UNCHANGED <<files, starts, time, arrivals>>

\* The process is stopped: requests, limiters and balancers are gone.
Stop ==
  /\ stage = "serving" /\ stage' = "down" /\ settings' = <<>>
  /\ watcher' = "off" /\ seen' = None /\ events' = <<>> /\ notice' = None
  /\ limiters' = <<>> /\ turns' = <<>> /\ given' = <<>> /\ admits' = <<>> /\ req' = [r \in Slots |-> None]
  /\ UNCHANGED <<files, starts, time, arrivals>>

-----------------------------------------------------------------------------
(* The file and its watcher                                                *)

\* What the operating system tells of a change of the file.
Kinds(new) == IF new = Unreadable THEN {<<"Remove">>, <<"Modify">>}
              ELSE IF file = Unreadable THEN {<<"Create", "Modify">>, <<"Modify">>} ELSE {<<"Modify">>}

Told(kinds) == events' = IF watcher = "watching" THEN events \o kinds ELSE events

\* Somebody writes, replaces or removes the file.
EditFile(new) ==
  /\ edits < MaxEdits /\ new # file /\ file' = new /\ edits' = edits + 1
  /\ \E kinds \in Kinds(new) : Told(kinds)
  /\ UNCHANGED <<pems, stage, starts, settings, watcher, seen, notice, time, traffic, arrivals>>

\* Somebody writes another file of that directory.
EditNeighbour ==
  /\ edits < MaxEdits /\ edits' = edits + 1 /\ Told(<<"Other">>)
  /\ UNCHANGED <<file, pems, stage, starts, settings, watcher, seen, notice, time, traffic, arrivals>>

\* Somebody replaces or removes a PEM file.
EditPem(p, to) ==
  /\ edits < MaxEdits /\ pems[p] # to /\ pems' = [pems EXCEPT ![p] = to] /\ edits' = edits + 1
  /\ UNCHANGED <<file, stage, starts, settings, watch, time, traffic, arrivals>>

\* The thread asks to be told of changes, which may fail and does where the
\* path names no directory: the parent of a bare name is the empty path.
WatcherStarts(ok) ==
  /\ watcher = "starting"
  /\ IF ok /\ InDirectory THEN watcher' = "watching" /\ seen' = file ELSE watcher' = "failed" /\ seen' = seen
  /\ UNCHANGED <<files, stage, starts, settings, events, notice, time, traffic, arrivals>>

\* Mutant of Notice: writes in place are passed over.
NoticeOfRemoval(kind) == IF kind = "Remove" THEN "deleted" ELSE notice

\* What the log is given for an event: of the file itself, Modify and Remove.
Notice(kind) == CASE kind = "Modify" -> "modified" [] kind = "Remove" -> "deleted" [] OTHER -> notice

\* The settings stay as they are: the notice asks for a restart.
HandleEvent ==
  /\ events # <<>>
  /\ notice' = Notice(Head(events)) /\ events' = Tail(events)
  /\ UNCHANGED <<files, stage, starts, settings, watcher, seen, time, traffic, arrivals>>

-----------------------------------------------------------------------------
(* ProxyService                                                            *)

\* A request comes: new_ctx and request_filter, whose answer is Ok(true).
RequestFilter(r, n, c, uri) ==
  /\ stage = "serving" /\ n \in Services /\ req[r] = None /\ arrivals < MaxArrivals
  /\ arrivals' = arrivals + 1
  /\ LET b == SelectBackend(settings[n], uri) IN
     req' = [req EXCEPT ![r] = [service |-> n, client |-> c, uri |-> uri, peer |-> None,
                                logged |-> IF b = None THEN settings[n].default ELSE b,
                                state |-> IF TrueMeansGoOn THEN "filtered" ELSE "unanswered"]]
  /\ UNCHANGED <<files, stage, starts, settings, watch, time, limiters, turns, admits, given>>

Turn(n, b) == Upstreams(settings[n], b)[(turns[n][b] % Len(Upstreams(settings[n], b))) + 1]

\* Mutant of AskLimiter: the balancer was asked first, for those refused too.
AskLimiterLast(r) ==
  /\ req[r] # None /\ req[r].state = "filtered"
  /\ LET q == req[r]
         answer == Check(EntryOf(limiters[q.service], q.client), Wall)
         b == SelectBackend(settings[q.service], q.uri)
     IN /\ limiters' = [limiters EXCEPT ![q.service][q.client] = answer.entry]
        /\ req' = [req EXCEPT ![r].state = IF answer.pass THEN "admitted" ELSE "refused"]
        /\ admits' = IF answer.pass THEN Append(admits, [service |-> q.service, client |-> q.client, at |-> clock])
                     ELSE admits
        /\ turns' = IF answer.pass THEN turns ELSE [turns EXCEPT ![q.service][b] = @ + 1]
  /\ UNCHANGED <<files, stage, starts, settings, watch, time, given, arrivals>>

\* upstream_peer up to the limiter's unlocking.
AskLimiter(r) ==
  /\ req[r] # None /\ req[r].state = "filtered"
  /\ LET q == req[r]
         answer == Check(EntryOf(limiters[q.service], q.client), Wall)
     IN /\ limiters' = [limiters EXCEPT ![q.service][q.client] = answer.entry]
        /\ req' = [req EXCEPT ![r].state = IF answer.pass THEN "admitted" ELSE "refused"]
        /\ admits' = IF answer.pass THEN Append(admits, [service |-> q.service, client |-> q.client, at |-> clock])
                     ELSE admits
  /\ UNCHANGED <<files, stage, starts, settings, watch, time, turns, given, arrivals>>

\* upstream_peer from there: the backend, and its balancer's next upstream.
SelectPeer(r) ==
  /\ req[r] # None /\ req[r].state = "admitted"
  /\ LET q == req[r]
         b == SelectBackend(settings[q.service], q.uri)
     IN IF b = None \/ Upstreams(settings[q.service], b) = <<>>
        THEN /\ req' = [req EXCEPT ![r].state = "lost"] /\ UNCHANGED <<turns, given>>
        ELSE LET u == Turn(q.service, b) IN
             /\ req' = [req EXCEPT ![r].state = "forwarded", ![r].peer = u]
             /\ given' = [given EXCEPT ![q.service][b][u] = @ + 1]
             /\ turns' = [turns EXCEPT ![q.service][b] = @ + 1]
  /\ UNCHANGED <<files, stage, starts, settings, watch, time, limiters, admits, arrivals>>

\* The upstream answers or cannot be reached, and response_filter logs it; a
\* request that was refused, lost or left unanswered is over at once.
Finish(r) ==
  /\ req[r] # None /\ req[r].state \notin {"filtered", "admitted"}
  /\ req' = [req EXCEPT ![r] = None]
  /\ UNCHANGED <<files, stage, starts, settings, watch, time, limiters, turns, admits, given, arrivals>>

-----------------------------------------------------------------------------
(* Time                                                                    *)

Tick == /\ clock < MaxTime /\ clock' = clock + 1
        /\ UNCHANGED <<files, stage, starts, settings, watch, slow, traffic, arrivals>>

\* The system's clock is put back.
StepBack == /\ slow < MaxSlow /\ slow' = slow + 1
            /\ UNCHANGED <<files, stage, starts, settings, watch, clock, traffic, arrivals>>

ProxyNext ==
  \/ Load \/ StartWatcher \/ Stop \/ EditNeighbour \/ HandleEvent \/ Tick \/ StepBack
  \/ \E ok \in BOOLEAN : Serve(ok) \/ WatcherStarts(ok)
  \/ \E new \in Contents : EditFile(new)
  \/ \E p \in Pems, to \in {"good", "bad", "missing"} : EditPem(p, to)
  \/ \E r \in Slots, n \in Services, c \in Clients, uri \in Uris : RequestFilter(r, n, c, uri)
  \/ \E r \in Slots : AskLimiter(r) \/ SelectPeer(r) \/ Finish(r)

\* The watcher's thread takes the events it is sent.
ProxySpec == ProxyInit /\ [][ProxyNext]_proxyVars /\ WF_proxyVars(HandleEvent)

-----------------------------------------------------------------------------
(* Properties                                                              *)

ProxyTypeOK ==
  /\ file \in Contents /\ pems \in [Pems -> {"good", "bad", "missing"}]
  /\ stage \in {"down", "loaded", "serving"} /\ watcher \in {"off", "starting", "watching", "failed"}
  /\ settings \in {<<>>} \union Contents /\ notice \in {None, "modified", "deleted"}
  /\ clock \in 0..MaxTime /\ slow \in 0..MaxSlow /\ arrivals \in 0..MaxArrivals
  /\ stage = "serving" => \A n \in Services : DOMAIN limiters[n] = Clients

\* No request that the limiter lets pass ends for want of a backend or of an
\* upstream, though the file may have been anything and is changed while
\* requests run: what was validated is what is served from
\* (config/mod.rs:85-143, proxy/mod.rs:37-51,139-144).
ValidatedIsServed == \A r \in Slots : req[r] # None => req[r].state # "lost"

\* However the requests fall, and though the system's clock be put back, a
\* client gets no more than twice MaxPerMinute requests past a service's
\* limiter within any Window (rate_limit.rs:22-43).
TwiceTheLimit ==
  \A n \in Services, c \in Clients, t \in 0..MaxTime :
    Cardinality({i \in DOMAIN admits : /\ admits[i].service = n /\ admits[i].client = c
                                       /\ admits[i].at \in t..(t + Window)}) <= 2 * MaxPerMinute

\* The upstreams of a backend are given as many requests as one another, but
\* for one: requests that are refused take no upstream's turn, in whatever
\* order threads get there (proxy/mod.rs:125-144).
UpstreamsShareAlike ==
  stage = "serving" =>
    \A n \in Services : \A b \in BackendsOf(settings[n]) :
      \A u, v \in DOMAIN given[n][b] : given[n][b][u] - given[n][b][v] <= 1

\* Once the file is watched, a change of it comes to be told in the log,
\* unless it is undone or the process ends (config_watcher.rs:66-103).
ChangesAreTold ==
  (watcher = "watching" /\ file # seen) ~> (notice # None \/ watcher = "off" \/ file = seen)
=============================================================================

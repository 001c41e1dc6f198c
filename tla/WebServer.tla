------------------------------ MODULE WebServer ------------------------------
(* The web server plugin (core_plugins/webserver.py): its server runs on a       *)
(* thread of its own, which admin commands start and stop, and the webhooks the  *)
(* activation of each plugin maps into the application (core_plugins/wsview.py). *)
(*                                                                               *)
(* A server is named by the start it was made in. The shutdown of the library's  *)
(* server is external: it asks serve_forever to end and waits for it, at once if *)
(* it has ended already, or it will end as it starts.                            *)
EXTENDS Naturals, Sequences, FiniteSets

CONSTANTS
    MaxStarts,   \* bound on the starts of the server
    Hookers,     \* the plugins with webhooks
    Webhooks(_, _), \* the decorated methods of a plugin in a version of its code, in the
                    \* order route() meets them: [func, verbs, given], given the rule of
                    \* the decorator, <<>> or <<[path, slash]>>
    MaxVersions     \* bound on the reloads of a plugin

ASSUME WebAssumption ==
    /\ MaxStarts \in Nat /\ MaxVersions \in Nat \ {0}
    /\ \A p \in Hookers, v \in 1..MaxVersions :
          /\ Len(Webhooks(p, v)) \in Nat \ {0}
          /\ DOMAIN Webhooks(p, v) = 1..Len(Webhooks(p, v))

VARIABLES
    configured, \* the plugin has a configuration
    webUp,      \* the web server plugin is activated
    starts,     \* starts of the server thread so far
    thread,     \* the last server thread
    server,     \* self.server: the start its server belongs to, 0 for None
    asked,      \* the servers that were asked to shut down
    stopping,   \* deactivate in progress: waiting for which server, joining the thread
    version,    \* the code of each plugin now in use, and the object made from it
    hooked,     \* the plugins with webhooks that are activated
    routing,    \* the webhook route() is at, for each plugin being activated, or 0
    rules,      \* the endpoint each URI is mapped to
    view,       \* what each endpoint is answered by: a method of a plugin's object
    served,     \* the application has answered a first request
    partly         \* the plugins whose routing raised after it added a rule

serverVars == <<configured, webUp, starts, thread, server, asked, stopping>>
routeVars  == <<version, hooked, routing, rules, view, served, partly>>
webVars    == <<configured, webUp, starts, thread, server, asked, stopping,
                version, hooked, routing, rules, view, served, partly>>

(* webhook: without a rule, the name of the method is one; of a rule that is     *)
(* given a slash at the end is stripped, unless it is all there is.              *)
UriRule(hook) ==
    IF hook.given = <<>> THEN [path |-> hook.func, slash |-> FALSE]
    ELSE [hook.given[1] EXCEPT !.slash = hook.given[1].path = ""]

(* The endpoint is the name of the method with its verbs.                        *)
Endpoint(hook) == <<hook.func, hook.verbs>>

Versions == 1..MaxVersions
HookNumbers(p, v) == DOMAIN Webhooks(p, v)
URI(p, v, i) == UriRule(Webhooks(p, v)[i])
EndpointOf(p, v, i) == Endpoint(Webhooks(p, v)[i])
Methods(p) == UNION {{Webhooks(p, v)[i] : i \in HookNumbers(p, v)} : v \in Versions}
OwnURIs(p) == {UriRule(hook) : hook \in Methods(p)}
OwnEndpoints(p) == {Endpoint(hook) : hook \in Methods(p)}
URIs == UNION {OwnURIs(p) : p \in Hookers}
Endpoints == UNION {OwnEndpoints(p) : p \in Hookers}
Views == [of : Hookers, version : Versions, hook : Nat]
NoEndpoint == <<>>
NotStopping == [at |-> "no", of |-> 0]
NoView == [of |-> "nobody", version |-> 0, hook |-> 0]
ThreadAlive == thread \in {"starting", "created", "serving"}

WebTypeOK ==
    /\ configured \in BOOLEAN /\ webUp \in BOOLEAN
    /\ starts \in 0..MaxStarts /\ server \in 0..starts
    /\ thread \in {"none", "starting", "created", "serving", "ended"}
    /\ asked \subseteq 1..MaxStarts
    /\ stopping \in [at : {"no", "wait", "join"}, of : 0..MaxStarts]
    /\ version \in [Hookers -> Versions] /\ hooked \subseteq Hookers
    /\ routing \in [Hookers -> Nat] /\ \A p \in hooked : routing[p] = 0
    /\ rules \in [URIs -> {NoEndpoint} \cup Endpoints]
    /\ view \in [Endpoints -> {NoView} \cup Views]
    /\ served \in BOOLEAN /\ partly \subseteq Hookers

WebInit ==
    /\ configured = FALSE /\ webUp = FALSE
    /\ starts = 0 /\ thread = "none" /\ server = 0 /\ asked = {} /\ stopping = NotStopping
    /\ version = [p \in Hookers |-> 1] /\ hooked = {} /\ routing = [p \in Hookers |-> 0]
    /\ rules = [u \in URIs |-> NoEndpoint] /\ view = [e \in Endpoints |-> NoView]
    /\ served = FALSE /\ partly = {}

-----------------------------------------------------------------------------
(* !plugin config Webserver: a configuration is stored while the plugin is down.  *)
ConfigureWeb ==
    /\ ~configured /\ ~webUp
    /\ configured' = TRUE
    /\ UNCHANGED <<webUp, starts, thread, server, asked, stopping, routeVars>>

(* activate: nothing without a configuration, an exception over a live thread.    *)
ActivateWeb ==
    /\ ~webUp /\ configured /\ ~ThreadAlive
    /\ starts < MaxStarts
    /\ starts' = starts + 1
    /\ thread' = "starting"
    /\ webUp' = TRUE
    /\ UNCHANGED <<configured, server, asked, stopping, routeVars>>

(* run_server: the server is made, or the port is taken and the thread ends.      *)
MakeServer ==
    /\ thread = "starting"
    /\ \/ thread' = "created" /\ server' = starts
       \/ thread' = "ended" /\ UNCHANGED server
    /\ UNCHANGED <<configured, webUp, starts, asked, stopping, routeVars>>

Serve ==
    /\ thread = "created" /\ thread' = "serving"
    /\ UNCHANGED <<configured, webUp, starts, server, asked, stopping, routeVars>>

(* serve_forever ends once its own server was asked to.                           *)
StopServing ==
    /\ thread = "serving" /\ starts \in asked
    /\ thread' = "ended"
    /\ UNCHANGED <<configured, webUp, starts, server, asked, stopping, routeVars>>

\* Mutant: the thread is joined, but its server is not asked to shut down.
DeactivateWebUnasked ==
    /\ webUp /\ stopping = NotStopping
    /\ IF server = 0
       THEN webUp' = FALSE /\ UNCHANGED stopping
       ELSE stopping' = [at |-> "wait", of |-> server] /\ UNCHANGED webUp
    /\ UNCHANGED <<configured, starts, thread, server, asked, routeVars>>

(* deactivate: whatever self.server holds is shut down, and with None nothing is  *)
(* waited for.                                                                    *)
DeactivateWeb ==
    /\ webUp /\ stopping = NotStopping
    /\ IF server = 0
       THEN webUp' = FALSE /\ UNCHANGED <<asked, stopping>>
       ELSE asked' = asked \cup {server} /\ stopping' = [at |-> "wait", of |-> server] /\ UNCHANGED webUp
    /\ UNCHANGED <<configured, starts, thread, server, routeVars>>

(* shutdown() returns when that server has stopped: the server of an earlier      *)
(* start did long ago.                                                            *)
ShutdownReturns ==
    /\ stopping.at = "wait"
    /\ stopping.of < starts \/ thread = "ended"
    /\ stopping' = [stopping EXCEPT !.at = "join"]
    /\ UNCHANGED <<configured, webUp, starts, thread, server, asked, routeVars>>

JoinThread ==
    /\ stopping.at = "join" /\ ~ThreadAlive
    /\ stopping' = NotStopping /\ webUp' = FALSE
    /\ UNCHANGED <<configured, starts, thread, server, asked, routeVars>>

-----------------------------------------------------------------------------
(* The activation of a plugin calls route() with its object.                      *)
ActivateHooks(p) ==
    /\ p \notin hooked /\ routing[p] = 0
    /\ routing' = [routing EXCEPT ![p] = 1]
    /\ UNCHANGED <<serverVars, version, hooked, rules, view, served, partly>>

Current(p) == URI(p, version[p], routing[p])
Answer(p) == [of |-> p, version |-> version[p], hook |-> routing[p]]
Routing(p) == routing[p] \in HookNumbers(p, version[p])

RouteEnds(p) ==
    /\ routing' = [routing EXCEPT ![p] = 0]
    /\ hooked' = hooked \cup {p}

\* Mutant: a rule that exists keeps the view it has.
KeepRule(p) ==
    /\ Routing(p) /\ rules[Current(p)] # NoEndpoint
    /\ RouteEnds(p)
    /\ UNCHANGED <<serverVars, version, rules, view, served, partly>>

(* A rule that exists gets the new view, and route() returns there.               *)
ChangeRule(p) ==
    /\ Routing(p) /\ rules[Current(p)] # NoEndpoint
    /\ view' = [view EXCEPT ![rules[Current(p)]] = Answer(p)]
    /\ RouteEnds(p)
    /\ UNCHANGED <<serverVars, version, rules, served, partly>>

(* add_url_rule: a new rule for the endpoint and its view.                        *)
AddRule(p) ==
    LET e == EndpointOf(p, version[p], routing[p]) IN
    /\ Routing(p) /\ rules[Current(p)] = NoEndpoint
    /\ ~served /\ view[e] = NoView
    /\ rules' = [rules EXCEPT ![Current(p)] = e]
    /\ view' = [view EXCEPT ![e] = Answer(p)]
    /\ routing' = [routing EXCEPT ![p] = @ + 1]
    /\ UNCHANGED <<serverVars, version, hooked, served, partly>>

(* The library refuses a rule once a request was answered, and, with the rule in  *)
(* the map already, one whose endpoint has another view: the AssertionError fails *)
(* the activation, which deactivates the plugin.                                  *)
AddRuleRaises(p) ==
    LET e == EndpointOf(p, version[p], routing[p]) IN
    /\ Routing(p) /\ rules[Current(p)] = NoEndpoint
    /\ served \/ view[e] # NoView
    /\ rules' = IF served THEN rules ELSE [rules EXCEPT ![Current(p)] = e]
    /\ partly' = IF served /\ routing[p] = 1 THEN partly ELSE partly \cup {p}
    /\ routing' = [routing EXCEPT ![p] = 0]
    /\ UNCHANGED <<serverVars, version, hooked, view, served>>

RouteReturns(p) ==
    /\ routing[p] > 0 /\ ~Routing(p)
    /\ RouteEnds(p)
    /\ UNCHANGED <<serverVars, version, rules, view, served, partly>>

(* Nothing is taken off the application when a plugin is deactivated.             *)
DeactivateHooks(p) ==
    /\ p \in hooked /\ hooked' = hooked \ {p}
    /\ UNCHANGED <<serverVars, version, routing, rules, view, served, partly>>

(* A reload takes the code as it is now and makes an object of it.                *)
ReloadHooks(p) ==
    /\ p \notin hooked /\ routing[p] = 0 /\ version[p] < MaxVersions
    /\ version' = [version EXCEPT ![p] = @ + 1]
    /\ UNCHANGED <<serverVars, hooked, routing, rules, view, served, partly>>

(* A server, which may be up at any time, answers a first request.                *)
FirstRequest ==
    /\ ~served /\ served' = TRUE
    /\ UNCHANGED <<serverVars, version, hooked, routing, rules, view, partly>>

ServerNext ==
    \/ ConfigureWeb \/ ActivateWeb \/ MakeServer \/ Serve \/ StopServing
    \/ DeactivateWeb \/ ShutdownReturns \/ JoinThread

RoutesNext ==
    \/ \E p \in Hookers : ActivateHooks(p)
    \/ \E p \in Hookers : ChangeRule(p)
    \/ \E p \in Hookers : AddRule(p)
    \/ \E p \in Hookers : AddRuleRaises(p)
    \/ \E p \in Hookers : RouteReturns(p)
    \/ \E p \in Hookers : DeactivateHooks(p)
    \/ \E p \in Hookers : ReloadHooks(p)
    \/ FirstRequest

(* The threads of the server and of the deactivation run.                         *)
WebFairness ==
    /\ WF_webVars(MakeServer) /\ WF_webVars(Serve) /\ WF_webVars(StopServing)
    /\ WF_webVars(ShutdownReturns) /\ WF_webVars(JoinThread)

WebSpec == WebInit /\ [][ServerNext \/ RoutesNext]_webVars /\ WebFairness

-----------------------------------------------------------------------------
(* A deactivation that found the server of the running thread ends, and with it   *)
(* the thread; one that found the server of an earlier start, because the thread  *)
(* had not made its own yet, is the one that may wait for ever.                   *)
DeactivationsEnd ==
    (stopping.at = "wait" /\ stopping.of = starts) ~> (stopping = NotStopping /\ ~ThreadAlive)

(* Another plugin uses one of the URIs or endpoints of p, in whatever version, or  *)
(* two of its own methods one URI.                                                *)
Shares(p) ==
    \/ \E q \in Hookers \ {p} : \/ OwnURIs(p) \cap OwnURIs(q) # {}
                               \/ OwnEndpoints(p) \cap OwnEndpoints(q) # {}
    \/ \E v \in Versions : \E i, j \in HookNumbers(p, v) : i # j /\ URI(p, v, i) = URI(p, v, j)
Keeps(p) == \A v \in Versions : Webhooks(p, v) = Webhooks(p, 1)  \* reloads change nothing

Answered(p, v, i) == rules[URI(p, v, i)] # NoEndpoint
AnsweredBy(p, v, i) == view[rules[URI(p, v, i)]]

(* The first webhook of an active plugin is answered by that method of the object *)
(* in use, and none by another plugin, unless it shares a URI or an endpoint. All *)
(* of them are mapped if the reloads kept its webhooks and no routing raised half  *)
(* way (wsview.py:35-60).                                                         *)
WebhooksAnswer ==
    \A p \in hooked : ~Shares(p) =>
        /\ Answered(p, version[p], 1)
        /\ AnsweredBy(p, version[p], 1) = [of |-> p, version |-> version[p], hook |-> 1]
        /\ \A i \in HookNumbers(p, version[p]) :
              Answered(p, version[p], i) => AnsweredBy(p, version[p], i).of = p
        /\ Keeps(p) /\ p \notin partly =>
              \A i \in HookNumbers(p, version[p]) : Answered(p, version[p], i)
=============================================================================

----------------------------- MODULE MCServices ------------------------------
(* Five services of the bot on small instances. They share no state, so a        *)
(* behaviour is one of one of them, chosen at the start: the state space is the  *)
(* sum of theirs, not the product.                                               *)
EXTENDS Poller, Storage, Tee, WebServer, Templates

CONSTANTS
    Parts,      \* the services a run looks at
    s1, s2, s3

VARIABLE part  \* the service that moves

MCTimes == [m \in Polled |-> IF m = "watch" THEN 0 ELSE 1]
MCSections == {s1, s2, s3}
(* "ci" keeps its webhooks. A reload of "wiki" finds one method on another URI,    *)
(* which clashes with its endpoint, and a new one. Two methods of "ops" have one  *)
(* URI after the stripping of a slash, and a reload moves both.                  *)
Hook(func) == [func |-> func, verbs |-> "POST_GET", given |-> <<>>]
HookOn(func, path, slash) == [Hook(func) EXCEPT !.given = <<[path |-> path, slash |-> slash]>>]
MCWebhooks(p, v) ==
    CASE p = "ci" -> <<Hook("build"), HookOn("deploy", "", TRUE)>>
      [] p = "wiki" -> IF v = 1 THEN <<HookOn("edit", "edit", FALSE)>>
                       ELSE <<HookOn("edit", "write", FALSE), Hook("search")>>
      [] OTHER -> IF v = 1 THEN <<Hook("ping"), HookOn("pong", "ping", TRUE)>>
                  ELSE <<Hook("pong"), HookOn("ping", "ops", TRUE)>>
MCDir(p) == IF p = "ci" THEN "plugins/ci" ELSE "plugins/pair"

ASSUME PartsAssumption ==
    Parts \subseteq {"poller", "storage", "tee", "server", "routes", "templates"}

ServicesInit ==
    /\ part \in Parts
    /\ PollerInit /\ StorageInit /\ TeeInit /\ WebInit /\ TemplatesInit
    /\ section[s1].key = "k" /\ section[s2].key = "k"
    /\ part # "storage" => kind = "memory" /\ section[s3].key = "k"
    /\ part # "tee" => \A c \in Clients : kindOf[c] = "keeps"

ServicesNext ==
    /\ UNCHANGED part
    /\ \/ /\ part = "poller" /\ PollerNext
          /\ UNCHANGED <<storageVars, teeVars, webVars, templateVars>>
       \/ /\ part = "storage" /\ StorageNext
          /\ UNCHANGED <<pollerVars, teeVars, webVars, templateVars>>
       \/ /\ part = "tee" /\ TeeNext
          /\ UNCHANGED <<pollerVars, storageVars, webVars, templateVars>>
       \/ /\ part = "server" /\ ServerNext
          /\ UNCHANGED <<pollerVars, storageVars, teeVars, templateVars, routeVars>>
       \/ /\ part = "routes" /\ RoutesNext
          /\ UNCHANGED <<pollerVars, storageVars, teeVars, templateVars, serverVars>>
       \/ /\ part = "templates" /\ TemplatesNext
          /\ UNCHANGED <<pollerVars, storageVars, teeVars, webVars>>

servicesVars == <<part, pollerVars, storageVars, teeVars, webVars, templateVars>>

(* A service that does not move has nothing running, so its fairness asks nothing. *)
ServicesSpec ==
    /\ ServicesInit /\ [][ServicesNext]_servicesVars
    /\ PollerFairness /\ TeeFairness /\ WebFairness

ServicesTypeOK == PollerTypeOK /\ StorageTypeOK /\ TeeTypeOK /\ WebTypeOK /\ TemplatesTypeOK
=============================================================================

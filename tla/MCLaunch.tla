------------------------------ MODULE MCLaunch -------------------------------
(***************************************************************************)
(* What surrounds the processes jetty launches, for TLC: a configuration   *)
(* is loaded, ports are allocated, a binary is copied into the cache,      *)
(* gates are checked, watched paths polled, a function is called, and a    *)
(* group of services is kept on one release.                               *)
(* These share no state, so a behaviour exercises one of them, `part`, and *)
(* leaves the others where they start.                                     *)
(***************************************************************************)
EXTENDS Gates, Config, Ports, BinCache, Watch, ExecFunctions, Pinning

CONSTANTS watcher, loop1, f1, f2, f3, p, c1, c2, api, harness, worker

VARIABLE part

MCFamilies == <<"inet", "inet6">>
Want(form, low, high, templated) == [form |-> form, low |-> low, high |-> high, templated |-> templated]
MCWants == {Want("auto", 0, 0, FALSE), Want("fixed", 1, 1, FALSE), Want("fixed", 1, 1, TRUE),
            Want("from", 1, 3, FALSE), Want("range", 1, 2, TRUE)}

Init ==
  /\ part \in {"gates", "config", "ports", "cache", "watch", "functions", "pinning"}
  /\ GateInit /\ ConfigInit /\ PortInit /\ CacheInit /\ WatchInit /\ FnInit /\ PinInit
  /\ part = "gates" \/ health = "up"
  /\ part = "ports" \/ wants = <<Want("auto", 0, 0, FALSE)>>

Next ==
  \/ part = "gates" /\ GateNext /\ UNCHANGED <<part, cfgVars, portVars, cacheVars, watchVars, fnVars, pinVars>>
  \/ part = "config" /\ ConfigNext /\ UNCHANGED <<part, gateVars, portVars, cacheVars, watchVars, fnVars, pinVars>>
  \/ part = "ports" /\ PortNext /\ UNCHANGED <<part, gateVars, cfgVars, cacheVars, watchVars, fnVars, pinVars>>
  \/ part = "cache" /\ CacheNext /\ UNCHANGED <<part, gateVars, cfgVars, portVars, watchVars, fnVars, pinVars>>
  \/ part = "watch" /\ WatchNext /\ UNCHANGED <<part, gateVars, cfgVars, portVars, cacheVars, fnVars, pinVars>>
  \/ part = "functions" /\ FnNext /\ UNCHANGED <<part, gateVars, cfgVars, portVars, cacheVars, watchVars, pinVars>>
  \/ part = "pinning" /\ PinNext
     /\ UNCHANGED <<part, gateVars, cfgVars, portVars, cacheVars, watchVars, fnVars>>

\* The fairness of GateFairSpec, ConfigSpec, WatchSpec and FnSpec.
Fairness ==
  /\ WF_gateVars(part = "gates" /\ Tick)
  /\ \A c \in Callers : /\ WF_gateVars(part = "gates" /\ CacheServes(c))
                        /\ WF_gateVars(part = "gates" /\ CheckBegins(c))
                        /\ WF_gateVars(part = "gates" /\ CheckEnds(c))
  /\ \A w \in Watchers : WF_gateVars(part = "gates" /\ Poll(w))
  /\ WF_cfgVars(part = "config" /\ ConfigNext)
  /\ WF_watchVars(part = "watch" /\ Launch) /\ WF_watchVars(part = "watch" /\ Watcher)
  /\ WF_watchVars(part = "watch" /\ watchAt = "stopping" /\ ProcessEnds)
  /\ \A c \in Calls : WF_fnVars(part = "functions" /\ Driver(c))

Spec == /\ Init /\ [][Next]_<<part, gateVars, cfgVars, portVars, cacheVars, watchVars, fnVars, pinVars>>
        /\ Fairness
==============================================================================

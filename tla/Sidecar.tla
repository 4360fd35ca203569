------------------------------- MODULE Sidecar -------------------------------
(***************************************************************************)
(* The sidecar process (jetty/cli.py, server.py, modules/registry.py): the *)
(* modules of the configuration are built in the order of their names, the *)
(* listeners bound, the modules started, and shut down in reverse when     *)
(* they were started, whatever fails.  The socket path outlives the        *)
(* process: a process that a signal ends leaves it behind, and the next    *)
(* start finds it.  Starts follow one another, as under a supervisor.      *)
(* What uvicorn (external, >= 0.32) makes of a signal is in Terminate.     *)
(***************************************************************************)
EXTENDS Naturals, Sequences, SequencesExt, FiniteSets

CONSTANTS
  KnownModules,   \* the registered modules: numbers, for the order of sorted()
  UnknownModule,  \* a name no module is registered under
  WithListener,   \* the modules that declare a listener
  MaxBoots        \* bound: starts of the process

ASSUME SidecarAssumption == /\ KnownModules \subseteq Nat /\ IsFiniteSet(KnownModules)
                            /\ UnknownModule \in Nat \ KnownModules
                            /\ WithListener \subseteq KnownModules /\ MaxBoots \in Nat

VARIABLES
  boot,      \* "down", "listeners", "socket", "starting", "serving", "stopping"
  built,     \* the enabled modules, in order
  bound,     \* the modules whose listeners are bound and served
  started,   \* modules whose startup returned, in order
  closed,    \* modules shutdown was called on, in order
  path,      \* the control socket: "absent", "stale", "live" or "other" (no socket)
  exitWith,  \* the exit of the last process: "none", "zero", "two", "error" (any other code),
             \* "terminated" (by SIGTERM, after the shutdown) or "killed"
  boots

sidecarVars == <<boot, built, bound, started, closed, path, exitWith, boots>>

SidecarInit ==
  /\ boot = "down" /\ built = <<>> /\ bound = {} /\ started = <<>> /\ closed = <<>>
  /\ path \in {"absent", "other"} /\ exitWith = "none" /\ boots = 0

\* The process is gone; its sockets and threads with it.
Exit(code) == boot' = "down" /\ exitWith' = code /\ bound' = {}

\* sorted(): the names, in their order.
Sorted(names) ==
  {q \in [1 .. Cardinality(names) -> names] :
     ToSet(q) = names /\ \A i, j \in DOMAIN q : i < j => q[i] < q[j]}

\* build_enabled: unknown names are refused, what is enabled is built by name.
Enabled(sections, enabled) ==
  UnknownModule \notin sections /\ built' \in Sorted(enabled \cap sections)

\* main up to the listeners: a bad configuration, an unknown module or one that
\* refuses its settings is exit 2.
Build ==
  /\ boot = "down" /\ boots < MaxBoots /\ boots' = boots + 1
  /\ started' = <<>> /\ closed' = <<>>
  /\ \E sections \in SUBSET (KnownModules \union {UnknownModule}), enabled \in SUBSET KnownModules :
       \/ Exit("two") /\ built' = <<>>
       \/ /\ Enabled(sections, enabled)
          /\ boot' = "listeners" /\ exitWith' = "none" /\ UNCHANGED bound
  /\ UNCHANGED path

\* The listeners of the modules, one after the other; a taken port is exit 2.
BindListener ==
  /\ boot = "listeners"
  /\ LET todo == {m \in WithListener \cap ToSet(built) : m \notin bound}
     IN  \/ todo = {} /\ boot' = "socket" /\ UNCHANGED <<bound, exitWith>>
         \/ todo # {} /\ Exit("two")
         \/ /\ todo # {}
            /\ \E m \in todo : (\A n \in todo : m =< n) /\ bound' = bound \union {m}
            /\ UNCHANGED <<boot, exitWith>>
  /\ UNCHANGED <<built, started, closed, path, boots>>

\* _secure_parent_dir: the directory is not ours alone.
UnsafeParent == Exit("two") /\ UNCHANGED path

\* bind_uds: a left-over socket is removed, anything else at the path makes bind()
\* raise.  So may mkdir, unlink and bind() for other reasons; and chmod and listen,
\* which leaves the new socket there: the try that removes it comes later.
BindUds ==
  /\ boot = "socket"
  /\ \/ UnsafeParent
     \/ Exit("error") /\ path' \in {path, IF path = "stale" THEN "absent" ELSE path}
     \/ path # "other" /\ Exit("error") /\ path' = "stale"
     \/ path # "other" /\ path' = "live" /\ boot' = "starting" /\ UNCHANGED <<bound, exitWith>>
  /\ UNCHANGED <<built, started, closed, boots>>

\* Variant: a startup that raises ends the process at once.
Startup_exits ==
  /\ boot = "starting"
  /\ LET next == Len(started) + 1
     IN  \/ next > Len(built) /\ boot' = "serving" /\ UNCHANGED <<started, bound, path, exitWith>>
         \/ /\ next =< Len(built) /\ started' = Append(started, built[next])
            /\ UNCHANGED <<boot, bound, path, exitWith>>
         \/ next =< Len(built) /\ Exit("error") /\ path' = "absent" /\ UNCHANGED started
  /\ UNCHANGED <<built, closed, boots>>

\* lifespan: startup of the next module; one that raises aborts the boot.
Startup ==
  /\ boot = "starting"
  /\ LET next == Len(started) + 1
     IN  \/ next > Len(built) /\ boot' = "serving" /\ UNCHANGED <<started, exitWith>>
         \/ /\ next =< Len(built) /\ started' = Append(started, built[next])
            /\ UNCHANGED <<boot, exitWith>>
         \/ next =< Len(built) /\ boot' = "stopping" /\ exitWith' = "error" /\ UNCHANGED started
  /\ UNCHANGED <<built, bound, closed, path, boots>>

\* SIGINT or SIGTERM: the server stops in order.  It then raises the signal anew
\* with the handler that was there before: SIGINT as a KeyboardInterrupt, which
\* uvicorn.run catches, SIGTERM with its default handler.
Terminate ==
  /\ boot = "serving" /\ boot' = "stopping" /\ exitWith' \in {"zero", "terminated"}
  /\ UNCHANGED <<built, bound, started, closed, path, boots>>

\* The `finally` of lifespan, in which an exception of one shutdown does not stop
\* the others.
Unwind ==
  /\ Len(closed) < Len(started)
  /\ closed' = Append(closed, started[Len(started) - Len(closed)])
  /\ UNCHANGED <<boot, bound, path, exitWith>>

\* Then that of main: the socket is closed and unlinked; unless SIGTERM has ended
\* the process inside of uvicorn.run.
Shutdown ==
  /\ boot = "stopping"
  /\ \/ Unwind
     \/ /\ Len(closed) = Len(started)
        /\ path' = IF exitWith = "terminated" THEN "stale" ELSE "absent"
        /\ Exit(exitWith) /\ UNCHANGED closed
  /\ UNCHANGED <<built, started, boots>>

\* kill -9, or a crash of the machine, at any time.
Killed ==
  /\ boot # "down" /\ Exit("killed")
  /\ path' = IF path = "live" THEN "stale" ELSE path
  /\ UNCHANGED <<built, started, closed, boots>>

SidecarNext == \/ Build \/ BindListener \/ BindUds \/ Startup \/ Terminate \/ Shutdown \/ Killed

SidecarSpec == SidecarInit /\ [][SidecarNext]_sidecarVars

------------------------------------------------------------------------------
\* A process that got as far as starting a module and was not killed has shut down
\* exactly the modules that were started, the last one first, also after a failed
\* startup, and leaves no socket behind, unless it was SIGTERM that ended it; what
\* serves has all of its modules started, all of its listeners and its own socket; and
\* exit codes tell: 0 (and SIGTERM) of a process that had come up whole, 2 of one that
\* started nothing, any other of one that did not come up.
BootsAndUnwinds ==
  /\ boot = "down" /\ started # <<>> /\ exitWith # "killed" =>
       closed = Reverse(started) /\ path = IF exitWith = "terminated" THEN "stale" ELSE "absent"
  /\ boot = "serving" =>
       started = built /\ path = "live" /\ bound = WithListener \cap ToSet(built)
  /\ boot = "down" =>
       CASE exitWith \in {"zero", "terminated"} -> started = built
         [] exitWith = "two" -> started = <<>>
         [] exitWith = "error" -> started = <<>> \/ Len(started) < Len(built)
         [] OTHER -> TRUE
==============================================================================

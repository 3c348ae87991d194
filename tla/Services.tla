------------------------------ MODULE Services ------------------------------
(***************************************************************************)
(* Background services: the commands start, stop, restart, run, kill and   *)
(* cleanup of zapbrew-ops/src/services.rs over the user's systemd or       *)
(* launchd.  A command writes files and calls systemctl or launchctl one   *)
(* after the other; any call may fail, with or without having had its      *)
(* effect, and only `run' on macOS takes back what it had done.            *)
(*                                                                         *)
(* The service managers are external: what their calls do is taken from    *)
(* how services.rs and its tests use them.                                 *)
(***************************************************************************)
EXTENDS FiniteSets, Naturals, TLC

CONSTANTS
    ServiceNames,    \* formulae with a service
    Platforms,       \* "linux", "macos" or both
    MaxServiceFaults \* bound: calls that fail

ASSUME ServicesAssumption == Platforms \subseteq {"linux", "macos"} /\ MaxServiceFaults \in Nat

VARIABLES
    platform,
    files,     \* service files: <<kind, n>>, of kind service, timer, agent or transient
    active,    \* systemd: the units that are active, <<"service" | "timer", n>>
    enabled,   \* systemd: the units that start at login
    job,       \* launchd: the kind of file the job of n was loaded from, or "none"
    timed,     \* services that run on a schedule, as the catalog says now
    present,   \* formulae that are installed
    svcFaults,
    done       \* the last command: <<verb, n, status>>

serviceVars == <<platform, files, active, enabled, job, timed, present, svcFaults, done>>

Files == {"service", "timer", "agent", "transient"} \X ServiceNames
Units == {"service", "timer"} \X ServiceNames

\* What the commands read and write, and the ways a call or a command can end:
\* "ok", "failed", "unwritten" (which names the file) or "leftovers"
\* (RollbackIncomplete).
Host == [files |-> files, active |-> active, enabled |-> enabled, job |-> job,
         faults |-> svcFaults]
EndAt(h, status) == [host |-> h, status |-> status]

\* The ends of Step after each of the ends that are "ok"; the others stay.
After(ends, Step(_)) ==
    UNION {IF e.status = "ok" THEN Step(e.host) ELSE {e} : e \in ends}

Faulty(h) == [h EXCEPT !.faults = @ + 1]
Failing(h, hosts) ==
    IF h.faults < MaxServiceFaults THEN {EndAt(Faulty(g), "failed") : g \in hosts} ELSE {}

\* run_checked: a call that turns h into g, when it can be done at all.
Call(can, h, g) ==
    IF can THEN {EndAt(g, "ok")} \cup Failing(h, {h, g}) ELSE {EndAt(h, "failed")}

\* write_file and fs::remove_file.  A file that could not be written may be there
\* in part.
Write(h, f) ==
    LET written == [h EXCEPT !.files = @ \cup {f}]
    IN  {EndAt(written, "ok")}
        \cup {EndAt(e.host, "unwritten") : e \in Failing(h, {h, written})}
Erase(h, f) == {EndAt([h EXCEPT !.files = @ \ {f}], "ok")}
               \cup (IF f \in h.files THEN Failing(h, {h}) ELSE {})

-----------------------------------------------------------------------------
(* systemd                                                                 *)

\* selected_unit
Unit(n) == <<IF n \in timed THEN "timer" ELSE "service", n>>

\* The service's unit, and then the timer.
WriteUnits(h, n) ==
    After(Write(h, <<"service", n>>),
          LAMBDA g : IF n \in timed THEN Write(g, <<"timer", n>>) ELSE {EndAt(g, "ok")})

Reload(h) == Call(TRUE, h, h)
Enable(h, n) == Call(Unit(n) \in h.files, h, [h EXCEPT !.enabled = @ \cup {Unit(n)}])
StartUnit(h, n) == Call(Unit(n) \in h.files, h, [h EXCEPT !.active = @ \cup {Unit(n)}])
StopUnit(h, n) == Call(TRUE, h, [h EXCEPT !.active = @ \ {Unit(n)}])

\* write_and_enable_linux_unit
WriteAndEnable(h, n) ==
    After(After(WriteUnits(h, n), Reload), LAMBDA g : Enable(g, n))

-----------------------------------------------------------------------------
(* launchd                                                                 *)

Agent(n) == <<"agent", n>>
Transient(n) == <<"transient", n>>

\* A label is loaded once.
Load(h, f) == Call(f \in h.files /\ h.job[f[2]] = "none", h, [h EXCEPT !.job[f[2]] = f[1]])
\* Of a job that is not loaded, launchctl may say that it unloaded it or that it could not.
Unload(h, f) ==
    IF h.job[f[2]] = "none" THEN {EndAt(h, "ok"), EndAt(h, "failed")}
    ELSE Call(f \in h.files, h, [h EXCEPT !.job[f[2]] = "none"])
StartLabel(h, n) == Call(h.job[n] # "none", h, h)

\* resolve_plist_path
PlistPath(h, n) ==
    IF Agent(n) \notin h.files /\ Transient(n) \in h.files THEN Transient(n) ELSE Agent(n)

\* Mutant: a load that failed is believed to have loaded nothing.
RollbackUnprobed(h, n, loaded) ==
    {[e EXCEPT !.status = "failed"] : e \in Erase(h, Transient(n))}

\* rollback_transient: every end, "failed" when nothing is left behind.
RollbackTransient(h, n, loaded) ==
    LET probed == IF loaded THEN {EndAt(h, "unload")}
                  ELSE {EndAt(h, IF h.job[n] # "none" THEN "unload" ELSE "gone")}
                       \cup {[e EXCEPT !.status = "unknown"] : e \in Failing(h, {h})}
        unloaded == UNION {IF p.status = "unload"
                           THEN {[e EXCEPT !.status = IF @ = "ok" THEN "gone" ELSE "loaded"] :
                                   e \in Unload(p.host, Transient(n))}
                           ELSE {p} : p \in probed}
    IN  UNION {{EndAt(e.host, IF u.status = "gone" /\ e.status = "ok" THEN "failed" ELSE "leftovers") :
                  e \in Erase(u.host, Transient(n))} : u \in unloaded}

-----------------------------------------------------------------------------
(* The commands, on either platform.                                       *)

Linux == platform = "linux"

\* active: the probe of the unit or of the label.
Active(h, n) == IF Linux THEN Unit(n) \in h.active ELSE h.job[n] # "none"

StartEnds(h, n) ==
    IF Active(h, n)
    THEN IF ~Linux \/ Unit(n) \in h.enabled THEN {EndAt(h, "ok")} ELSE WriteAndEnable(h, n)
    ELSE IF Linux THEN After(WriteAndEnable(h, n), LAMBDA g : StartUnit(g, n))
    ELSE After(Write(h, Agent(n)), LAMBDA g : Load(g, Agent(n)))

StopEnds(h, n) ==
    IF ~Active(h, n) THEN {EndAt(h, "ok")}
    ELSE IF Linux THEN StopUnit(h, n)
    ELSE Unload(h, PlistPath(h, n))

\* `run' on macOS: the transient job is loaded and started before the persistent
\* file goes, and taken back when one of the three fails.
RunTransient(h, n) ==
    UNION {
        IF w.status # "ok" THEN {w}
        ELSE UNION {
            IF l.status # "ok" THEN RollbackTransient(l.host, n, FALSE)
            ELSE UNION {
                IF s.status # "ok" THEN RollbackTransient(s.host, n, TRUE)
                ELSE UNION {IF r.status = "ok" THEN {r} ELSE RollbackTransient(r.host, n, TRUE) :
                              r \in Erase(s.host, Agent(n))}
                : s \in StartLabel(l.host, n)}
            : l \in Load(w.host, Transient(n))}
        : w \in Write(h, Transient(n))}

RunEnds(h, n) ==
    IF Active(h, n) THEN {EndAt(h, "ok")}
    ELSE IF Linux
    THEN After(After(WriteUnits(h, n), Reload), LAMBDA g : StartUnit(g, n))
    ELSE RunTransient(h, n)

\* Mutant: the mode is looked up after the stop, when nothing tells the two apart.
RestartAsStart(h, n) == After(StopEnds(h, n), LAMBDA g : StartEnds(g, n))

\* restart: as it was registered before the stop.
RestartEnds(h, n) ==
    LET transient == IF Linux THEN Unit(n) \in h.files \ h.enabled
                     ELSE Agent(n) \notin h.files /\ Transient(n) \in h.files
    IN  After(StopEnds(h, n), LAMBDA g :
            IF transient THEN RunEnds(g, n)
            ELSE IF Linux THEN After(WriteAndEnable(g, n), LAMBDA k : StartUnit(k, n))
            ELSE StartEnds(g, n))

\* kill: on macOS the process only, which is not modelled.
KillEnds(h, n) ==
    IF ~Active(h, n) THEN {EndAt(h, "ok")}
    ELSE IF Linux THEN StopUnit(h, n)
    ELSE Call(TRUE, h, h)

\* cleanup: each file on its own, by whether its unit or label is active.
Unused(h) ==
    {f \in h.files :
        /\ f[2] \notin present
        /\ IF Linux THEN f[1] \in {"service", "timer"} /\ f \notin h.active
           ELSE f[1] \in {"agent", "transient"} /\ h.job[f[2]] = "none"}
CleanupEnds(h) ==
    LET Without(fs) == [h EXCEPT !.files = @ \ fs]
        clean == Without(Unused(h))
    IN  (IF Linux /\ Unused(h) # {} THEN Reload(clean) ELSE {EndAt(clean, "ok")})
        \cup Failing(h, {Without(fs) : fs \in SUBSET Unused(h)})
        \cup (IF Linux THEN {} ELSE {EndAt(Without(fs), "failed") : fs \in SUBSET Unused(h)})

Ends(verb, h, n) ==
    CASE verb = "start" -> StartEnds(h, n)
      [] verb = "stop" -> StopEnds(h, n)
      [] verb = "restart" -> RestartEnds(h, n)
      [] verb = "run" -> RunEnds(h, n)
      [] verb = "kill" -> KillEnds(h, n)
      [] OTHER -> CleanupEnds(h)

\* The host is as end e has it, and what is reported is its status.
Becomes(verb, n, e) ==
    /\ files' = e.host.files /\ active' = e.host.active /\ enabled' = e.host.enabled
    /\ job' = e.host.job /\ svcFaults' = e.host.faults
    /\ done' = <<verb, n, e.status>>
    /\ UNCHANGED <<platform, timed, present>>

Command(verb, n) ==
    /\ n \in present \* target refuses a formula that is not installed
    /\ \E e \in Ends(verb, Host, n) : Becomes(verb, n, e)

Cleanup == \E n \in ServiceNames, e \in CleanupEnds(Host) : Becomes("cleanup", n, e)

-----------------------------------------------------------------------------
(* What happens around them.                                               *)

Elsewhere == UNCHANGED <<platform, files, enabled, svcFaults>> /\ done' = <<"none", "none", "ok">>

\* The user logs in: what is registered starts, the rest is gone.
Login ==
    /\ active' = {u \in enabled : u \in files}
    /\ job' = [n \in ServiceNames |-> IF Agent(n) \in files THEN "agent" ELSE "none"]
    /\ UNCHANGED <<timed, present>> /\ Elsewhere

\* A service exits of its own.
Exits(u) == active' = active \ {u} /\ UNCHANGED <<job, timed, present>> /\ Elsewhere

\* The formula is installed or uninstalled (no service is touched), or the
\* catalog has a new schedule for it.
Comes(n) == present' = present \cup {n} /\ UNCHANGED <<active, job, timed>> /\ Elsewhere
Goes(n) == present' = present \ {n} /\ UNCHANGED <<active, job, timed>> /\ Elsewhere
Reschedules(n) ==
    /\ timed' = IF n \in timed THEN timed \ {n} ELSE timed \cup {n}
    /\ UNCHANGED <<active, job, present>> /\ Elsewhere

ServicesInit ==
    /\ platform \in Platforms
    /\ files = {} /\ active = {} /\ enabled = {} /\ timed = {} /\ present = ServiceNames
    /\ job = [n \in ServiceNames |-> "none"]
    /\ svcFaults = 0 /\ done = <<"none", "none", "ok">>

ServicesNext ==
    \/ \E n \in ServiceNames :
          \/ \E verb \in {"start", "stop", "restart", "run", "kill"} : Command(verb, n)
          \/ Comes(n) \/ Goes(n) \/ Reschedules(n)
    \/ \E u \in active : Exits(u)
    \/ Cleanup
    \/ Login

ServicesSpec == ServicesInit /\ [][ServicesNext]_serviceVars

-----------------------------------------------------------------------------
(* Properties                                                              *)

\* The service is to start at login.
Registered(n) == Agent(n) \in files \/ \E u \in enabled : u[2] = n

\* A `run' that failed on macOS and reports no leftovers has left none: the job is not
\* loaded, the transient file is gone unless it was there, and the persistent file,
\* "the recovery path", is where it was.  The exception is a transient file that could
\* not be written, which nobody takes back.  (run_service, rollback_transient.)
RunFailsClean ==
    [][done' # done /\ done'[1] = "run" /\ done'[3] \in {"failed", "unwritten"} /\ ~Linux
          => LET n == done'[2] IN
             /\ job'[n] = job[n]
             /\ files' \ {Transient(n)} = files \ {Transient(n)}
             /\ Transient(n) \in files' => Transient(n) \in files \/ done'[3] = "unwritten"]_serviceVars

\* A service that is restarted starts at login afterwards if and only if it did
\* before: one that `run' put there stays transient, also when the restart fails
\* half-way.  (restart; a service that has no file yet is registered.)
RestartKeepsRegistration ==
    [][\A n \in ServiceNames :
          /\ done' # done /\ done'[1] = "restart" /\ done'[2] = n
          /\ IF Linux THEN Unit(n) \in files ELSE {Agent(n), Transient(n)} \cap files # {}
          => (Registered(n))' = Registered(n)]_serviceVars
\* Both promises of the services.
ServicesKept == RunFailsClean /\ RestartKeepsRegistration
=============================================================================

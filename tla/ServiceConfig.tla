---------------------------- MODULE ServiceConfig ----------------------------
(***************************************************************************)
(* What the service data of a formula becomes (zapbrew-ops/src/services.rs *)
(* from parse_service on): the schedule and the restart mode, read from    *)
(* the catalog's object and written twice, as a systemd unit and timer and *)
(* as a launchd property list.  Names, paths and quoting are left out.     *)
(***************************************************************************)
EXTENDS Naturals, FiniteSets, Sequences, Options

CONSTANTS
    WordMax,   \* u32::MAX, scaled down
    Instants   \* points in time: functions from CronKinds to what a clock shows

ASSUME ServiceConfigAssumption == WordMax \in Nat /\ WordMax >= 59

-----------------------------------------------------------------------------
(* Cron fields.  A term is "malformed" or [from, to, step], each part None *)
(* when it is not there, and from "*" for the wildcard.                    *)

CronKinds == {"Minute", "Hour", "Day", "Month", "Weekday"}
CronMin == [k \in CronKinds |-> IF k \in {"Day", "Month"} THEN 1 ELSE 0]
CronMax == [k \in CronKinds |->
    CASE k = "Minute" -> 59 [] k = "Hour" -> 23 [] k = "Day" -> 31
      [] k = "Month" -> 12 [] k = "Weekday" -> 7]

Wildcard == [from |-> <<>>, to |-> None, step |-> None]
Malformed == [from |-> <<>>, to |-> Some(0), step |-> None]

\* What a term says: from the first value to the last, in steps.
First(kind, term) == IF term.from = None THEN CronMin[kind] ELSE term.from[1]
Final(kind, term) ==
    CASE term.to # None -> term.to[1]
      [] term.from = None \/ term.step # None -> CronMax[kind]
      [] OTHER -> First(kind, term)
Step(term) == IF term.step = None THEN 1 ELSE term.step[1]

\* push_cron_range: refused when a step leads past the largest u32.
PushCronRange(start, end, step) ==
    LET values == {v \in start .. end : (v - start) % step = 0}
    IN  IF \E v \in values : v + step > WordMax THEN None ELSE Some(values)

\* parse_cron_term
CronTerm(kind, term) ==
    LET start == First(kind, term)
        end == Final(kind, term)
    IN  IF \/ term = Malformed \/ term = Wildcard \/ Step(term) = 0
           \/ start > end \/ start < CronMin[kind] \/ end > CronMax[kind]
        THEN None
        ELSE IF term.to = None /\ term.step = None THEN Some({start})
        ELSE PushCronRange(start, end, Step(term))

AnyValue == <<"any">>

\* parse_cron_field: terms is what was between the commas.
CronField(kind, terms) ==
    IF terms = <<Wildcard>> THEN Some(AnyValue)
    ELSE LET sets == {CronTerm(kind, terms[i]) : i \in DOMAIN terms}
         IN  IF None \in sets THEN None ELSE Some(<<"set", UNION {set[1] : set \in sets}>>)

MaxCronCombinations == 4096

\* The fields of a cron that are not "any".
Given(cron) == {k \in CronKinds : cron[k] # AnyValue}

\* cron_combinations; the product cannot overflow a u64, the fields being bounded.
CronCombinations(cron) ==
    LET Size(k) == IF cron[k] = AnyValue THEN 1 ELSE Cardinality(cron[k][2])
    IN  Size("Minute") * Size("Hour") * Size("Day") * Size("Month") * Size("Weekday")

\* parse_cron
ParseCron(fields) ==
    LET parsed == [k \in CronKinds |-> CronField(k, fields[k])]
        cron == [k \in CronKinds |-> parsed[k][1]]
    IN  IF \E k \in CronKinds : parsed[k] = None THEN None
        ELSE IF CronCombinations(cron) > MaxCronCombinations THEN None
        ELSE Some(cron)

-----------------------------------------------------------------------------
(* The rest of the object.                                                 *)

\* parse_schedule: [type, interval, cron]
ParseSchedule(object) ==
    LET Immediate == [type |-> "immediate"]
        Interval(n) == [type |-> "interval", interval |-> n]
        Cron(c) == [type |-> "cron", cron |-> c]
    IN  CASE object.run_type = "immediate" -> Some(Immediate)
          [] object.run_type = "interval" /\ object.interval # None ->
                Some(Interval(object.interval[1]))
          [] object.run_type = "cron" /\ object.cron # None ->
                LET cron == ParseCron(object.cron[1])
                IN  IF cron = None THEN None ELSE Some(Cron(cron[1]))
          [] OTHER -> None

\* ServiceConfig::timed
IsTimed(schedule) == schedule.type # "immediate"

\* The systemd mode for {successful_exit: flag} and for {crashed: flag}.
RestartMode(key, flag) ==
    IF (key = "successful_exit") = flag THEN "on-success" ELSE "on-failure"

\* parse_keep_alive: the systemd mode, and the plist's KeepAlive <<key, flag>>.
ParseKeepAlive(value) ==
    CASE value \in {<<"absent">>, <<"bool", FALSE>>, <<"always", FALSE>>} ->
            Some([mode |-> "no", plist |-> None])
      [] value \in {<<"bool", TRUE>>, <<"always", TRUE>>} ->
            Some([mode |-> "on-failure", plist |-> Some(<<"always", TRUE>>)])
      [] value[1] \in {"successful_exit", "crashed"} ->
            Some([mode |-> RestartMode(value[1], value[2]), plist |-> Some(value)])
      [] OTHER -> None

\* parse_service: refused for its run command, its schedule, keep_alive, a field of the
\* wrong type or a placeholder that is not replaced.
ParseService(object) ==
    LET schedule == ParseSchedule(object)
        restart == ParseKeepAlive(object.keep_alive)
    IN  IF \/ object.run \notin {"command", "arguments"}
           \/ object.fields = "unsupported" \/ schedule = None \/ restart = None
        THEN None
        ELSE Some([schedule |-> schedule[1], restart |-> restart[1]])

-----------------------------------------------------------------------------
(* What is written, and when it makes the service run.                     *)

\* plist_calendar: the dictionaries of StartCalendarInterval.
PlistCalendar(cron) ==
    {row \in [Given(cron) -> UNION {cron[k][2] : k \in Given(cron)}] :
        \A k \in Given(cron) : row[k] \in cron[k][2]}

\* Mutant: the seventh day is forgotten.
SystemdWeekdaysShort(values) == values \cap 0 .. 6

\* The days systemd_calendar names, 0 for Sunday.
SystemdWeekdays(values) == {v % 7 : v \in values}

\* systemd_calendar, systemd_field
SystemdCalendar(cron) ==
    [k \in Given(cron) |->
        IF k = "Weekday" THEN SystemdWeekdays(cron[k][2]) ELSE cron[k][2]]

\* launchd takes 0 and 7 for Sunday, and a dictionary that gives a day and a
\* weekday for either (that case is left out below).
LaunchdRunsAt(rows, t) ==
    \E row \in rows : \A k \in DOMAIN row :
        IF k = "Weekday" THEN row[k] % 7 = t[k] ELSE row[k] = t[k]
SystemdRunsAt(calendar, t) == \A k \in DOMAIN calendar : t[k] \in calendar[k]

\* How the process ended: "success", "failure" or "crash".
LaunchdRestarts(plist, exit) ==
    /\ plist # None
    /\ CASE plist[1][1] = "always" -> TRUE
         [] plist[1][1] = "successful_exit" -> (exit = "success") = plist[1][2]
         [] OTHER -> (exit = "crash") = plist[1][2]
SystemdRestarts(mode, exit) ==
    \/ mode = "on-failure" /\ exit # "success"
    \/ mode = "on-success" /\ exit = "success"

\* Reference: whether a cron's fields mean the time t, as crontab(5) has them.
CronMeans(fields, t) ==
    \A k \in CronKinds : \E i \in DOMAIN fields[k] :
        LET term == fields[k][i]
            shown == IF k = "Weekday" /\ t[k] = 0 THEN {0, 7} ELSE {t[k]}
        IN  \E v \in shown :
                /\ v \in First(k, term) .. Final(k, term)
                /\ (v - First(k, term)) % Step(term) = 0

\* A schedule that is accepted means the same points in time as the cron the formula
\* gave, written either way.  (parse_cron_term, plist_calendar, systemd_calendar.)
CalendarsAgree(object) ==
    \A config \in {c \in {ParseService(object)} : c # None} :
        object.run_type = "cron" =>
            LET cron == config[1].schedule.cron IN
            {"Day", "Weekday"} \subseteq Given(cron) \/
            \A t \in Instants :
                /\ LaunchdRunsAt(PlistCalendar(cron), t) <=> CronMeans(object.cron[1], t)
                /\ SystemdRunsAt(SystemdCalendar(cron), t) <=> CronMeans(object.cron[1], t)

\* A crash is followed by a restart under both managers or under neither, and so is a
\* success, unless the service is to be kept alive always: on-failure for systemd.
\* (parse_keep_alive, render_systemd_unit, render_launchd_plist.)
RestartsAgree(object) ==
    \A config \in {c \in {ParseService(object)} : c # None}, exit \in {"success", "crash"} :
        LET restart == config[1].restart IN
        exit = "crash" \/ restart.plist # Some(<<"always", TRUE>>)
            => LaunchdRestarts(restart.plist, exit) = SystemdRestarts(restart.mode, exit)
=============================================================================

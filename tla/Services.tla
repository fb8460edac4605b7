------------------------------ MODULE Services ------------------------------
(***************************************************************************)
(* kernel/service/service.c over the ring of kernel/debug/log.c: starting   *)
(* and stopping a service writes to the log, which keeps the messages that  *)
(* reach the minimum level. Both run in thread context; the timer ticks in  *)
(* between. Levels are numbers, as in log.h; a text is <<service, event>>.  *)
(***************************************************************************)
EXTENDS Integers, Sequences

CONSTANTS
    ServiceOrder,       \* those service_init registers, all enabled
    LOG_BUFFER_MAX,
    LogLevels, LOG_INFO,
    MaxEvents,          \* bound: starts and stops of one service
    MaxServiceTicks     \* bound: ticks

ASSUME ServicesAssumption == ServiceOrder \in Seq(STRING) /\ LOG_BUFFER_MAX \in Nat \ {0}

VARIABLES
    services, ticks,
    queue,              \* services to start before the next command
    log_buffer, log_head, log_count, log_total, log_dropped, log_minimum
ring == <<log_buffer, log_head, log_count, log_total, log_dropped>>
servicesVars == <<services, ticks, queue, ring, log_minimum>>

ServiceNames == {ServiceOrder[i] : i \in DOMAIN ServiceOrder}

Messages == ServiceNames \X {"started", "stopped"}

ServicesInit ==
    /\ services = [s \in ServiceNames |->
         [enabled |-> TRUE, state |-> "stopped", started |-> 0, stopped |-> 0, starts |-> 0, stops |-> 0]]
    /\ ticks = 0
    /\ queue = ServiceOrder    \* service_startup_all, at boot
    /\ log_buffer = [i \in 0 .. LOG_BUFFER_MAX - 1 |-> <<>>]
    /\ log_head = 0 /\ log_count = 0 /\ log_total = 0 /\ log_dropped = 0
    /\ log_minimum = LOG_INFO

\* Mutant: a full ring loses its newest entry.
StoreAtTail(message) ==
    /\ log_buffer' = [log_buffer EXCEPT ![IF log_count < LOG_BUFFER_MAX THEN log_head
                                          ELSE (log_head - 1) % LOG_BUFFER_MAX] = message]
    /\ log_count' = IF log_count < LOG_BUFFER_MAX THEN log_count + 1 ELSE log_count
    /\ log_dropped' = IF log_count < LOG_BUFFER_MAX THEN log_dropped ELSE log_dropped + 1
    /\ log_head' = IF log_count < LOG_BUFFER_MAX THEN (log_head + 1) % LOG_BUFFER_MAX ELSE log_head
    /\ log_total' = log_total + 1

log_store_entry(message) ==
    /\ log_buffer' = [log_buffer EXCEPT ![log_head] = message]
    /\ log_count' = IF log_count < LOG_BUFFER_MAX THEN log_count + 1 ELSE log_count
    /\ log_dropped' = IF log_count < LOG_BUFFER_MAX THEN log_dropped ELSE log_dropped + 1
    /\ log_head' = (log_head + 1) % LOG_BUFFER_MAX
    /\ log_total' = log_total + 1

log_write(level, message) ==
    IF level < log_minimum THEN UNCHANGED ring
    ELSE log_store_entry(message)

\* log_copy_entries, from the oldest entry on.
Logged ==
    LET start == (log_head + LOG_BUFFER_MAX - log_count) % LOG_BUFFER_MAX
    IN [i \in 1 .. log_count |-> log_buffer[(start + i - 1) % LOG_BUFFER_MAX]]

Started(s) == [s EXCEPT !.state = "running", !.started = ticks, !.starts = @ + 1]
Stopped(s) == [s EXCEPT !.state = "stopped", !.stopped = ticks, !.stops = @ + 1]

\* Disabled services and running ones may be started, too.
service_start(name) ==
    /\ log_write(LOG_INFO, <<name, "started">>)
    /\ services' = [services EXCEPT ![name] = Started(@)]

\* Mutant: a service that does not run is stopped once more.
StopAnyway(name) ==
    /\ log_write(LOG_INFO, <<name, "stopped">>)
    /\ services' = [services EXCEPT ![name] = Stopped(@)]

service_stop(name) ==
    /\ services[name].state = "running"
    /\ log_write(LOG_INFO, <<name, "stopped">>)
    /\ services' = [services EXCEPT ![name] = Stopped(@)]

\* A restart stops what runs, and then starts.
service_restart(name) ==
    IF services[name].state = "running" THEN service_stop(name) /\ queue' = <<name>>
    ELSE service_start(name) /\ UNCHANGED queue

StartQueued ==
    /\ queue # <<>> /\ queue' = Tail(queue)
    /\ service_start(Head(queue))

service_enable(name, on) ==
    services' = [services EXCEPT ![name].enabled = on] /\ UNCHANGED <<queue, ring>>

ServiceCommand ==
    /\ queue = <<>>
    /\ \E name \in ServiceNames :
        /\ services[name].starts + services[name].stops < MaxEvents
        /\ \/ (service_start(name) \/ service_stop(name)) /\ UNCHANGED queue
           \/ service_restart(name)
           \/ \E on \in BOOLEAN : service_enable(name, on)

SetLogLevel(level) ==
    queue = <<>> /\ log_minimum' = level /\ UNCHANGED <<services, ticks, queue, ring>>

ServiceTick ==
    ticks < MaxServiceTicks /\ ticks' = ticks + 1 /\ UNCHANGED <<services, queue, ring, log_minimum>>

ServicesNext ==
    \/ (ServiceCommand \/ StartQueued) /\ UNCHANGED <<ticks, log_minimum>>
    \/ \E level \in LogLevels : SetLogLevel(level)
    \/ ServiceTick

ServicesSpec == ServicesInit /\ [][ServicesNext]_servicesVars

-----------------------------------------------------------------------------
Log == INSTANCE Recent WITH Items <- Messages, Max <- LOG_BUFFER_MAX,
                            list <- Logged

\* log.c: what `log` prints are the newest entries in the order they were written,
\* and total = stored + dropped, through every wrap of the ring.
LogIsRecent == Log!RecentSpec /\ [](log_total = log_count + log_dropped)

\* service.c: state, counts and time stamps, which four functions keep up to date,
\* tell the same story: a running service was started last and more often than
\* stopped, a stopped one never ran or was stopped last.
StampsAgree ==
    \A name \in ServiceNames :
        LET s == services[name] IN
        /\ s.stops <= s.starts
        /\ s.state = "running" => s.stops < s.starts /\ s.started >= s.stopped
        /\ s.state = "stopped" => (s.starts = 0 \/ (s.stops > 0 /\ s.stopped >= s.started))
=============================================================================

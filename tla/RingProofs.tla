----------------------------- MODULE RingProofs -----------------------------
(***************************************************************************)
(* Proofs about the two rings that overwrite their oldest entry, the log's  *)
(* and the shell history's, for every capacity, and about the services that *)
(* write to the log.                                                        *)
(***************************************************************************)
EXTENDS Services, History, SequenceTheorems, TLAPS

\* Entry i of a ring of size N, oldest first: the expression log_copy_entries and
\* shell_history_get compute.
SlotOf(N, head, count, i) == (((head + N - count) % N) + i - 1) % N

Entries(buffer, N, head, count) == [i \in 1 .. count |-> buffer[SlotOf(N, head, count, i)]]

\* The remainder, for at most one turn of the ring.
LEMMA Modulo ==
    ASSUME NEW N \in Nat \ {0}, NEW x \in 0 .. 2 * N - 1
    PROVE  x % N = IF x < N THEN x ELSE x - N
OBVIOUS

\* It is head - count + i - 1, once around at most.
Wrapped(N, p) == IF p < 0 THEN p + N ELSE p

LEMMA SlotIs ==
    ASSUME NEW N \in Nat \ {0}, NEW head \in 0 .. N - 1, NEW count \in 0 .. N, NEW i \in 1 .. count
    PROVE  SlotOf(N, head, count, i) = Wrapped(N, head - count + i - 1)
<1> DEFINE start == (head + N - count) % N
           x == start + i - 1
<1>1. start = IF head - count < 0 THEN head + N - count ELSE head - count
    <2>1. head + N - count \in 0 .. 2 * N - 1
        OBVIOUS
    <2> QED BY <2>1, Modulo
<1>2. start \in 0 .. N - 1
    BY <1>1
<1>3. SlotOf(N, head, count, i) = x % N
    BY DEF SlotOf
<1> HIDE DEF start
<1>4. x \in 0 .. 2 * N - 1
    BY <1>2
<1>5. x = start + i - 1
    OBVIOUS
<1> HIDE DEF x
<1>6. x % N = IF x < N THEN x ELSE x - N
    BY <1>4, Modulo
<1> QED BY <1>1, <1>3, <1>5, <1>6 DEF Wrapped

\* The head after a store.
LEMMA NextHead ==
    ASSUME NEW N \in Nat \ {0}, NEW head \in 0 .. N - 1
    PROVE  (head + 1) % N = IF head + 1 < N THEN head + 1 ELSE 0
<1>1. head + 1 \in 0 .. 2 * N - 1
    OBVIOUS
<1> QED BY <1>1, Modulo

Lists(list, T, buffer, N, head, count) ==
    /\ list \in Seq(T) /\ Len(list) = count
    /\ \A i \in 1 .. count : list[i] = buffer[Wrapped(N, head - count + i - 1)]

\* A ring's entries, in closed form.
LEMMA EntriesAre ==
    ASSUME NEW N \in Nat \ {0}, NEW head \in 0 .. N - 1, NEW count \in 0 .. N,
           NEW T, NEW buffer \in [0 .. N - 1 -> T]
    PROVE  Lists(Entries(buffer, N, head, count), T, buffer, N, head, count)
<1> DEFINE list == Entries(buffer, N, head, count)
<1>1. ASSUME NEW i \in 1 .. count
      PROVE  list[i] = buffer[Wrapped(N, head - count + i - 1)] /\ list[i] \in T
    <2>1. list[i] = buffer[SlotOf(N, head, count, i)]
        BY DEF Entries
    <2>2. Wrapped(N, head - count + i - 1) \in 0 .. N - 1
        BY DEF Wrapped
    <2> QED BY <2>1, <2>2, SlotIs
<1>2. list = [i \in 1 .. count |-> list[i]]
    BY DEF Entries
<1> HIDE DEF list
<1>3. list \in [1 .. count -> T]
    BY <1>1, <1>2
<1>4. list \in Seq(T) /\ Len(list) = count
    BY <1>3
<1> QED BY <1>1, <1>4 DEF list, Lists

\* Storing at the head appends to the entries; in a full ring the oldest one goes.
IsRing(N, T, buffer, head, count) ==
    head \in 0 .. N - 1 /\ count \in 0 .. N /\ buffer \in [0 .. N - 1 -> T]

Advances(N, head, count, head2, count2) ==
    head2 = (head + 1) % N /\ count2 = IF count < N THEN count + 1 ELSE count

Appends(N, list, list2, m) == list2 = Append(IF Len(list) < N THEN list ELSE Tail(list), m)

LEMMA StoreAppends ==
    ASSUME NEW N \in Nat \ {0}, NEW T, NEW m \in T, NEW buffer, NEW head, NEW count,
           NEW head2, NEW count2, IsRing(N, T, buffer, head, count), Advances(N, head, count, head2, count2)
    PROVE  /\ IsRing(N, T, [buffer EXCEPT ![head] = m], head2, count2)
           /\ Appends(N, Entries(buffer, N, head, count),
                      Entries([buffer EXCEPT ![head] = m], N, head2, count2), m)
<1> USE DEF IsRing, Advances
<1> DEFINE after == [buffer EXCEPT ![head] = m]
           list == Entries(buffer, N, head, count)
           list2 == Entries(after, N, head2, count2)
           kept == IF Len(list) < N THEN list ELSE Tail(list)
<1>1. head2 = IF head + 1 < N THEN head + 1 ELSE 0
    BY NextHead
<1>2. head2 \in 0 .. N - 1 /\ count2 \in 0 .. N /\ count2 > 0
    BY <1>1
<1>3. after \in [0 .. N - 1 -> T]
    BY DEF after
<1>4. /\ list \in Seq(T) /\ Len(list) = count
      /\ \A i \in 1 .. count : list[i] = buffer[Wrapped(N, head - count + i - 1)]
    <2>1. Lists(list, T, buffer, N, head, count)
        BY EntriesAre
    <2> QED BY <2>1 DEF Lists
<1> HIDE DEF after
<1>5. /\ list2 \in Seq(T) /\ Len(list2) = count2
      /\ \A i \in 1 .. count2 : list2[i] = after[Wrapped(N, head2 - count2 + i - 1)]
    <2>1. Lists(list2, T, after, N, head2, count2)
        BY <1>2, <1>3, EntriesAre
    <2> QED BY <2>1 DEF Lists
<1> HIDE DEF list, list2
<1>6. kept \in Seq(T) /\ Len(kept) = count2 - 1
    BY <1>4
<1>7. list2[count2] = m
    <2>1. Wrapped(N, head2 - count2 + count2 - 1) = head
        BY <1>1, <1>2 DEF Wrapped
    <2> QED BY <1>2, <1>5, <2>1 DEF after
<1>8. ASSUME NEW i \in 1 .. count2 - 1 PROVE list2[i] = kept[i]
    <2> DEFINE slot == Wrapped(N, head2 - count2 + i - 1)
    <2>1. slot \in 0 .. N - 1 /\ slot # head
        BY <1>1, <1>2 DEF Wrapped
    <2>2. list2[i] = buffer[slot]
        BY <1>2, <1>5, <2>1 DEF after
    <2>3. CASE count < N
        <3>1. slot = Wrapped(N, head - count + i - 1) /\ i \in 1 .. count
            BY <1>1, <2>3 DEF Wrapped
        <3> QED BY <1>4, <2>2, <2>3, <3>1
    <2>4. CASE count = N
        <3>1. slot = Wrapped(N, head - count + (i + 1) - 1) /\ i + 1 \in 1 .. count
            BY <1>1, <2>4 DEF Wrapped
        <3>2. kept[i] = list[i + 1]
            BY <1>4, <1>6, <2>4
        <3>3. list[i + 1] = buffer[Wrapped(N, head - count + (i + 1) - 1)]
            BY <1>4, <3>1
        <3> QED BY <2>2, <3>1, <3>2, <3>3
    <2> QED BY <2>3, <2>4
<1> HIDE DEF kept
<1>9. Append(kept, m) \in Seq(T) /\ Len(Append(kept, m)) = count2
      /\ \A i \in 1 .. count2 : Append(kept, m)[i] = list2[i]
    BY <1>2, <1>6, <1>7, <1>8
<1>10. list2 = Append(kept, m)
    BY <1>5, <1>9, SeqEqual
<1> QED BY <1>2, <1>3, <1>10 DEF kept, list, list2, after, Appends

-----------------------------------------------------------------------------
(* The log.                                                                 *)

Stored == Messages \cup {<<>>}

LogInv ==
    /\ IsRing(LOG_BUFFER_MAX, Stored, log_buffer, log_head, log_count)
    /\ log_dropped \in Nat /\ log_total = log_count + log_dropped

\* log_copy_entries copies the entries of the log's ring.
LEMMA LoggedIsEntries == Logged = Entries(log_buffer, LOG_BUFFER_MAX, log_head, log_count)
BY DEF Logged, Entries, SlotOf

\* log_store_entry adds to the list.
LEMMA StoreStep ==
    ASSUME LogInv, NEW message \in Messages, log_store_entry(message)
    PROVE  LogInv' /\ Log!Add(message)
<1>1. LOG_BUFFER_MAX \in Nat \ {0} /\ message \in Stored
    BY ServicesAssumption DEF Stored
<1>2. log_buffer' = [log_buffer EXCEPT ![log_head] = message]
    BY DEF log_store_entry
<1>3. Advances(LOG_BUFFER_MAX, log_head, log_count, log_head', log_count')
    BY DEF log_store_entry, Advances
<1>4. /\ IsRing(LOG_BUFFER_MAX, Stored, log_buffer', log_head', log_count')
      /\ Appends(LOG_BUFFER_MAX, Entries(log_buffer, LOG_BUFFER_MAX, log_head, log_count),
                 Entries(log_buffer', LOG_BUFFER_MAX, log_head', log_count'), message)
    BY <1>1, <1>2, <1>3, StoreAppends DEF LogInv
<1>5. Log!Add(message)
    <2>1. Logged' = Entries(log_buffer', LOG_BUFFER_MAX, log_head', log_count')
        BY DEF Logged, Entries, SlotOf
    <2> QED BY <1>4, <2>1, LoggedIsEntries DEF Log!Add, Appends
<1>6. log_dropped' \in Nat /\ log_total' = log_count' + log_dropped'
    BY <1>1 DEF LogInv, IsRing, log_store_entry
<1> QED BY <1>4, <1>5, <1>6 DEF LogInv

-----------------------------------------------------------------------------
(* The services.                                                            *)

Service ==
    [enabled : BOOLEAN, state : {"running", "stopped"},
     started : Nat, stopped : Nat, starts : Nat, stops : Nat]

\* What StampsAgree says of one service, and that no stamp is from the future.
Agrees(s) ==
    /\ s.stops <= s.starts /\ s.started <= ticks /\ s.stopped <= ticks
    /\ s.state = "running" => s.stops < s.starts /\ s.started >= s.stopped
    /\ s.state = "stopped" => (s.starts = 0 \/ (s.stops > 0 /\ s.stopped >= s.started))

ServicesInv ==
    /\ ticks \in Nat
    /\ queue \in Seq(ServiceNames)
    /\ services \in [ServiceNames -> Service]
    /\ \A name \in ServiceNames : Agrees(services[name])

\* A start, of a running service too,
LEMMA StartAgrees ==
    ASSUME ticks \in Nat, NEW s \in Service, Agrees(s) PROVE Started(s) \in Service /\ Agrees(Started(s))
<1>1. Started(s) \in Service
    <2> DEFINE k == s.starts + 1
    <2>1. k \in Nat
        BY DEF Service
    <2>2. Started(s) = [s EXCEPT !.state = "running", !.started = ticks, !.starts = k]
        BY DEF Started
    <2> HIDE DEF k
    <2> QED BY <2>1, <2>2 DEF Service
<1>2. /\ Started(s).state = "running" /\ Started(s).started = ticks /\ Started(s).stopped = s.stopped
      /\ Started(s).starts = s.starts + 1 /\ Started(s).stops = s.stops
    BY DEF Started, Service
<1>3. s.starts \in Nat /\ s.stops \in Nat /\ s.stopped \in Nat
    BY DEF Service
<1> QED BY <1>1, <1>2, <1>3 DEF Agrees

\* and a stop of a running one leave it in agreement.
LEMMA StopAgrees ==
    ASSUME ticks \in Nat, NEW s \in Service, Agrees(s), s.state = "running"
    PROVE  Stopped(s) \in Service /\ Agrees(Stopped(s))
<1>1. Stopped(s) \in Service
    <2> DEFINE k == s.stops + 1
    <2>1. k \in Nat
        BY DEF Service
    <2>2. Stopped(s) = [s EXCEPT !.state = "stopped", !.stopped = ticks, !.stops = k]
        BY DEF Stopped
    <2> HIDE DEF k
    <2> QED BY <2>1, <2>2 DEF Service
<1>2. /\ Stopped(s).state = "stopped" /\ Stopped(s).stopped = ticks /\ Stopped(s).started = s.started
      /\ Stopped(s).starts = s.starts /\ Stopped(s).stops = s.stops + 1
    BY DEF Stopped, Service
<1>3. s.starts \in Nat /\ s.stops \in Nat /\ s.started \in Nat
    BY DEF Service
<1> QED BY <1>1, <1>2, <1>3 DEF Agrees

\* One service's record is replaced by one that agrees.
LEMMA ReplaceKeeps ==
    ASSUME ServicesInv, NEW name \in ServiceNames, NEW s \in Service, Agrees(s),
           services' = [services EXCEPT ![name] = s], ticks' = ticks, queue' \in Seq(ServiceNames)
    PROVE  ServicesInv'
<1>1. services' \in [ServiceNames -> Service]
    BY DEF ServicesInv
<1>2. \A n \in ServiceNames : services'[n] = IF n = name THEN s ELSE services[n]
    BY DEF ServicesInv
<1>3. ASSUME NEW n \in ServiceNames PROVE Agrees(services[n])'
    BY <1>2, <1>3 DEF ServicesInv, Agrees
<1> QED BY <1>1, <1>3 DEF ServicesInv

\* The actions on one service.
LEMMA StartKeeps ==
    ASSUME ServicesInv, NEW name \in ServiceNames, service_start(name), ticks' = ticks,
           queue' \in Seq(ServiceNames)
    PROVE  ServicesInv'
<1>1. services' = [services EXCEPT ![name] = Started(services[name])]
    BY DEF service_start
<1>2. Started(services[name]) \in Service /\ Agrees(Started(services[name]))
    BY StartAgrees DEF ServicesInv
<1> QED BY <1>1, <1>2, ReplaceKeeps

LEMMA StopKeeps ==
    ASSUME ServicesInv, NEW name \in ServiceNames, service_stop(name), ticks' = ticks,
           queue' \in Seq(ServiceNames)
    PROVE  ServicesInv'
<1>1. services' = [services EXCEPT ![name] = Stopped(services[name])] /\ services[name].state = "running"
    BY DEF service_stop
<1>2. Stopped(services[name]) \in Service /\ Agrees(Stopped(services[name]))
    BY <1>1, StopAgrees DEF ServicesInv
<1> QED BY <1>1, <1>2, ReplaceKeeps

LEMMA EnableKeeps ==
    ASSUME ServicesInv, NEW name \in ServiceNames, NEW on \in BOOLEAN, service_enable(name, on), ticks' = ticks
    PROVE  ServicesInv'
<1> DEFINE s == [services[name] EXCEPT !.enabled = on]
<1>1. services' = [services EXCEPT ![name] = s] /\ queue' = queue
    BY DEF service_enable
<1>2. services[name] \in Service /\ Agrees(services[name])
    BY DEF ServicesInv
<1>3. /\ s \in Service /\ s.state = services[name].state
      /\ s.started = services[name].started /\ s.stopped = services[name].stopped
      /\ s.starts = services[name].starts /\ s.stops = services[name].stops
    BY <1>2 DEF Service
<1> HIDE DEF s
<1>4. Agrees(s)
    BY <1>2, <1>3 DEF Agrees
<1> QED BY <1>1, <1>3, <1>4, ReplaceKeeps DEF ServicesInv

-----------------------------------------------------------------------------

\* One step of the services, and what it does to the log's list.
LogStep == LogInv' /\ ((\E message \in Messages : Log!Add(message)) \/ UNCHANGED Logged)

\* Without a store the list stays.
LEMMA QuietStep == ASSUME LogInv, UNCHANGED ring PROVE LogStep
BY DEF LogStep, LogInv, IsRing, Logged, ring

\* A message below the minimum level is not stored.
LEMMA WriteStep ==
    ASSUME LogInv, NEW level, NEW message \in Messages, log_write(level, message)
    PROVE  LogStep
BY StoreStep, QuietStep DEF log_write, LogStep

\* The texts the services write.
LEMMA SomeMessage == ASSUME NEW name \in ServiceNames
                     PROVE <<name, "started">> \in Messages /\ <<name, "stopped">> \in Messages
BY DEF Messages

\* What a command does to the log,
LEMMA CommandStep == ASSUME LogInv, ServiceCommand PROVE LogStep
<1>1. PICK name \in ServiceNames :
        \/ service_start(name) \/ service_stop(name) \/ service_restart(name)
        \/ \E on \in BOOLEAN : service_enable(name, on)
    BY DEF ServiceCommand
<1>2. CASE service_start(name)
    BY <1>2, SomeMessage, WriteStep DEF service_start
<1>3. CASE service_stop(name)
    BY <1>3, SomeMessage, WriteStep DEF service_stop
<1>4. CASE service_restart(name)
    BY <1>4, SomeMessage, WriteStep DEF service_restart, service_start, service_stop
<1>5. CASE \E on \in BOOLEAN : service_enable(name, on)
    BY <1>5, QuietStep DEF service_enable
<1> QED BY <1>1, <1>2, <1>3, <1>4, <1>5

\* and to the services.
LEMMA CommandKeeps == ASSUME ServicesInv, ServiceCommand, ticks' = ticks PROVE ServicesInv'
<1>1. PICK name \in ServiceNames :
        \/ (service_start(name) \/ service_stop(name)) /\ UNCHANGED queue
        \/ service_restart(name)
        \/ \E on \in BOOLEAN : service_enable(name, on)
    BY DEF ServiceCommand
<1>2. queue \in Seq(ServiceNames) /\ <<name>> \in Seq(ServiceNames)
    BY DEF ServicesInv
<1>3. CASE (service_start(name) \/ service_stop(name)) /\ UNCHANGED queue
    BY <1>2, <1>3, StartKeeps, StopKeeps
<1>4. CASE service_restart(name)
    BY <1>2, <1>4, StartKeeps, StopKeeps DEF service_restart
<1>5. CASE \E on \in BOOLEAN : service_enable(name, on)
    BY <1>5, EnableKeeps
<1> QED BY <1>1, <1>3, <1>4, <1>5

\* A queued start is one of a registered service.
LEMMA QueuedFacts ==
    ASSUME ServicesInv, StartQueued
    PROVE  Head(queue) \in ServiceNames /\ queue' \in Seq(ServiceNames) /\ service_start(Head(queue))
BY DEF ServicesInv, StartQueued

\* Every step, for both invariants.
LEMMA ServicesStep ==
    ASSUME ServicesInv, LogInv, [ServicesNext]_servicesVars PROVE ServicesInv' /\ LogStep
<1>1. CASE UNCHANGED servicesVars
    BY <1>1, QuietStep DEF servicesVars, ServicesInv, Agrees
<1>2. CASE ServiceCommand /\ UNCHANGED <<ticks, log_minimum>>
    BY <1>2, CommandStep, CommandKeeps
<1>3. CASE StartQueued /\ UNCHANGED <<ticks, log_minimum>>
    <2>1. Head(queue) \in ServiceNames /\ queue' \in Seq(ServiceNames) /\ service_start(Head(queue))
        BY <1>3, QueuedFacts
    <2>2. LogStep
        BY <2>1, SomeMessage, WriteStep DEF service_start
    <2> QED BY <1>3, <2>1, <2>2, StartKeeps
<1>4. ASSUME NEW level \in LogLevels, SetLogLevel(level) PROVE ServicesInv' /\ LogStep
    BY <1>4, QuietStep DEF SetLogLevel, ServicesInv, Agrees
<1>5. CASE ServiceTick
    <2>1. LogStep
        BY <1>5, QuietStep DEF ServiceTick
    <2>2. ticks' = ticks + 1 /\ services' = services /\ queue' = queue
        BY <1>5 DEF ServiceTick
    <2>3. ASSUME NEW n \in ServiceNames PROVE Agrees(services[n])'
        <3>1. services[n] \in Service /\ Agrees(services[n]) /\ ticks \in Nat
            BY DEF ServicesInv
        <3>2. services[n].started \in Nat /\ services[n].stopped \in Nat
            BY <3>1 DEF Service
        <3> QED BY <2>2, <3>1, <3>2 DEF Agrees
    <2> QED BY <2>1, <2>2, <2>3 DEF ServicesInv
<1> QED BY <1>1, <1>2, <1>3, <1>4, <1>5 DEF ServicesNext

\* At boot nothing has run and the log is empty.
LEMMA ServicesInitInv == ASSUME ServicesInit PROVE ServicesInv /\ LogInv /\ Logged = <<>>
<1>1. ServiceOrder \in Seq(ServiceNames)
    <2>1. \A i \in 1 .. Len(ServiceOrder) : ServiceOrder[i] \in ServiceNames
        BY ServicesAssumption DEF ServiceNames
    <2> QED BY <2>1, ServicesAssumption
<1>2. services \in [ServiceNames -> Service] /\ \A name \in ServiceNames : Agrees(services[name])
    BY DEF ServicesInit, Service, Agrees
<1>3. IsRing(LOG_BUFFER_MAX, Stored, log_buffer, log_head, log_count)
    BY ServicesAssumption DEF ServicesInit, IsRing, Stored
<1>4. Logged = <<>>
    BY DEF ServicesInit, Logged
<1> QED BY <1>1, <1>2, <1>3, <1>4 DEF ServicesInit, ServicesInv, LogInv

\* For any set of services and any sequence of starts, stops and restarts, at any
\* ticks, a service's state, counts and stamps agree.
THEOREM ServicesAgree == ServicesSpec => []StampsAgree
<1>1. ServicesInit => ServicesInv /\ LogInv
    BY ServicesInitInv
<1>2. ServicesInv /\ LogInv /\ [ServicesNext]_servicesVars => ServicesInv' /\ LogInv'
    BY ServicesStep DEF LogStep
<1>3. ServicesInv => StampsAgree
    BY DEF ServicesInv, Agrees, StampsAgree
<1> QED BY <1>1, <1>2, <1>3, PTL DEF ServicesSpec

\* A log of any capacity implements the list of the newest messages: what `log` copies
\* out of the ring is that list, and no entry is lost without being counted.
THEOREM LogImplementsRecent == ServicesSpec => LogIsRecent
<1>1. ServicesInit => ServicesInv /\ LogInv /\ Logged = <<>>
    BY ServicesInitInv
<1>2. ServicesInv /\ LogInv /\ [ServicesNext]_servicesVars
        => ServicesInv' /\ LogInv' /\ [Log!Clear \/ \E item \in Messages : Log!Add(item)]_Logged
    BY ServicesStep DEF LogStep
<1>3. LogInv => log_total = log_count + log_dropped
    BY DEF LogInv
<1> QED BY <1>1, <1>2, <1>3, PTL DEF ServicesSpec, LogIsRecent, Log!RecentSpec

-----------------------------------------------------------------------------
(* The shell's history.                                                     *)

Kept == Lines \ {<<FALSE, "history">>, <<FALSE, "clearhist">>}

HistoryInv ==
    /\ IsRing(SHELL_HISTORY_MAX, Kept \cup {<<>>}, shell_history, shell_history_next, shell_history_count)
    /\ Listed \in Seq(Kept)

HistoryRing == <<shell_history, shell_history_count, shell_history_next>>

\* `history` lists the entries of the shell's ring.
LEMMA ListedIsEntries ==
    shell_history_next \in Int /\ shell_history_count \in Int =>
        Listed = Entries(shell_history, SHELL_HISTORY_MAX, shell_history_next, shell_history_count)
<1> SUFFICES ASSUME shell_history_next \in Int, shell_history_count \in Int
             PROVE  Listed = Entries(shell_history, SHELL_HISTORY_MAX, shell_history_next, shell_history_count)
    OBVIOUS
<1> DEFINE start == (shell_history_next + SHELL_HISTORY_MAX - shell_history_count) % SHELL_HISTORY_MAX
<1>1. start \in Int
    BY HistoryAssumption
<1>2. ASSUME NEW i \in 1 .. shell_history_count
      PROVE  shell_history_get(i - 1) =
               shell_history[SlotOf(SHELL_HISTORY_MAX, shell_history_next, shell_history_count, i)]
    <2>1. shell_history_get(i - 1) = shell_history[(start + (i - 1)) % SHELL_HISTORY_MAX]
        BY DEF shell_history_get
    <2>2. SlotOf(SHELL_HISTORY_MAX, shell_history_next, shell_history_count, i) = (start + i - 1) % SHELL_HISTORY_MAX
        BY DEF SlotOf
    <2> HIDE DEF start
    <2>3. start + (i - 1) = start + i - 1
        BY <1>1
    <2> QED BY <2>1, <2>2, <2>3
<1> QED BY <1>2 DEF Listed, Entries

\* shell_history_add adds to the list, a line of the list among others.
LEMMA HistoryAddStep ==
    ASSUME HistoryInv, NEW line \in Kept, shell_history_add(line)
    PROVE  HistoryInv' /\ History!Add(line)
<1>1. SHELL_HISTORY_MAX \in Nat \ {0} /\ line \in Kept \cup {<<>>}
    BY HistoryAssumption
<1>2. shell_history' = [shell_history EXCEPT ![shell_history_next] = line]
    BY DEF shell_history_add
<1>3. Advances(SHELL_HISTORY_MAX, shell_history_next, shell_history_count,
               shell_history_next', shell_history_count')
    BY DEF shell_history_add, Advances
<1>4. /\ IsRing(SHELL_HISTORY_MAX, Kept \cup {<<>>}, shell_history', shell_history_next', shell_history_count')
      /\ Appends(SHELL_HISTORY_MAX,
                 Entries(shell_history, SHELL_HISTORY_MAX, shell_history_next, shell_history_count),
                 Entries(shell_history', SHELL_HISTORY_MAX, shell_history_next', shell_history_count'), line)
    BY <1>1, <1>2, <1>3, StoreAppends DEF HistoryInv
<1>5. /\ shell_history_next \in Int /\ shell_history_count \in Int
      /\ shell_history_next' \in Int /\ shell_history_count' \in Int
    BY <1>4 DEF HistoryInv, IsRing
<1>6. (shell_history_next \in Int /\ shell_history_count \in Int =>
        Listed = Entries(shell_history, SHELL_HISTORY_MAX, shell_history_next, shell_history_count))'
    BY ListedIsEntries, PTL
<1>7. Appends(SHELL_HISTORY_MAX, Listed, Listed', line)
    BY <1>4, <1>5, <1>6, ListedIsEntries
<1>8. Listed' \in Seq(Kept)
    <2>1. Listed \in Seq(Kept)
        BY DEF HistoryInv
    <2>2. CASE Len(Listed) < SHELL_HISTORY_MAX
        BY <1>7, <2>1, <2>2 DEF Appends
    <2>3. CASE ~(Len(Listed) < SHELL_HISTORY_MAX)
        <3>1. Listed # <<>>
            BY <1>1, <2>3
        <3>2. Tail(Listed) \in Seq(Kept)
            BY <2>1, <3>1
        <3> QED BY <1>7, <2>3, <3>2 DEF Appends
    <2> QED BY <2>2, <2>3
<1> QED BY <1>4, <1>7, <1>8 DEF HistoryInv, History!Add, Appends

Cleared ==
    /\ shell_history = [i \in 0 .. SHELL_HISTORY_MAX - 1 |-> <<>>]
    /\ shell_history_count = 0 /\ shell_history_next = 0

\* An empty ring lists nothing.
LEMMA EmptyHistory == Cleared => HistoryInv /\ Listed = <<>>
<1> SUFFICES ASSUME Cleared PROVE HistoryInv /\ Listed = <<>>
    OBVIOUS
<1> USE DEF Cleared
<1>1. Listed = <<>>
    BY DEF Listed
<1>2. <<>> \in Seq(Kept)
    BY EmptySeq
<1>3. IsRing(SHELL_HISTORY_MAX, Kept \cup {<<>>}, shell_history, shell_history_next, shell_history_count)
    BY HistoryAssumption DEF IsRing
<1> QED BY <1>1, <1>2, <1>3 DEF HistoryInv

\* Every line that is executed is a step of the list.
LEMMA HistoryStep ==
    ASSUME HistoryInv, [HistoryNext]_historyVars
    PROVE  HistoryInv' /\ [History!Clear \/ \E item \in Kept : History!Add(item)]_Listed
<1>1. CASE UNCHANGED HistoryRing
    <2>1. shell_history_count' = shell_history_count /\ Listed' = Listed
        BY <1>1 DEF HistoryRing, Listed, shell_history_get
    <2> QED BY <1>1, <2>1 DEF HistoryInv, HistoryRing, IsRing
<1>2. ASSUME NEW line \in Lines, TypeLine(line)
      PROVE  HistoryInv' /\ [History!Clear \/ \E item \in Kept : History!Add(item)]_Listed
    <2>1. CASE line = <<FALSE, "clearhist">>
        <3>1. Cleared'
            BY <1>2, <2>1 DEF TypeLine, shell_history_clear, Cleared
        <3>2. (Cleared => HistoryInv /\ Listed = <<>>)'
            BY EmptyHistory, PTL
        <3> QED BY <3>1, <3>2 DEF History!Clear
    <2>2. CASE line # <<FALSE, "clearhist">> /\ Managing(line)
        BY <1>1, <1>2, <2>2 DEF TypeLine, HistoryRing
    <2>3. CASE line # <<FALSE, "clearhist">> /\ ~Managing(line)
        <3>1. line \in Kept /\ shell_history_add(line)
            BY <1>2, <2>3 DEF TypeLine, Managing, Kept
        <3> QED BY <3>1, HistoryAddStep
    <2> QED BY <2>1, <2>2, <2>3
<1>3. ASSUME NEW n \in 1 .. SHELL_HISTORY_MAX, Recall(n)
      PROVE  HistoryInv' /\ [History!Clear \/ \E item \in Kept : History!Add(item)]_Listed
    <2>1. n \in 1 .. shell_history_count /\ shell_history_add(shell_history_get(n - 1))
        BY <1>3 DEF Recall
    <2>2. shell_history_get(n - 1) = Listed[n]
        BY <2>1 DEF Listed
    <2>3. DOMAIN Listed = 1 .. shell_history_count
        BY DEF Listed
    <2>4. Listed[n] \in Kept
        <3>1. Listed \in Seq(Kept) /\ n \in DOMAIN Listed
            BY <2>1, <2>3 DEF HistoryInv
        <3> HIDE DEF HistoryInv
        <3> QED BY <3>1
    <2> QED BY <2>1, <2>2, <2>4, HistoryAddStep
<1> QED BY <1>1, <1>2, <1>3 DEF HistoryNext, historyVars, HistoryRing

\* The shell's history of any capacity implements the list of the newest lines, also
\* when a line is recalled out of a full ring into the slot it is read from.
THEOREM HistoryImplementsRecent == HistorySpec => HistoryIsRecent
<1>1. HistoryInit => HistoryInv /\ Listed = <<>>
    BY EmptyHistory DEF HistoryInit, Cleared
<1>2. HistoryInv /\ [HistoryNext]_historyVars
        => HistoryInv' /\ [History!Clear \/ \E item \in Kept : History!Add(item)]_Listed
    BY HistoryStep
<1> QED BY <1>1, <1>2, PTL DEF HistorySpec, HistoryIsRecent, History!RecentSpec, Kept
=============================================================================

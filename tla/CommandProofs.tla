---------------------------- MODULE CommandProofs ----------------------------
(*****************************************************************************)
(* Proofs about what the commands of the shell work on: the accounts, for    *)
(* every set of built-in ones; the tables and statistics of the network, for *)
(* tables of every size and any addresses, ports and lengths; the packages,  *)
(* for any manifests; the editor, for any text; the registries of the GUI,   *)
(* for any sizes; and the configuration, for any defaults, settings and      *)
(* sizes. The filesystem below packages, editor and configuration is that of *)
(* FileStore, whose stored sector may be too small for the table of files.   *)
(*****************************************************************************)
EXTENDS Users, Net, Package, Editor, Gui, Config, TLAPS

(* Accounts.                                                                 *)

Secrets == Passwords \cup {NoPassword} \cup {BuiltIn[i] : i \in DOMAIN BuiltIn}

Account == [username : AccountNames, enabled : BOOLEAN, locked : BOOLEAN, password : Secrets]

\* Every account is enabled until the shell runs, so guest is.
SessionInv ==
    /\ users \in Seq(Account) /\ active_uid \in 1 .. Len(users)
    /\ users[active_uid].enabled = TRUE
    /\ phase = "boot" => \A i \in 1 .. Len(users) : users[i].enabled = TRUE

\* user_init makes every account enabled and root the active one.
LEMMA SessionInit == ASSUME UsersInit PROVE SessionInv
<1>1. BuiltIn \in Seq(STRING) /\ Len(BuiltIn) \in Nat /\ Len(BuiltIn) > 0 /\ DOMAIN BuiltIn = 1 .. Len(BuiltIn)
    BY UsersAssumption, SMT
<1>2. \A i \in 1 .. Len(BuiltIn) : BuiltIn[i] \in AccountNames /\ BuiltIn[i] \in Secrets
    BY <1>1 DEF AccountNames, Secrets
<1>3. users = [i \in 1 .. Len(BuiltIn) |->
                 [username |-> BuiltIn[i], enabled |-> TRUE, locked |-> FALSE, password |-> BuiltIn[i]]]
    BY <1>1 DEF UsersInit
<1>4. users \in [1 .. Len(BuiltIn) -> Account]
    BY <1>2, <1>3 DEF Account
<1>5. users \in Seq(Account) /\ Len(users) = Len(BuiltIn)
    BY <1>1, <1>4, SMT
<1>6. \A i \in 1 .. Len(users) : users[i].enabled = TRUE
    BY <1>3, <1>5
<1> QED BY <1>1, <1>5, <1>6 DEF SessionInv, UsersInit

\* What user_find finds is an account.
LEMMA Found == ASSUME SessionInv, NEW name, NEW i \in user_find(name)
               PROVE i \in 1 .. Len(users) /\ users[i] \in Account
BY DEF SessionInv, user_find

\* A new account does not move the others.
LEMMA AddKeeps == ASSUME SessionInv, NEW name \in AccountNames, user_add(name), phase = "shell", phase' = phase
                  PROVE SessionInv'
<1> DEFINE a == [username |-> name, enabled |-> TRUE, locked |-> FALSE, password |-> NoPassword]
<1>1. a \in Account
    BY DEF Account, Secrets
<1>2. users' = Append(users, a) /\ active_uid' = active_uid
    BY DEF user_add
<1>3. users' \in Seq(Account) /\ Len(users') = Len(users) + 1
      /\ \A i \in 1 .. Len(users) : users'[i] = users[i]
    <2> HIDE DEF a
    <2> QED BY <1>1, <1>2 DEF SessionInv
<1> QED BY <1>2, <1>3 DEF SessionInv

\* What an update of one account's record keeps.
LEMMA UpdateKeeps ==
    ASSUME SessionInv, NEW i \in 1 .. Len(users), NEW a \in Account,
           users' = [users EXCEPT ![i] = a], phase = "shell", phase' = phase,
           active_uid' \in 1 .. Len(users), users'[active_uid'].enabled = TRUE
    PROVE  SessionInv'
<1>1. users' \in Seq(Account) /\ Len(users') = Len(users)
    BY DEF SessionInv
<1> QED BY <1>1 DEF SessionInv

\* user_disable passes over the active account.
LEMMA DisableKeeps ==
    ASSUME SessionInv, NEW name, user_disable(name), phase = "shell", phase' = phase
    PROVE  SessionInv'
<1>1. PICK i \in user_find(name) :
        /\ i # active_uid
        /\ users' = [users EXCEPT ![i].enabled = FALSE]
        /\ active_uid' = active_uid
    BY DEF user_disable
<1>2. i \in 1 .. Len(users) /\ users[i] \in Account
    BY Found
<1> DEFINE a == [users[i] EXCEPT !.enabled = FALSE]
<1>3. a \in Account
    BY <1>2 DEF Account
<1>4. users' = [users EXCEPT ![i] = a]
    BY <1>1
<1> HIDE DEF a
<1>5. users'[active_uid'].enabled = TRUE
    BY <1>1, <1>2, <1>4 DEF SessionInv
<1> QED BY <1>1, <1>2, <1>3, <1>4, <1>5, UpdateKeeps DEF SessionInv

\* su goes to an account it found enabled.
LEMMA SelectKeeps ==
    ASSUME SessionInv, NEW name, user_set_active(name), phase = "shell", phase' = phase
    PROVE  SessionInv'
<1>1. PICK i \in user_find(name) : users[i].enabled /\ active_uid' = i /\ users' = users
    BY DEF user_set_active
<1>2. i \in 1 .. Len(users) /\ users[i] \in Account
    BY Found
<1>3. users[i].enabled = TRUE
    BY <1>1, <1>2 DEF Account
<1> QED BY <1>1, <1>2, <1>3 DEF SessionInv

\* passwd does not enable or disable.
LEMMA PasswordKeeps ==
    ASSUME SessionInv, NEW name, NEW password \in Passwords, user_set_password(name, password),
           phase = "shell", phase' = phase
    PROVE  SessionInv'
<1>1. PICK i \in user_find(name) :
        /\ users' = [users EXCEPT ![i].password = password, ![i].locked = FALSE]
        /\ active_uid' = active_uid
    BY DEF user_set_password
<1>2. i \in 1 .. Len(users) /\ users[i] \in Account
    BY Found
<1> DEFINE a == [users[i] EXCEPT !.password = password, !.locked = FALSE]
<1>3. a \in Account /\ a.enabled = users[i].enabled
    BY <1>2 DEF Account, Secrets
<1>4. users' = [users EXCEPT ![i] = a]
    BY <1>1, <1>2 DEF SessionInv
<1> HIDE DEF a
<1>5. users'[active_uid'].enabled = TRUE
    BY <1>1, <1>2, <1>3, <1>4 DEF SessionInv
<1> QED BY <1>1, <1>2, <1>3, <1>4, <1>5, UpdateKeeps DEF SessionInv

\* A login that succeeds moves the session to an account it found enabled; one that
\* fails leaves the session where it was.
LEMMA LoginKeeps ==
    ASSUME SessionInv, NEW name, NEW password \in Passwords, user_login(name, password),
           phase = "shell", phase' = phase
    PROVE  SessionInv'
<1>1. PICK i \in user_find(name) :
        /\ users[i].enabled
        /\ users' = [users EXCEPT ![i].locked = users[i].password # password]
        /\ active_uid' = i \/ active_uid' = active_uid
    BY DEF user_login
<1>2. i \in 1 .. Len(users) /\ users[i] \in Account
    BY Found
<1> DEFINE a == [users[i] EXCEPT !.locked = users[i].password # password]
<1>3. a \in Account /\ a.enabled = TRUE
    BY <1>1, <1>2 DEF Account
<1>4. users' = [users EXCEPT ![i] = a]
    BY <1>1
<1> HIDE DEF a
<1>5. active_uid' \in 1 .. Len(users)
    BY <1>1, <1>2 DEF SessionInv
<1>6. users'[active_uid'].enabled = TRUE
    BY <1>1, <1>2, <1>3, <1>4 DEF SessionInv
<1> QED BY <1>2, <1>3, <1>4, <1>5, <1>6, UpdateKeeps

\* Every step keeps the invariant.
LEMMA SessionStep == ASSUME SessionInv, [UsersNext]_usersVars PROVE SessionInv'
<1>1. CASE UNCHANGED usersVars
    BY <1>1 DEF SessionInv, usersVars
<1>2. CASE boot_prompt_login
    <2>1. phase = "boot" /\ phase' = "shell" /\ active_uid' \in user_find("guest") /\ users' = users
        BY <1>2 DEF boot_prompt_login
    <2>2. active_uid' \in 1 .. Len(users)
        BY <2>1, Found
    <2> QED BY <2>1, <2>2 DEF SessionInv
<1>3. CASE phase = "shell" /\ phase' = phase /\ user_logout
    BY <1>3 DEF SessionInv, user_logout
<1>4. ASSUME NEW name \in AccountNames, phase = "shell", phase' = phase,
             \/ user_add(name) \/ user_disable(name) \/ user_set_active(name)
             \/ \E password \in Passwords :
                  user_set_password(name, password) \/ user_login(name, password)
      PROVE  SessionInv'
    BY <1>4, AddKeeps, DisableKeeps, SelectKeeps, PasswordKeeps, LoginKeeps
<1> QED BY <1>1, <1>2, <1>3, <1>4 DEF UsersNext

\* The active uid names an enabled account in every state of every session, for any
\* set of built-in accounts, names and passwords: user_disable refuses the active
\* account, and user_set_active and user_login refuse a disabled one.
THEOREM SessionIsEnabled == UsersSpec => []ActiveIsEnabled
<1>1. UsersInit => SessionInv
    BY SessionInit
<1>2. SessionInv /\ [UsersNext]_usersVars => SessionInv'
    BY SessionStep
<1>3. SessionInv => ActiveIsEnabled
    BY DEF SessionInv, ActiveIsEnabled
<1> QED BY <1>1, <1>2, <1>3, PTL DEF UsersSpec

------------------------------------------------------------------------------
(* The network.                                                              *)

\* A function's values other than its default each occur once.
OneSlot(f, D, default) == \A s, t \in D : f[s] # default /\ f[s] = f[t] => s = t

TablesInv ==
    /\ DOMAIN g_cache = Slots /\ OneSlot(g_cache, Slots, Empty)
    /\ DOMAIN g_sockets = Sockets /\ OneSlot(g_sockets, Sockets, 0)
    /\ g_next_ephemeral \in Nat
    /\ stats \in [Counters -> Nat]

NetInv == TablesInv /\ FramesAccounted

\* An entry that is there is the one the scan finds.
LEMMA OnlyOneIsLowest == ASSUME NEW S, NEW x \in S, S \subseteq Nat, \A y \in S : y = x PROVE Lowest(S) = x
<1>1. \A y \in S : x <= y
    OBVIOUS
<1> QED BY <1>1 DEF Lowest

\* Storing what no other slot holds.
LEMMA StoreKeeps ==
    ASSUME NEW f, NEW D, NEW default, NEW d, NEW v, DOMAIN f = D, OneSlot(f, D, default),
           \A s \in D : f[s] = v => s = d
    PROVE  LET g == [f EXCEPT ![d] = v] IN DOMAIN g = D /\ OneSlot(g, D, default)
BY DEF OneSlot

\* After net_init the cache holds the local entry and nothing is counted.
LEMMA NetInitInv == ASSUME NetInit PROVE NetInv
<1>1. \A s, t \in Slots : g_cache[s] # Empty /\ g_cache[s] = g_cache[t] => s = t
    BY DEF NetInit
<1>2. \A s \in Sockets : g_sockets[s] = 0
    BY DEF NetInit
<1>3. stats \in [Counters -> Nat] /\ \A c \in Counters : stats[c] = 0
    BY DEF NetInit
<1>4. FramesAccounted
    BY <1>3 DEF FramesAccounted, Counters
<1> QED BY <1>1, <1>2, <1>3, <1>4, NetAssumption DEF NetInv, TablesInv, OneSlot, NetInit

-----------------------------------------------------------------------------
(* Counting.                                                                *)

\* The three ways out of ipv4_send.
LEMMA SendCases ==
    ASSUME NEW ip, NEW length
    PROVE  ipv4_send(ip, length) \in {{"ip_dropped"}, {"arp_hits", "eth_tx", "ip_sent"},
                                      {"arp_misses", "arp_requests", "eth_tx", "ip_dropped"}}
BY DEF ipv4_send

\* What a ping or a datagram counts: nothing below it, or what IPv4 counts and one
\* more on the side of the counter IPv4 raised.
Balanced(events) ==
    /\ events \subseteq Counters
    /\ ("eth_tx" \in events) = ("ip_sent" \in events \/ "arp_requests" \in events)
    /\ ~("ip_sent" \in events /\ "arp_requests" \in events)
    /\ ("ip_sent" \in events) = ("icmp_sent" \in events \/ "udp_tx" \in events)
    /\ ~("icmp_sent" \in events /\ "udp_tx" \in events)
    /\ "ip_dropped" \in events => "icmp_dropped" \in events \/ "udp_dropped" \in events
    /\ ("arp_hits" \in events) = ("ip_sent" \in events)
    /\ ("arp_misses" \in events) = ("arp_requests" \in events)

\* A ping counts evenly,
LEMMA PingBalanced ==
    ASSUME NEW ip PROVE Balanced(Through(ipv4_send(ip, 8), <<"icmp_sent", "icmp_dropped">>))
BY SendCases DEF Balanced, Through, Counters

\* a datagram does,
LEMMA DatagramBalanced ==
    ASSUME NEW ip, NEW length
    PROVE  Balanced(Through(ipv4_send(ip, length), <<"udp_tx", "udp_dropped">>))
BY SendCases DEF Balanced, Through, Counters

\* and one that udp_send refuses does.
LEMMA DroppedBalanced == Balanced({"udp_dropped"})
BY DEF Balanced, Counters

\* Counting evenly keeps the sums even.
LEMMA CountKeeps ==
    ASSUME NEW events, Balanced(events), Count(events), stats \in [Counters -> Nat], FramesAccounted
    PROVE  stats' \in [Counters -> Nat] /\ FramesAccounted'
<1>1. \A c \in Counters : stats'[c] = IF c \in events THEN stats[c] + 1 ELSE stats[c]
    BY DEF Count
<1>2. stats' \in [Counters -> Nat]
    BY DEF Count
<1>3. \A c \in Counters : stats[c] \in Nat /\ stats'[c] \in Nat
    BY <1>2
<1> QED BY <1>1, <1>2, <1>3 DEF FramesAccounted, Balanced, Counters

\* A call that only counts.
LEMMA CallKeeps ==
    ASSUME NetInv, NEW events, Balanced(events), Count(events), UNCHANGED <<g_cache, g_sockets, g_next_ephemeral>>
    PROVE  NetInv'
<1>1. stats' \in [Counters -> Nat] /\ FramesAccounted'
    BY CountKeeps DEF NetInv, TablesInv
<1> QED BY <1>1 DEF NetInv, TablesInv

-----------------------------------------------------------------------------
(* The tables.                                                              *)

\* The entry an address already has is the one that is written.
LEMMA AddStaticKeeps == ASSUME NetInv, NEW ip \in Addresses, arp_add_static(ip) PROVE NetInv'
<1> DEFINE known == {s \in Slots : g_cache[s] = ip}
<1>1. ip # Empty
    BY NetAssumption DEF Empty
<1>2. \A s \in Slots : g_cache[s] = ip => s = find_slot(ip)
    <2>1. CASE known = {}
        BY <2>1
    <2>2. CASE known # {}
        <3>1. PICK x \in known : TRUE
            BY <2>2
        <3>2. \A y \in known : y = x
            BY <1>1 DEF NetInv, TablesInv, OneSlot
        <3>3. known \subseteq Nat
            BY NetAssumption DEF Slots
        <3>4. Lowest(known) = x
            BY <3>1, <3>2, <3>3, OnlyOneIsLowest
        <3>5. find_slot(ip) = x
            BY <2>2, <3>4 DEF find_slot
        <3> QED BY <3>2, <3>5
    <2> QED BY <2>1, <2>2
<1>3. DOMAIN g_cache' = Slots /\ OneSlot(g_cache', Slots, Empty)
    BY <1>2, StoreKeeps DEF NetInv, TablesInv, arp_add_static
<1> QED BY <1>3 DEF NetInv, TablesInv, arp_add_static, FramesAccounted

\* Binding a port that no socket has; the counter it raises is none of the others.
LEMMA BindsKeeps ==
    ASSUME NetInv, NEW port, Bindable(port), Binds(port), g_next_ephemeral' \in Nat
    PROVE  NetInv'
<1>1. DOMAIN g_sockets' = Sockets /\ OneSlot(g_sockets', Sockets, 0)
    BY StoreKeeps DEF NetInv, TablesInv, Bindable, Binds
<1>2. stats' = [stats EXCEPT !["bound_sockets"] = stats["bound_sockets"] + 1]
    BY DEF Binds
<1>3. "bound_sockets" \in Counters
    BY DEF Counters
<1>4. stats["bound_sockets"] + 1 \in Nat /\ stats \in [Counters -> Nat]
    BY <1>3 DEF NetInv, TablesInv
<1>5. stats' \in [Counters -> Nat]
    <2> HIDE DEF Counters
    <2> QED BY <1>2, <1>4, Zenon
<1>6. \A c \in Counters \ {"bound_sockets"} : stats'[c] = stats[c]
    BY <1>2 DEF NetInv, TablesInv
<1>7. FramesAccounted'
    BY <1>6 DEF NetInv, FramesAccounted, Counters
<1> QED BY <1>1, <1>5, <1>7 DEF NetInv, TablesInv, Binds

\* The port that is chosen was found free.
LEMMA AutoBindKeeps == ASSUME NetInv, udp_auto_bind PROVE NetInv'
<1>1. PICK port \in g_next_ephemeral .. LastPort :
        /\ Bindable(port) /\ Binds(port)
        /\ g_next_ephemeral' = IF port = LastPort THEN FirstEphemeral ELSE port + 1
    BY DEF udp_auto_bind
<1>2. g_next_ephemeral' \in Nat
    BY <1>1, NetAssumption DEF NetInv, TablesInv
<1> QED BY <1>1, <1>2, BindsKeeps

\* A slot that is freed holds the default.
LEMMA UnbindKeeps == ASSUME NetInv, NEW socket \in Sockets, udp_unbind(socket) PROVE NetInv'
<1>1. DOMAIN g_sockets' = Sockets /\ OneSlot(g_sockets', Sockets, 0)
    BY DEF NetInv, TablesInv, OneSlot, udp_unbind
<1> QED BY <1>1 DEF NetInv, TablesInv, udp_unbind, FramesAccounted

-----------------------------------------------------------------------------

\* Every call keeps the invariant.
LEMMA NetStep == ASSUME NetInv, [NetNext]_netVars PROVE NetInv'
<1>1. CASE UNCHANGED netVars
    BY <1>1 DEF NetInv, TablesInv, FramesAccounted, netVars
<1>2. ASSUME NEW ip \in Addresses, icmp_ping(ip) PROVE NetInv'
    BY <1>2, PingBalanced, CallKeeps DEF icmp_ping
<1>3. ASSUME NEW ip \in Addresses, arp_add_static(ip) PROVE NetInv'
    BY <1>3, AddStaticKeeps
<1>4. ASSUME NEW ip \in Addresses, ipv4_set_ip(ip) PROVE NetInv'
    BY <1>4 DEF NetInv, TablesInv, FramesAccounted, ipv4_set_ip
<1>5. ASSUME NEW ip \in Addresses, NEW socket \in Sockets, NEW length \in Lengths,
             udp_send(socket, ip, length)
      PROVE  NetInv'
    BY <1>5, DatagramBalanced, DroppedBalanced, CallKeeps DEF udp_send
<1>6. ASSUME NEW port \in Ports, udp_bind(port) PROVE NetInv'
    BY <1>6, BindsKeeps DEF udp_bind, NetInv, TablesInv
<1> QED BY <1>1, <1>2, <1>3, <1>4, <1>5, <1>6, AutoBindKeeps, UnbindKeeps DEF NetNext

\* No sequence of calls gives an address two ARP entries or a port two sockets, whatever
\* the sizes of the tables: find_slot reuses the entry it finds before a free slot, and
\* both binding functions look for the port first.
THEOREM EntriesAreUnique == NetSpec => []OneEntryEach
<1>1. NetInit => NetInv
    BY NetInitInv
<1>2. NetInv /\ [NetNext]_netVars => NetInv'
    BY NetStep
<1>3. NetInv => OneEntryEach
    BY DEF NetInv, TablesInv, OneSlot, OneEntryEach
<1> QED BY <1>1, <1>2, <1>3, PTL DEF NetSpec

\* The statistics of eth.c, arp.c, ipv4.c, icmp.c and udp.c add up after any calls.
THEOREM CountersAgree == NetSpec => []FramesAccounted
<1>1. NetInit => NetInv
    BY NetInitInv
<1>2. NetInv /\ [NetNext]_netVars => NetInv'
    BY NetStep
<1>3. NetInv => FramesAccounted
    BY DEF NetInv
<1> QED BY <1>1, <1>2, <1>3, PTL DEF NetSpec

------------------------------------------------------------------------------
(* Packages.                                                                 *)

\* The files that lie outside the sector and are not on the disk, after a step.
NowMissing == {n \in missing \cup unstored' : disk'[n] = NoFile}

\* A file that was unpacked is there; with these contents.
There(f) ==
    /\ disk[f] # NoFile \/ f \in missing
    /\ mounted => files[f] # NoFile \/ f \in missing
Has(f, content) ==
    /\ disk[f] = content \/ f \in missing
    /\ mounted => files[f] = content \/ (files[f] = NoFile /\ f \in missing)

\* The files of a manifest's first n lines are there; with this version's contents. The
\* index may be one of them.
Present(m, n) ==
    \A i \in 1 .. n :
        m.files[i].file \in FileNames /\ (m.files[i].file # PACKAGE_INDEX_FILE => There(m.files[i].file))
Exact(m, n) == \A i \in 1 .. n : Lasts(m, i, n) => Has(m.files[i].file, m.files[i].content)

\* A listed package was installed.
Sound(e) ==
    \E m \in Manifests :
        /\ EntryOf(e, m)
        /\ Present(m, Len(m.files))
        /\ e.name \notin disturbed => Exact(m, Len(m.files))

\* The three places that list packages, each if it is no mixture: what a read of the
\* index finds, what it will find after a power cycle, and the table in memory.
PackageInv ==
    /\ DOMAIN files = FileNames /\ DOMAIN disk = FileNames /\ loose = {}
    /\ \A f \in missing : disk[f] = NoFile
    /\ sound \in [table : BOOLEAN, memory : BOOLEAN, disk : BOOLEAN]
    /\ sound.memory => \A e \in Index(files) : Sound(e)
    /\ sound.disk => \A e \in Index(disk) : Sound(e)
    /\ sound.table => \A e \in package_entries : Sound(e)
    /\ installing # Idle =>
        /\ installing[1] \in Manifests /\ installing[2] \in 1 .. Len(installing[1].files) + 1
        /\ WritesOver(installing[1]) \subseteq disturbed
        /\ Present(installing[1], installing[2] - 1) /\ Exact(installing[1], installing[2] - 1)

\* A file is on the disk as memory has it, if its entry lies in the sector.
Packed(x) == disk'[x] = IF x \in unstored' THEN NoFile ELSE files'[x]

LEMMA StoreOutcome ==
  ASSUME fs_store_table
  PROVE  DOMAIN disk' = FileNames /\ loose' = {} /\ \A x \in FileNames : Packed(x)
BY DEF fs_store_table, Packed

\* A delete removes its file from memory, and stores the table or does not.
LEMMA DeleteOutcome ==
  ASSUME NEW name \in FileNames, DOMAIN files = FileNames, DOMAIN disk = FileNames,
         fs_delete_file(name)
  PROVE  /\ DOMAIN files' = FileNames /\ DOMAIN disk' = FileNames
         /\ \A x \in FileNames \ {name} : files'[x] = files[x]
         /\ loose' \subseteq loose \cup {name}
         /\ \/ \A x \in FileNames : disk'[x] = disk[x]
            \/ \A x \in FileNames : Packed(x)
<1>1. DOMAIN files' = FileNames /\ \A x \in FileNames \ {name} : files'[x] = files[x]
  BY DEF fs_delete_file, With
<1>2. CASE fs_store_table
  BY <1>1, <1>2, StoreOutcome
<1>3. CASE UNCHANGED disk /\ loose' \in SUBSET (loose \cup {name})
  BY <1>1, <1>3
<1> QED BY <1>2, <1>3 DEF fs_delete_file

\* What a failed or a successful write of a file leaves in it, and on the disk.
LEMMA WriteOutcome ==
  ASSUME NEW name \in FileNames, NEW content,
         DOMAIN files = FileNames, DOMAIN disk = FileNames,
         fs_write_file(name, content) \/ WriteFails(name, content)
  PROVE  /\ DOMAIN files' = FileNames /\ DOMAIN disk' = FileNames /\ mounted' = mounted
         /\ \A x \in FileNames \ {name} : files'[x] = files[x]
         /\ files'[name] \in {files[name], content} \cup Leftovers[name]
         /\ loose' \subseteq loose
         /\ \/ \A x \in FileNames \ loose : disk'[x] = disk[x]
            \/ mounted /\ \A x \in FileNames : Packed(x)
<1>1. CASE fs_write_file(name, content)
  <2>1. mounted /\ mounted' = mounted /\ files' = [files EXCEPT ![name] = content] /\ fs_store_table
    BY <1>1 DEF fs_write_file, With
  <2> QED BY <2>1, StoreOutcome
<1>2. CASE UNCHANGED storeVars
  BY <1>2 DEF storeVars
<1>3. CASE /\ mounted /\ mounted' = mounted /\ files' \in WithAny(name, Leftovers[name] \cup {content})
           /\ Spoils
  <2>1. PICK c \in Leftovers[name] \cup {content} : files' = [files EXCEPT ![name] = c]
    BY <1>3 DEF WithAny
  <2>2. DOMAIN disk' = FileNames /\ loose' \subseteq loose /\ \A x \in FileNames \ loose : disk'[x] = disk[x]
    BY <1>3 DEF Spoils
  <2> QED BY <1>3, <2>1, <2>2
<1>4. CASE mounted /\ mounted' = mounted /\ files' = With(name, content) /\ fs_store_table
  <2>1. files' = [files EXCEPT ![name] = content]
    BY <1>4 DEF With
  <2> QED BY <1>4, <2>1, StoreOutcome
<1> QED BY <1>1, <1>2, <1>3, <1>4 DEF WriteFails

\* A write does not undo what was unpacked: it may spoil the file it writes.
LEMMA ThereKept ==
  ASSUME PackageInv, missing' = NowMissing, NEW name \in FileNames, NEW content,
         fs_write_file(name, content) \/ WriteFails(name, content),
         NEW f \in FileNames, There(f), f = name => content # NoFile
  PROVE  There(f)'
<1>1. /\ mounted' = mounted /\ (f # name => files'[f] = files[f])
      /\ f = name => files'[f] \in {files[f], content} \cup Leftovers[f]
      /\ disk'[f] = disk[f] \/ (mounted /\ Packed(f))
  BY WriteOutcome DEF PackageInv
<1>2. files'[f] = NoFile => files[f] = NoFile
  BY <1>1, FileStoreAssumption
<1>3. f \in missing => disk[f] = NoFile
  BY DEF PackageInv
<1>4. f \in missing' <=> (f \in missing \/ f \in unstored') /\ disk'[f] = NoFile
  BY DEF NowMissing
<1> QED BY <1>1, <1>2, <1>3, <1>4 DEF There, Packed

LEMMA HasKept ==
  ASSUME PackageInv, missing' = NowMissing, NEW name \in FileNames, NEW content,
         fs_write_file(name, content) \/ WriteFails(name, content),
         NEW f \in FileNames, NEW c, Has(f, c), f # name
  PROVE  Has(f, c)'
<1>1. mounted' = mounted /\ files'[f] = files[f] /\ (disk'[f] = disk[f] \/ (mounted /\ Packed(f)))
  BY WriteOutcome DEF PackageInv
<1>2. f \in missing => disk[f] = NoFile
  BY DEF PackageInv
<1>3. f \in missing' <=> (f \in missing \/ f \in unstored') /\ disk'[f] = NoFile
  BY DEF NowMissing
<1> QED BY <1>1, <1>2, <1>3 DEF Has, Packed

\* A manifest has a finite number of lines.
LEMMA ManifestLines ==
  ASSUME NEW m \in Manifests
  PROVE  Len(m.files) \in Nat /\ DOMAIN m.files = 1 .. Len(m.files)
BY PackageAssumption

\* A listed package keeps what was unpacked while another file is written.
LEMMA SoundKept ==
  ASSUME PackageInv, missing' = NowMissing, NEW name \in FileNames, NEW content,
         fs_write_file(name, content) \/ WriteFails(name, content),
         NEW e, Sound(e), e.name \in disturbed => e.name \in disturbed',
         name # PACKAGE_INDEX_FILE =>
            /\ content # NoFile
            /\ \A m \in Manifests : \A i \in DOMAIN m.files : m.files[i].file = name => m.name \in disturbed
  PROVE  Sound(e)'
<1>1. PICK m \in Manifests : /\ EntryOf(e, m) /\ Present(m, Len(m.files))
                             /\ e.name \notin disturbed => Exact(m, Len(m.files))
  BY DEF Sound
<1>2. e.name = m.name
  <2>1. e = [name |-> m.name, version |-> m.version, source |-> m.source,
             installed_files |-> e.installed_files]
    BY <1>1 DEF EntryOf
  <2> QED BY <2>1
<1>3. PICK n \in Nat : n = Len(m.files) /\ DOMAIN m.files = 1 .. n
  BY ManifestLines
<1>4. Present(m, n)'
  <2> SUFFICES ASSUME NEW i \in 1 .. n
               PROVE  /\ m.files[i].file \in FileNames
                      /\ m.files[i].file # PACKAGE_INDEX_FILE => There(m.files[i].file)'
    BY DEF Present
  <2>1. PICK f : f = m.files[i].file
    OBVIOUS
  <2>2. f \in FileNames /\ (f # PACKAGE_INDEX_FILE => There(f))
    BY <1>1, <1>3, <2>1 DEF Present
  <2>3. f # PACKAGE_INDEX_FILE => There(f)'
    BY <2>2, ThereKept
  <2> QED BY <2>1, <2>2, <2>3
<1>5. ASSUME e.name \notin disturbed' PROVE Exact(m, n)'
  <2> SUFFICES ASSUME NEW i \in 1 .. n, Lasts(m, i, n)
               PROVE  Has(m.files[i].file, m.files[i].content)'
    BY DEF Exact
  <2>1. PICK f, c : f = m.files[i].file /\ c = m.files[i].content
    OBVIOUS
  <2>2. e.name \notin disturbed
    BY <1>5
  <2>3. f \in FileNames /\ Has(f, c) /\ f # PACKAGE_INDEX_FILE
    BY <1>1, <1>3, <2>1, <2>2 DEF Present, Exact, Lasts
  <2>4. f # name
    BY <1>2, <1>3, <2>1, <2>2, <2>3
  <2>5. Has(f, c)'
    BY <2>3, <2>4, HasKept
  <2> QED BY <2>1, <2>5
<1>6. EntryOf(e, m)'
  BY <1>1 DEF EntryOf
<1> QED BY <1>3, <1>4, <1>5, <1>6 DEF Sound

\* The files that an install writes over belong to packages that count as disturbed.
LEMMA SharersDisturbed ==
  ASSUME NEW M \in Manifests, WritesOver(M) \subseteq disturbed, NEW i \in DOMAIN M.files,
         M.files[i].file # NoFile, NEW m \in Manifests, NEW j \in DOMAIN m.files,
         m.files[j].file = M.files[i].file
  PROVE  m.name \in disturbed
<1>1. m.files[j].file \in FilesOf(m) /\ m.files[j].file \in FilesOf(M)
  BY DEF FilesOf
<1>2. m.name \in WritesOver(M)
  BY <1>1 DEF WritesOver
<1> QED BY <1>2

\* The lists of packages in a store whose index is as it was, or has been stored.
LEMMA IndexAfter ==
  ASSUME PackageInv, NEW name \in FileNames, NEW content,
         fs_write_file(name, content) \/ WriteFails(name, content)
  PROVE  /\ Same(files', files) => Index(files') = Index(files)
         /\ Same(disk', disk) => Index(disk') = Index(disk)
         /\ ~Same(disk', disk) => Index(disk') \subseteq Index(files')
<1>1. /\ disk'[PACKAGE_INDEX_FILE] = disk[PACKAGE_INDEX_FILE]
         \/ disk'[PACKAGE_INDEX_FILE] \in {NoFile, files'[PACKAGE_INDEX_FILE]}
  BY WriteOutcome, PackageAssumption DEF PackageInv, Packed
<1> QED BY <1>1 DEF Same, Index

\* Nothing was written: what was listed stays sound.
LEMMA StillSound ==
  ASSUME PackageInv, UNCHANGED <<files, disk, mounted>>, missing \subseteq missing', NEW e, Sound(e),
         e.name \in disturbed => e.name \in disturbed'
  PROVE  Sound(e)'
BY DEF Sound, EntryOf, Present, Exact, There, Has

\* One line of a manifest is carried out, or the install ends in an error.
LEMMA InstallFileKeeps == ASSUME PackageInv, missing' = NowMissing, InstallFile PROVE PackageInv'
<1>1. PICK M \in Manifests, i \in Nat \ {0} : installing[1] = M /\ installing[2] = i /\ i <= Len(M.files)
  <2>1. installing # Idle /\ installing[2] <= Len(installing[1].files)
    BY DEF InstallFile
  <2>2. installing[1] \in Manifests /\ installing[2] \in 1 .. Len(installing[1].files) + 1
    BY <2>1 DEF PackageInv
  <2> QED BY <2>1, <2>2, ManifestLines
<1> DEFINE line == M.files[i]
<1>2. /\ installing # Idle /\ UNCHANGED <<package_entries, disturbed>>
      /\ WritesOver(M) \subseteq disturbed /\ Present(M, i - 1) /\ Exact(M, i - 1)
      /\ i \in DOMAIN M.files /\ i \in Nat
  BY <1>1, ManifestLines DEF InstallFile, PackageInv
<1>s. /\ sound' \in [table : BOOLEAN, memory : BOOLEAN, disk : BOOLEAN]
      /\ sound'.table = sound.table
      /\ sound'.memory => sound.memory /\ Same(files', files)
      /\ sound'.disk => IF Same(disk', disk) THEN sound.disk ELSE sound.memory /\ Same(files', files)
  <2>1. PICK whole \in BOOLEAN : /\ whole => sound.memory /\ Same(files', files)
                                 /\ Follows(whole)
    <3>1. (Same(files', files) /\ sound.memory) \in BOOLEAN
      BY DEF PackageInv, Same
    <3>2. Follows(Same(files', files) /\ sound.memory)
      BY DEF InstallFile
    <3> QED BY <3>1, <3>2
  <2>2. sound' = [sound EXCEPT !.memory = whole, !.disk = IF Same(disk', disk) THEN sound.disk ELSE whole]
    BY <2>1 DEF Follows, PackageInv
  <2> QED BY <2>1, <2>2 DEF PackageInv
<1>m. \A f \in missing' : disk'[f] = NoFile
  BY DEF NowMissing
<1>3. CASE line.file = NoFile /\ installing' = Idle /\ UNCHANGED storeVars
  <2>1. UNCHANGED <<files, disk, mounted, unstored, loose>>
    BY <1>3 DEF storeVars
  <2>2. missing \subseteq missing'
    BY <2>1 DEF NowMissing, PackageInv
  <2>3. \A e : Sound(e) => Sound(e)'
    BY <1>2, <2>1, <2>2, StillSound
  <2>4. /\ Index(files') = Index(files) /\ Index(disk') = Index(disk)
        /\ sound'.memory => sound.memory
        /\ sound'.disk => sound.disk
    BY <1>s, <2>1 DEF Index, Same
  <2> QED BY <1>2, <1>s, <1>m, <1>3, <2>1, <2>3, <2>4 DEF PackageInv
<1>4. ASSUME line.file # NoFile, fs_write_file(line.file, line.content) \/ WriteFails(line.file, line.content)
      PROVE  /\ DOMAIN files' = FileNames /\ DOMAIN disk' = FileNames /\ loose' = {}
             /\ sound'.memory => \A e \in Index(files') : Sound(e)'
             /\ sound'.disk => \A e \in Index(disk') : Sound(e)'
             /\ sound'.table => \A e \in package_entries' : Sound(e)'
  <2>1. line.file \in FileNames /\ line.content # NoFile
    BY <1>2, <1>4, PackageAssumption
  <2>2. PICK name, content : name \in FileNames /\ name = line.file /\ content = line.content
    BY <2>1
  <2>3. \A m \in Manifests : \A j \in DOMAIN m.files : m.files[j].file = name => m.name \in disturbed
    BY <1>2, <1>4, <2>2, SharersDisturbed
  <2>4. fs_write_file(name, content) \/ WriteFails(name, content)
    BY <1>4, <2>2
  <2>5. DOMAIN files' = FileNames /\ DOMAIN disk' = FileNames /\ loose' = {}
    BY <2>2, <2>4, WriteOutcome DEF PackageInv
  <2>6. ASSUME NEW d, Sound(d) PROVE Sound(d)'
    BY <1>2, <2>1, <2>2, <2>3, <2>4, <2>6, SoundKept
  <2>7. /\ Same(files', files) => Index(files') = Index(files)
        /\ Same(disk', disk) => Index(disk') = Index(disk)
        /\ ~Same(disk', disk) => Index(disk') \subseteq Index(files')
    BY <2>2, <2>4, IndexAfter
  <2> QED BY <1>2, <1>s, <2>5, <2>6, <2>7 DEF PackageInv
<1>5. CASE line.file # NoFile /\ WriteFails(line.file, line.content) /\ installing' = Idle
  BY <1>s, <1>m, <1>4, <1>5 DEF PackageInv
<1>6. CASE line.file # NoFile /\ fs_write_file(line.file, line.content) /\ installing' = <<M, i + 1>>
  <2>1. installing'[1] = M /\ installing'[2] = i + 1 /\ i + 1 \in 1 .. Len(M.files) + 1
    BY <1>1, <1>6, ManifestLines
  <2>2. PICK name, content : /\ name = line.file /\ content = line.content /\ name \in FileNames
                             /\ content # NoFile /\ fs_write_file(name, content)
    BY <1>2, <1>6, PackageAssumption
  <2>3. There(name)' /\ Has(name, content)'
    <3>1. files'[name] = content /\ mounted'
      BY <2>2 DEF fs_write_file, With, PackageInv
    <3>2. Packed(name)
      BY <2>2, StoreOutcome DEF fs_write_file
    <3>3. disk'[name] = NoFile /\ name \in unstored' => name \in missing'
      BY DEF NowMissing
    <3> QED BY <2>2, <3>1, <3>2, <3>3 DEF There, Has, Packed
  <2>4. ASSUME NEW j \in 1 .. i
        PROVE  /\ M.files[j].file \in FileNames
               /\ M.files[j].file # PACKAGE_INDEX_FILE => There(M.files[j].file)'
               /\ Lasts(M, j, i) => Has(M.files[j].file, M.files[j].content)'
    <3>1. PICK f, c : f = M.files[j].file /\ c = M.files[j].content
      OBVIOUS
    <3>2. CASE j = i
      BY <2>2, <2>3, <3>1, <3>2
    <3>3. CASE j # i
      <4>1. j \in 1 .. i - 1
        BY <1>2, <3>3
      <4>2. f \in FileNames /\ (f # PACKAGE_INDEX_FILE => There(f))
        BY <1>2, <3>1, <4>1 DEF Present
      <4>3. f # PACKAGE_INDEX_FILE => There(f)'
        BY <2>2, <4>2, ThereKept
      <4>4. ASSUME Lasts(M, j, i) PROVE Has(f, c)'
        <5>1. i \in j + 1 .. i /\ j + 1 .. i - 1 \subseteq j + 1 .. i
          BY <1>2, <3>3
        <5>2. f # name
          BY <2>2, <3>1, <4>4, <5>1 DEF Lasts
        <5>3. Lasts(M, j, i - 1)
          BY <4>4, <5>1 DEF Lasts
        <5>4. Has(f, c)
          BY <1>2, <3>1, <4>1, <5>3 DEF Exact
        <5> QED BY <2>2, <4>2, <5>2, <5>4, HasKept
      <4> QED BY <3>1, <4>2, <4>3, <4>4
    <3> QED BY <3>2, <3>3
  <2>5. Present(M, i)' /\ Exact(M, i)'
    BY <2>4 DEF Present, Exact, Lasts
  <2>6. WritesOver(M) \subseteq disturbed' /\ i + 1 - 1 = i
    BY <1>2
  <2> QED BY <1>s, <1>m, <1>4, <1>6, <2>1, <2>5, <2>6 DEF PackageInv
<1> QED BY <1>1, <1>2, <1>3, <1>5, <1>6 DEF InstallFile

\* What a save leaves of the index, and which of the lists are still no mixture.
LEMMA SavedIndex ==
  ASSUME PackageInv, NEW entries, package_save_index(entries)
  PROVE  /\ DOMAIN files' = FileNames /\ DOMAIN disk' = FileNames /\ loose' = {}
         /\ sound' \in [table : BOOLEAN, memory : BOOLEAN, disk : BOOLEAN] /\ sound'.table = sound.table
         /\ sound'.memory => \/ Index(files') = Index(files) /\ sound.memory
                             \/ Index(files') \subseteq entries /\ sound.table
         /\ sound'.disk => \/ Index(disk') = Index(disk) /\ sound.disk
                           \/ Index(disk') \subseteq Index(files') /\ sound'.memory
<1> DEFINE whole == \/ Same(files', files) /\ sound.memory
                    \/ files'[PACKAGE_INDEX_FILE] = entries /\ sound.table
<1>1. sound' = [sound EXCEPT !.memory = whole, !.disk = IF Same(disk', disk) THEN @ ELSE whole]
  BY DEF package_save_index, Follows
<1>2. /\ sound' \in [table : BOOLEAN, memory : BOOLEAN, disk : BOOLEAN] /\ sound'.table = sound.table
      /\ sound'.memory = whole /\ sound'.disk = IF Same(disk', disk) THEN sound.disk ELSE whole
  <2>1. whole \in BOOLEAN
    BY DEF PackageInv, Same
  <2> HIDE DEF whole
  <2> QED BY <1>1, <2>1 DEF PackageInv
<1>3. /\ Same(files', files) => Index(files') = Index(files)
      /\ Same(disk', disk) => Index(disk') = Index(disk)
      /\ ~Same(disk', disk) => Index(disk') \subseteq Index(files')
  BY IndexAfter, PackageAssumption DEF package_save_index
<1>4. DOMAIN files' = FileNames /\ DOMAIN disk' = FileNames /\ loose' = {}
  BY WriteOutcome, PackageAssumption DEF package_save_index, PackageInv
<1>5. files'[PACKAGE_INDEX_FILE] = entries => Index(files') \subseteq entries
  BY DEF Index
<1> QED BY <1>2, <1>3, <1>4, <1>5

\* Changing a list of packages: what was listed stays sound.
LEMMA SaveKeeps ==
  ASSUME PackageInv, missing' = NowMissing, package_save_index(package_entries'),
         NEW e, Sound(e), e.name \in disturbed => e.name \in disturbed'
  PROVE  Sound(e)'
<1>1. PICK content : content = package_entries'
  OBVIOUS
<1>2. fs_write_file(PACKAGE_INDEX_FILE, content) \/ WriteFails(PACKAGE_INDEX_FILE, content)
  BY <1>1 DEF package_save_index
<1> QED BY <1>2, SoundKept, PackageAssumption

\* The package is listed when all its lines were carried out.
LEMMA InstallRecordKeeps == ASSUME PackageInv, missing' = NowMissing, InstallRecord PROVE PackageInv'
<1>1. PICK M \in Manifests : installing[1] = M /\ installing[2] = Len(M.files) + 1
  <2>1. installing # Idle /\ installing[2] > Len(installing[1].files)
    BY DEF InstallRecord, Unpacked
  <2>2. installing[1] \in Manifests /\ installing[2] \in 1 .. Len(installing[1].files) + 1
    BY <2>1 DEF PackageInv
  <2> QED BY <2>1, <2>2, ManifestLines
<1> DEFINE others == {e \in package_entries : e.name # M.name}
           entry == [name |-> M.name, version |-> M.version,
                     source |-> M.source, installed_files |-> Len(M.files)]
<1>2. /\ installing # Idle /\ installing' = Idle /\ Len(M.files) \in Nat
      /\ Present(M, Len(M.files)) /\ Exact(M, Len(M.files))
  <2>1. installing # Idle /\ installing' = Idle /\ Len(M.files) \in Nat
    BY ManifestLines DEF InstallRecord
  <2>2. Len(M.files) + 1 - 1 = Len(M.files)
    BY <2>1
  <2> QED BY <1>1, <2>1, <2>2 DEF PackageInv
<1>m. \A f \in missing' : disk'[f] = NoFile
  BY DEF NowMissing
<1>3. CASE UNCHANGED <<storeVars, package_entries, disturbed, sound>>
  <2>1. UNCHANGED <<files, disk, mounted, loose, package_entries, disturbed, sound>>
    BY <1>3 DEF storeVars
  <2>2. missing \subseteq missing'
    BY <2>1 DEF NowMissing, PackageInv
  <2>3. \A e : Sound(e) => Sound(e)'
    BY <2>1, <2>2, StillSound
  <2> QED BY <1>2, <1>m, <2>1, <2>3 DEF PackageInv, Index
<1>4. CASE /\ package_entries' = others \cup {entry}
           /\ package_save_index(package_entries')
           /\ disturbed' = IF {files'[PACKAGE_INDEX_FILE], disk'[PACKAGE_INDEX_FILE]} = {package_entries'}
                           THEN disturbed \ {M.name} ELSE disturbed
  <2>1. PICK rows : rows = package_entries' /\ package_save_index(rows)
    BY <1>4
  <2>2. /\ DOMAIN files' = FileNames /\ DOMAIN disk' = FileNames /\ loose' = {}
        /\ sound' \in [table : BOOLEAN, memory : BOOLEAN, disk : BOOLEAN] /\ sound'.table = sound.table
        /\ sound'.memory => \/ Index(files') = Index(files) /\ sound.memory
                            \/ Index(files') \subseteq rows /\ sound.table
        /\ sound'.disk => \/ Index(disk') = Index(disk) /\ sound.disk
                          \/ Index(disk') \subseteq Index(files') /\ sound'.memory
    BY <2>1, SavedIndex
  <2>3. Present(M, Len(M.files))' /\ Exact(M, Len(M.files))'
    <3>1. PICK n : n \in Nat /\ n = Len(M.files)
      BY <1>2
    <3>2. fs_write_file(PACKAGE_INDEX_FILE, rows) \/ WriteFails(PACKAGE_INDEX_FILE, rows)
      BY <2>1 DEF package_save_index
    <3>3. ASSUME NEW i \in 1 .. n
          PROVE  /\ M.files[i].file \in FileNames
                 /\ M.files[i].file # PACKAGE_INDEX_FILE => There(M.files[i].file)'
                 /\ Lasts(M, i, n) => Has(M.files[i].file, M.files[i].content)'
      <4>1. PICK f, c : f = M.files[i].file /\ c = M.files[i].content
        OBVIOUS
      <4>2. /\ f \in FileNames /\ (f # PACKAGE_INDEX_FILE => There(f))
            /\ Lasts(M, i, n) => Has(f, c) /\ f # PACKAGE_INDEX_FILE
        BY <1>2, <3>1, <4>1 DEF Present, Exact, Lasts
      <4>3. f # PACKAGE_INDEX_FILE => There(f)'
        BY <3>2, <4>2, ThereKept, PackageAssumption
      <4>4. Lasts(M, i, n) => Has(f, c)'
        BY <3>2, <4>2, HasKept, PackageAssumption
      <4> QED BY <4>1, <4>2, <4>3, <4>4
    <3>4. Present(M, n)' /\ Exact(M, n)'
      BY <3>3 DEF Present, Exact
    <3> QED BY <3>1, <3>4
  <2>4. ASSUME NEW e, Sound(e), e \in Index(files') \cup Index(disk') \cup package_entries'
        PROVE  Sound(e)'
    <3>1. CASE e = entry
      BY <2>3, <3>1 DEF Sound, EntryOf
    <3>2. CASE e # entry /\ e.name = M.name /\ disturbed' # disturbed
      <4>1. files'[PACKAGE_INDEX_FILE] = package_entries' /\ disk'[PACKAGE_INDEX_FILE] = package_entries'
        BY <1>4, <3>2
      <4>2. e \in package_entries'
        BY <2>4, <4>1 DEF Index
      <4> QED BY <1>4, <3>2, <4>2
    <3>3. CASE e # entry /\ (e.name # M.name \/ disturbed' = disturbed)
      <4>1. e.name \in disturbed => e.name \in disturbed'
        BY <1>4, <3>3
      <4> QED BY <1>4, <2>4, <4>1, SaveKeeps
    <3> QED BY <3>1, <3>2, <3>3
  <2>5. Sound(entry)
    BY <1>2 DEF Sound, EntryOf
  <2>6. sound.table => \A e \in package_entries' : Sound(e)
    BY <1>4, <2>5 DEF PackageInv
  <2>7. sound'.memory => \A e \in Index(files') : Sound(e)
    BY <2>1, <2>2, <2>6 DEF PackageInv
  <2>8. sound'.disk => \A e \in Index(disk') : Sound(e)
    BY <2>2, <2>7 DEF PackageInv
  <2> QED BY <1>2, <1>m, <2>2, <2>4, <2>6, <2>7, <2>8 DEF PackageInv, Index
<1> QED BY <1>1, <1>3, <1>4 DEF InstallRecord

\* Removing a record leaves the files of the others.
LEMMA RemoveKeeps == ASSUME PackageInv, missing' = NowMissing, NEW name, package_remove(name) PROVE PackageInv'
<1>1. /\ installing = Idle /\ installing' = Idle /\ disturbed' = disturbed
      /\ package_entries' \subseteq package_entries /\ package_save_index(package_entries')
  BY DEF package_remove
<1>2. PICK rows : rows = package_entries' /\ package_save_index(rows)
  BY <1>1
<1>3. /\ DOMAIN files' = FileNames /\ DOMAIN disk' = FileNames /\ loose' = {}
      /\ sound' \in [table : BOOLEAN, memory : BOOLEAN, disk : BOOLEAN] /\ sound'.table = sound.table
      /\ sound'.memory => \/ Index(files') = Index(files) /\ sound.memory
                          \/ Index(files') \subseteq rows /\ sound.table
      /\ sound'.disk => \/ Index(disk') = Index(disk) /\ sound.disk
                        \/ Index(disk') \subseteq Index(files') /\ sound'.memory
  BY <1>2, SavedIndex
<1>4. ASSUME NEW e, Sound(e) PROVE Sound(e)'
  BY <1>1, <1>4, SaveKeeps
<1>5. /\ sound'.table => \A e \in package_entries' : Sound(e)'
      /\ sound'.memory => \A e \in Index(files') : Sound(e)
  BY <1>1, <1>2, <1>3, <1>4 DEF PackageInv
<1>6. sound'.disk => \A e \in Index(disk') : Sound(e)
  BY <1>3, <1>5 DEF PackageInv
<1>7. \A f \in missing' : disk'[f] = NoFile
  BY DEF NowMissing
<1> QED BY <1>1, <1>3, <1>4, <1>5, <1>6, <1>7 DEF PackageInv, Index

\* A boot lists what the index on the disk lists, or nothing.
LEMMA RebootKeeps == ASSUME PackageInv, missing' = NowMissing, RebootPackage PROVE PackageInv'
<1> DEFINE found == ~Same(disk', disk) \/ sound.disk
<1>1. /\ installing' = Idle /\ disturbed' = disturbed /\ disk' \in {disk, Formatted} /\ loose' = {}
      /\ files' = IF mounted' THEN disk' ELSE Formatted
      /\ \E text \in {files'[PACKAGE_INDEX_FILE], Unreadable} : package_entries' = package_load_index(text)
      /\ sound' = [table |-> mounted' => found, memory |-> mounted' => found, disk |-> found]
  BY DEF RebootPackage, PowerCycle
<1>2. package_entries' \subseteq {[e EXCEPT !.installed_files = 0] : e \in Index(files')}
  BY <1>1 DEF package_load_index, Index
<1>3. /\ sound' \in [table : BOOLEAN, memory : BOOLEAN, disk : BOOLEAN]
      /\ sound'.table = (mounted' => found) /\ sound'.memory = (mounted' => found) /\ sound'.disk = found
  <2>1. found \in BOOLEAN /\ (mounted' => found) \in BOOLEAN
    BY DEF PackageInv, Same
  <2> HIDE DEF found
  <2> QED BY <1>1, <2>1
<1>4. /\ DOMAIN Formatted = FileNames /\ Index(Formatted) = {}
      /\ DOMAIN files' = FileNames /\ DOMAIN disk' = FileNames
  BY <1>1, PackageAssumption DEF Formatted, Index, PackageInv
<1>5. Index(files') \subseteq Index(disk') /\ (mounted' \/ Index(files') = {})
  BY <1>1, <1>4 DEF Index
<1>6. ASSUME found, NEW e \in Index(disk'), NEW d \in {e, [e EXCEPT !.installed_files = 0]} PROVE Sound(d)'
  <2>1. disk' = disk /\ sound.disk
    BY <1>1, <1>4, <1>6 DEF Same
  <2>2. PICK m \in Manifests : /\ EntryOf(e, m) /\ Present(m, Len(m.files))
                               /\ e.name \notin disturbed => Exact(m, Len(m.files))
    BY <1>6, <2>1 DEF PackageInv, Sound, Index
  <2>3. EntryOf(d, m) /\ d.name = e.name
    <3>1. e = [name |-> m.name, version |-> m.version, source |-> m.source,
               installed_files |-> e.installed_files]
      BY <2>2 DEF EntryOf
    <3> QED BY <3>1 DEF EntryOf
  <2>4. ASSUME NEW f PROVE (f \in missing => f \in missing' /\ disk[f] = NoFile)
    BY <2>1 DEF NowMissing, PackageInv
  <2>5. \A f \in FileNames : There(f) => There(f)'
    BY <1>1, <2>1, <2>4 DEF There
  <2>6. \A f, c : Has(f, c) => Has(f, c)'
    BY <1>1, <2>1, <2>4 DEF Has
  <2>7. Present(m, Len(m.files))' /\ (e.name \notin disturbed' => Exact(m, Len(m.files))')
    BY <1>1, <2>2, <2>5, <2>6 DEF Present, Exact
  <2>8. EntryOf(d, m)'
    BY <2>3 DEF EntryOf
  <2> QED BY <2>3, <2>7, <2>8 DEF Sound
<1>7. /\ sound'.disk => \A e \in Index(disk') : Sound(e)'
      /\ sound'.memory => \A e \in Index(files') : Sound(e)'
      /\ sound'.table => \A e \in package_entries' : Sound(e)'
  <2> HIDE DEF found
  <2> QED BY <1>2, <1>3, <1>5, <1>6
<1>8. \A f \in missing' : disk'[f] = NoFile
  BY DEF NowMissing
<1> QED BY <1>1, <1>3, <1>4, <1>7, <1>8 DEF PackageInv, Index

LEMMA PackageStep == ASSUME PackageInv, [PackageNext]_packageVars PROVE PackageInv'
<1>1. ASSUME NEW manifest \in Manifests, InstallBegins(manifest), missing' = NowMissing PROVE PackageInv'
  <2>1. /\ installing'[1] = manifest /\ installing'[2] = 1
        /\ disturbed' = disturbed \cup WritesOver(manifest)
        /\ UNCHANGED <<files, disk, mounted, loose, package_entries, sound>>
    BY <1>1 DEF InstallBegins, storeVars
  <2>2. 1 \in 1 .. Len(manifest.files) + 1 /\ Present(manifest, 1 - 1)' /\ Exact(manifest, 1 - 1)'
    BY ManifestLines DEF Present, Exact
  <2>3. missing \subseteq missing' /\ \A f \in missing' : disk'[f] = NoFile
    BY <1>1, <2>1 DEF NowMissing, PackageInv
  <2>4. \A e : Sound(e) => Sound(e)'
    BY <2>1, <2>3, StillSound
  <2>5. WritesOver(manifest) \subseteq disturbed'
    BY <2>1
  <2> QED BY <2>1, <2>2, <2>3, <2>4, <2>5 DEF PackageInv, Index
<1>2. CASE UNCHANGED packageVars
  <2>1. UNCHANGED <<files, disk, mounted, loose, package_entries, installing, disturbed, sound, missing>>
    BY <1>2 DEF packageVars, storeVars
  <2>2. \A e : Sound(e) => Sound(e)'
    BY <2>1, StillSound
  <2> QED BY <2>1, <2>2 DEF PackageInv, Index, Present, Exact, There, Has
<1>3. PackageNext => missing' = NowMissing
  BY DEF PackageNext, NowMissing
<1> QED BY <1>1, <1>2, <1>3, InstallFileKeeps, InstallRecordKeeps, RemoveKeeps, RebootKeeps DEF PackageNext

\* package_install, files first and index last: a package that the index on the disk
\* lists has its files there - but for those that lay outside the sector of the table -
\* in the listed version, unless an install that writes over one of them was cut short
\* or came later. For any number of packages, files and slots, through failed writes,
\* formats and power losses, and for packages that share files, with each other or with
\* the index: package.c keeps none apart.
THEOREM ListedIsInstalled == PackageSpec => []InstalledIsWhole
<1>1. PackageInit => PackageInv
  <2> SUFFICES ASSUME PackageInit PROVE PackageInv
    OBVIOUS
  <2>1. /\ DOMAIN files = FileNames /\ DOMAIN disk = FileNames /\ loose = {} /\ missing = {}
        /\ Index(files) = {} /\ Index(disk) = {} /\ package_entries = {} /\ installing = Idle
    BY PackageAssumption DEF PackageInit, StoreInit, Formatted, Index
  <2>2. sound \in [table : BOOLEAN, memory : BOOLEAN, disk : BOOLEAN]
    BY DEF PackageInit
  <2> QED BY <2>1, <2>2 DEF PackageInv
<1>2. PackageInv /\ [PackageNext]_packageVars => PackageInv'
  BY PackageStep
<1>3. PackageInv => InstalledIsWhole
  <2> SUFFICES ASSUME PackageInv, sound.disk, NEW e \in Index(disk)
               PROVE  \E m \in Manifests :
                        /\ EntryOf(e, m)
                        /\ \A i \in DOMAIN m.files :
                            LET f == m.files[i].file
                            IN \/ f \in missing
                               \/ /\ disk[f] # NoFile
                                  /\ e.name \notin disturbed /\ Lasts(m, i, Len(m.files))
                                        => disk[f] = m.files[i].content
    BY DEF InstalledIsWhole
  <2>1. PICK m \in Manifests : /\ EntryOf(e, m) /\ Present(m, Len(m.files))
                               /\ e.name \notin disturbed => Exact(m, Len(m.files))
    BY DEF PackageInv, Sound
  <2>2. ASSUME NEW i \in DOMAIN m.files, m.files[i].file \notin missing
        PROVE  /\ disk[m.files[i].file] # NoFile
               /\ e.name \notin disturbed /\ Lasts(m, i, Len(m.files))
                     => disk[m.files[i].file] = m.files[i].content
    <3>1. i \in 1 .. Len(m.files)
      BY ManifestLines
    <3>2. disk[PACKAGE_INDEX_FILE] # NoFile
      BY DEF Index
    <3> QED BY <2>1, <2>2, <3>1, <3>2 DEF Present, Exact, There, Has
  <2> QED BY <2>1, <2>2
<1> QED BY <1>1, <1>2, <1>3, PTL DEF PackageSpec

------------------------------------------------------------------------------
(* The editor.                                                               *)

\* A buffer that is not dirty is what was read or saved, unless a save failed: "s" calls
\* it clean then, too.
CleanInv == editing /\ ~dirty /\ ~saveFailed => lines = savedLines

LEMMA CleanStep == ASSUME CleanInv, [EditorNext]_editorVars PROVE CleanInv'
<1> USE DEF CleanInv
<1>1. CASE EditorOpens \/ Quit \/ RebootEditor \/ MoveCursor
  BY <1>1 DEF EditorOpens, Quit, RebootEditor, MoveCursor
<1>2. ASSUME NEW newLines, NEW newCursor, Edits(newLines, newCursor) PROVE CleanInv'
  BY <1>2 DEF Edits
<1>3. CASE SaveCommand \/ SaveAndQuit
  BY <1>3 DEF SaveCommand, SaveAndQuit, SaveSucceeds, EditorSaveFails
<1>4. CASE UNCHANGED editorVars
  BY <1>4 DEF editorVars
<1> QED BY <1>1, <1>2, <1>3, <1>4 DEF EditorNext, InsertLine, AppendLine, DeleteLine

\* editor_run: "q" leaves only a buffer that shows what was last read or saved, whatever
\* was typed and however long the lines are, if the last save succeeded.
THEOREM QuitIsClean == EditorSpec => QuitKeepsText
<1>1. EditorInit => CleanInv
  BY DEF EditorInit, CleanInv
<1>2. CleanInv /\ [EditorNext]_editorVars => CleanInv'
  BY CleanStep
<1>3. CleanInv /\ [EditorNext]_editorVars => [Quit /\ ~saveFailed => lines = savedLines]_editorVars
  BY DEF CleanInv, Quit
<1> QED BY <1>1, <1>2, <1>3, PTL DEF EditorSpec, QuitKeepsText

------------------------------------------------------------------------------
(* The GUI.                                                                  *)

\* A registry whose entries are in E: ids are places, and nothing was given out twice.
Registry(E) ==
    {r \in [entries : Seq(E), count : Nat, next : Nat, active : Nat] :
        /\ r.count = Len(r.entries) /\ r.next = r.count + 1 /\ r.active <= r.count
        /\ \A i \in 1 .. Len(r.entries) : r.entries[i].id = i}

WindowEntry == [id : Nat]
MenuEntry == [id : Nat, window : Nat, items : Nat]
ButtonEntry == [id : Nat, window : Nat, pressed : BOOLEAN]

\* The entries of a registry of menus or buttons belong to windows from `low` to `top`.
Within(r, low, top) == \A i \in 1 .. Len(r.entries) : low <= r.entries[i].window /\ r.entries[i].window <= top

\* The button said to be pressed is.
PressedIs(r) == \A i \in 1 .. Len(r.entries) : i = r.active => r.entries[i].pressed

\* Every registry is one, and nothing points past the windows there are, which are
\* never more than the demos make.
GuiInv ==
    /\ windows \in Registry(WindowEntry) /\ menus \in Registry(MenuEntry)
    /\ buttons \in Registry(ButtonEntry) /\ icons \in Registry(WindowEntry)
    /\ 1 <= windows.count /\ windows.count <= 3 /\ desktop_start_button_id \in Nat
    /\ Within(menus, 0, windows.count) /\ Within(buttons, 1, windows.count) /\ PressedIs(buttons)

-----------------------------------------------------------------------------
LEMMA FreshIsRegistry == ASSUME NEW E PROVE Fresh \in Registry(E)
BY DEF Fresh, Registry

\* What makes a record a registry, and the other way round.
LEMMA RegistryIs ==
  ASSUME NEW E, NEW s \in Seq(E), NEW a \in 0 .. Len(s), \A i \in 1 .. Len(s) : s[i].id = i
  PROVE  [entries |-> s, count |-> Len(s), next |-> Len(s) + 1, active |-> a] \in Registry(E)
<1>1. Len(s) \in Nat
  OBVIOUS
<1>2. PICK n \in Nat : n = Len(s)
  BY <1>1
<1>3. [entries |-> s, count |-> n, next |-> n + 1, active |-> a] \in
        [entries : Seq(E), count : Nat, next : Nat, active : Nat]
  BY <1>2
<1> QED BY <1>2, <1>3 DEF Registry

LEMMA RegistryHas ==
  ASSUME NEW E, NEW r \in Registry(E)
  PROVE  \E s \in Seq(E), a \in Nat :
           /\ r = [entries |-> s, count |-> Len(s), next |-> Len(s) + 1, active |-> a]
           /\ a \in 0 .. Len(s) /\ \A i \in 1 .. Len(s) : s[i].id = i
<1>1. /\ r = [entries |-> r.entries, count |-> r.count, next |-> r.next, active |-> r.active]
      /\ r.entries \in Seq(E) /\ r.active \in Nat /\ r.count \in Nat
  BY DEF Registry
<1>2. r.count = Len(r.entries) /\ r.next = r.count + 1 /\ r.active <= r.count
  BY DEF Registry
<1>3. \A i \in 1 .. Len(r.entries) : r.entries[i].id = i
  BY DEF Registry
<1> QED BY <1>1, <1>2, <1>3

LEMMA Appended ==
  ASSUME NEW E, NEW s \in Seq(E), NEW k \in E
  PROVE  /\ Append(s, k) \in Seq(E) /\ Len(Append(s, k)) = Len(s) + 1
         /\ \A i \in 1 .. Len(s) + 1 : Append(s, k)[i] = IF i <= Len(s) THEN s[i] ELSE k
OBVIOUS

\* An entry with the next id, at the next place.
LEMMA Added ==
  ASSUME NEW E, NEW s \in Seq(E), NEW a \in 0 .. Len(s), \A i \in 1 .. Len(s) : s[i].id = i,
         NEW k \in E, k.id = Len(s) + 1
  PROVE  [entries |-> Append(s, k), count |-> Len(s) + 1, next |-> (Len(s) + 1) + 1, active |-> a]
           \in Registry(E)
<1>1. PICK n \in Nat : n = Len(s)
  OBVIOUS
<1>2. PICK t \in Seq(E) : t = Append(s, k) /\ Len(t) = n + 1
  BY <1>1, Appended
<1>3. \A i \in 1 .. n + 1 : t[i] = IF i <= n THEN s[i] ELSE k
  BY <1>1, <1>2, Appended
<1>4. \A i \in 1 .. Len(t) : t[i].id = i
  BY <1>1, <1>2, <1>3
<1>5. [entries |-> t, count |-> Len(t), next |-> Len(t) + 1, active |-> a] \in Registry(E)
  <2>1. a \in 0 .. Len(t)
    BY <1>1, <1>2
  <2> QED BY <1>4, <2>1, RegistryIs
<1> QED BY <1>1, <1>2, <1>5

\* A full registry stays as it is.
LEMMA NewEntryKeeps ==
  ASSUME NEW E, NEW r \in Registry(E), NEW max \in Nat, NEW k \in E, k.id = r.next
  PROVE  /\ NewEntry(r, max, k) \in Registry(E) /\ NewEntry(r, max, k).active = r.active
         /\ \/ Len(r.entries) = max /\ NewEntry(r, max, k) = r
            \/ /\ Len(r.entries) # max /\ NewEntry(r, max, k).count = r.count + 1
               /\ NewEntry(r, max, k).entries = Append(r.entries, k)
<1>1. CASE Len(r.entries) = max
  BY <1>1 DEF NewEntry
<1>2. CASE Len(r.entries) # max
  <2>1. PICK s \in Seq(E), a \in Nat :
          /\ r = [entries |-> s, count |-> Len(s), next |-> Len(s) + 1, active |-> a]
          /\ a \in 0 .. Len(s) /\ \A i \in 1 .. Len(s) : s[i].id = i
    BY RegistryHas
  <2>2. PICK n \in Nat : n = Len(s)
    OBVIOUS
  <2>0. PICK t \in Seq(E) : t = Append(s, k)
    BY Appended
  <2>3. r = [entries |-> s, count |-> n, next |-> n + 1, active |-> a]
    BY <2>1, <2>2
  <2>4. NewEntry(r, max, k) = [entries |-> t, count |-> n + 1, next |-> (n + 1) + 1, active |-> a]
    BY <1>2, <2>0, <2>2, <2>3 DEF NewEntry
  <2>5. [entries |-> t, count |-> n + 1, next |-> (n + 1) + 1, active |-> a] \in Registry(E)
    <3>1. k.id = Len(s) + 1
      BY <2>1
    <3>2. [entries |-> Append(s, k), count |-> Len(s) + 1, next |-> (Len(s) + 1) + 1, active |-> a]
            \in Registry(E)
      BY <2>1, <3>1, Added
    <3> QED BY <2>0, <2>2, <3>2
  <2> QED BY <1>2, <2>0, <2>2, <2>3, <2>4, <2>5
<1> QED BY <1>1, <1>2

LEMMA FirstActiveKeeps ==
  ASSUME NEW E, NEW r \in Registry(E)
  PROVE  /\ FirstActive(r) \in Registry(E) /\ FirstActive(r).entries = r.entries
         /\ FirstActive(r).count = r.count
<1>1. CASE r.active = 0 /\ r.entries # <<>>
  <2>1. /\ r = [entries |-> r.entries, count |-> r.count, next |-> r.next, active |-> r.active]
        /\ r.entries \in Seq(E) /\ r.count \in Nat /\ r.next \in Nat
        /\ r.count = Len(r.entries) /\ r.next = r.count + 1
        /\ \A i \in 1 .. Len(r.entries) : r.entries[i].id = i
    BY DEF Registry
  <2>2. Len(r.entries) >= 1
    BY <1>1, <2>1
  <2>3. FirstActive(r) = [entries |-> r.entries, count |-> r.count, next |-> r.next, active |-> 1]
    BY <1>1, <2>1, <2>2 DEF FirstActive
  <2> QED BY <2>1, <2>2, <2>3 DEF Registry
<1>2. CASE ~(r.active = 0 /\ r.entries # <<>>)
  BY <1>2 DEF FirstActive
<1> QED BY <1>1, <1>2

\* One more window, while there is room.
LEMMA WindowMade ==
  ASSUME NEW r \in Registry(WindowEntry), r.count < 3
  PROVE  wm_create_window(r) \in Registry(WindowEntry) /\ wm_create_window(r).count = r.count + 1
<1>1. r.next \in Nat /\ r.count = Len(r.entries)
  BY DEF Registry
<1>2. PICK e \in WindowEntry : e = Window(r.next) /\ e.id = r.next
  <2>1. Window(r.next) \in WindowEntry /\ Window(r.next).id = r.next
    BY <1>1 DEF Window, WindowEntry
  <2> QED BY <2>1
<1>3. NewEntry(r, WM_MAX_WINDOWS, e) \in Registry(WindowEntry) /\ NewEntry(r, WM_MAX_WINDOWS, e).count = r.count + 1
  BY <1>1, <1>2, NewEntryKeeps, GuiAssumption
<1> QED BY <1>2, <1>3, FirstActiveKeeps DEF wm_create_window

\* One more menu, or none when there is no room.
LEMMA MenuMade ==
  ASSUME NEW r \in Registry(MenuEntry), NEW top \in Nat, Within(r, 0, top),
         NEW window \in 0 .. top, NEW texts \in Nat
  PROVE  menu_create(r, window, texts) \in Registry(MenuEntry) /\ Within(menu_create(r, window, texts), 0, top)
<1>1. PICK items \in Nat : items = IF texts < MENU_ITEM_MAX THEN texts ELSE MENU_ITEM_MAX
  BY GuiAssumption
<1>2. r.next \in Nat /\ r.entries \in Seq(MenuEntry)
  BY DEF Registry
<1>3. PICK e \in MenuEntry : e = Menu(r.next, window, items) /\ e.id = r.next /\ e.window = window
  <2>1. /\ Menu(r.next, window, items) \in MenuEntry /\ Menu(r.next, window, items).id = r.next
        /\ Menu(r.next, window, items).window = window
    BY <1>1, <1>2 DEF Menu, MenuEntry
  <2> QED BY <2>1
<1>4. PICK made : made = NewEntry(r, MENU_MAX_MENUS, e)
  OBVIOUS
<1>5. made \in Registry(MenuEntry) /\ (made = r \/ made.entries = Append(r.entries, e))
  BY <1>3, <1>4, NewEntryKeeps, GuiAssumption
<1>6. Within(made, 0, top)
  <2>1. CASE made = r
    BY <2>1
  <2>2. CASE made.entries = Append(r.entries, e)
    BY <1>2, <1>3, <2>2, Appended DEF Within
  <2> QED BY <1>5, <2>1, <2>2
<1>7. menu_create(r, window, texts) = FirstActive(made)
  BY <1>1, <1>3, <1>4 DEF menu_create
<1> QED BY <1>5, <1>6, <1>7, FirstActiveKeeps DEF Within

\* One more button, or none.
LEMMA ButtonMade ==
  ASSUME NEW r \in Registry(ButtonEntry), NEW top \in Nat, Within(r, 1, top), PressedIs(r),
         NEW window \in 1 .. top
  PROVE  /\ btn_create(r, window) \in Registry(ButtonEntry)
         /\ Within(btn_create(r, window), 1, top) /\ PressedIs(btn_create(r, window))
<1>1. r.next \in Nat /\ r.entries \in Seq(ButtonEntry) /\ r.active <= Len(r.entries) /\ r.active \in Nat
  BY DEF Registry
<1>2. PICK e \in ButtonEntry : e = Button(r.next, window) /\ e.id = r.next /\ e.window = window
  <2>1. /\ Button(r.next, window) \in ButtonEntry /\ Button(r.next, window).id = r.next
        /\ Button(r.next, window).window = window
    BY <1>1 DEF Button, ButtonEntry
  <2> QED BY <2>1
<1>3. PICK made : made = btn_create(r, window)
  OBVIOUS
<1>4. /\ made \in Registry(ButtonEntry)
      /\ made = r \/ (made.entries = Append(r.entries, e) /\ made.active = r.active)
  <2>1. made = NewEntry(r, BTN_MAX_BUTTONS, e)
    BY <1>2, <1>3 DEF btn_create
  <2> QED BY <1>2, <2>1, NewEntryKeeps, GuiAssumption
<1>5. Within(made, 1, top)
  <2>1. CASE made = r
    BY <2>1
  <2>2. CASE made.entries = Append(r.entries, e)
    BY <1>1, <1>2, <2>2, Appended DEF Within
  <2> QED BY <1>4, <2>1, <2>2
<1>6. PressedIs(made)
  <2>1. CASE made = r
    BY <2>1
  <2>2. CASE made.entries = Append(r.entries, e) /\ made.active = r.active
    BY <1>1, <1>2, <2>2, Appended DEF PressedIs
  <2> QED BY <1>4, <2>1, <2>2
<1> QED BY <1>3, <1>4, <1>5, <1>6

\* A button pressed or released, if there is one with that id.
LEMMA ButtonSet ==
  ASSUME NEW r \in Registry(ButtonEntry), NEW top \in Nat, Within(r, 1, top), PressedIs(r),
         NEW id \in Nat, NEW pressed \in BOOLEAN
  PROVE  /\ btn_set_pressed(r, id, pressed) \in Registry(ButtonEntry)
         /\ Within(btn_set_pressed(r, id, pressed), 1, top) /\ PressedIs(btn_set_pressed(r, id, pressed))
<1> DEFINE set == btn_set_pressed(r, id, pressed)
           at == {i \in DOMAIN r.entries : r.entries[i].id = id}
<1>1. /\ r = [entries |-> r.entries, count |-> r.count, next |-> r.next, active |-> r.active]
      /\ r.entries \in Seq(ButtonEntry) /\ r.count \in Nat /\ r.next \in Nat /\ r.active \in Nat
      /\ r.count = Len(r.entries) /\ r.next = r.count + 1 /\ r.active <= r.count
      /\ \A i \in 1 .. Len(r.entries) : r.entries[i].id = i
  BY DEF Registry
<1>2. DOMAIN r.entries = 1 .. Len(r.entries)
  BY <1>1
<1>3. CASE at = {}
  BY <1>3 DEF btn_set_pressed
<1>4. CASE at # {}
  <2>1. id \in 1 .. Len(r.entries) /\ at = {id}
    BY <1>1, <1>2, <1>4
  <2>2. PICK active \in 0 .. r.count : active = IF pressed THEN id ELSE 0
    BY <1>1, <2>1
  <2>3. PICK s : s = [i \in 1 .. Len(r.entries) |->
                        IF i = id THEN [r.entries[i] EXCEPT !.pressed = pressed] ELSE r.entries[i]]
    OBVIOUS
  <2>4. \A i \in 1 .. Len(r.entries) :
          /\ s[i] \in ButtonEntry /\ s[i].id = i /\ s[i].window = r.entries[i].window
          /\ s[i].pressed = IF i = id THEN pressed ELSE r.entries[i].pressed
    <3> SUFFICES ASSUME NEW i \in 1 .. Len(r.entries)
                 PROVE  /\ s[i] \in ButtonEntry /\ s[i].id = i /\ s[i].window = r.entries[i].window
                        /\ s[i].pressed = IF i = id THEN pressed ELSE r.entries[i].pressed
      OBVIOUS
    <3>1. r.entries[i] \in ButtonEntry /\ r.entries[i].id = i
      BY <1>1
    <3>2. s[i] = IF i = id THEN [r.entries[i] EXCEPT !.pressed = pressed] ELSE r.entries[i]
      BY <2>3
    <3> QED BY <3>1, <3>2 DEF ButtonEntry
  <2>5. s \in Seq(ButtonEntry) /\ Len(s) = Len(r.entries)
    BY <1>1, <2>3, <2>4
  <2>6. btn_set_pressed(r, id, pressed) =
          [r EXCEPT !.entries = [i \in DOMAIN @ |-> IF i \in at THEN [@[i] EXCEPT !.pressed = pressed] ELSE @[i]],
                    !.active = IF pressed THEN id ELSE 0]
    BY <1>4 DEF btn_set_pressed
  <2>7. set = [entries |-> s, count |-> r.count, next |-> r.next, active |-> active]
    <3>1. s = [i \in DOMAIN r.entries |-> IF i \in at THEN [r.entries[i] EXCEPT !.pressed = pressed] ELSE r.entries[i]]
      BY <1>2, <2>1, <2>3
    <3>2. set = [r EXCEPT !.entries = s, !.active = active]
      BY <2>2, <2>6, <3>1
    <3> HIDE DEF set
    <3>3. PICK es \in Seq(ButtonEntry), old \in Nat :
            r = [entries |-> es, count |-> Len(es), next |-> Len(es) + 1, active |-> old]
      BY RegistryHas
    <3> QED BY <3>2, <3>3
  <2> HIDE DEF set
  <2>8. set \in Registry(ButtonEntry)
    BY <1>1, <2>2, <2>4, <2>5, <2>7, RegistryIs
  <2>9. Within(set, 1, top)
    BY <2>4, <2>5, <2>7 DEF Within
  <2>10. PressedIs(set)
    BY <2>1, <2>2, <2>4, <2>5, <2>7 DEF PressedIs
  <2> QED BY <2>8, <2>9, <2>10 DEF set
<1> QED BY <1>3, <1>4

LEMMA ThreeWindows == DemoWindows \in Registry(WindowEntry) /\ DemoWindows.count = 3
<1>1. Fresh \in Registry(WindowEntry) /\ Fresh.count = 0
  BY FreshIsRegistry DEF Fresh
<1>2. PICK r \in Registry(WindowEntry) :
        r = wm_create_window(wm_create_window(wm_create_window(Fresh))) /\ r.count = 3
  <2>1. PICK q \in Registry(WindowEntry) : q = wm_create_window(Fresh) /\ q.count = 1
    BY <1>1, WindowMade
  <2>2. PICK p \in Registry(WindowEntry) : p = wm_create_window(q) /\ p.count = 2
    BY <2>1, WindowMade
  <2> QED BY <2>1, <2>2, WindowMade
<1>3. DemoWindows = [r EXCEPT !.active = 1]
  BY <1>2 DEF DemoWindows
<1> QED BY <1>2, <1>3 DEF Registry

\* desktop_init's icons.
LEMMA IconMade == ASSUME NEW r \in Registry(WindowEntry) PROVE icons_add(r) \in Registry(WindowEntry)
<1>1. r.next \in Nat
  BY DEF Registry
<1>2. Icon(r.next) \in WindowEntry /\ Icon(r.next).id = r.next
  BY <1>1 DEF Icon, WindowEntry
<1> QED BY <1>2, NewEntryKeeps, GuiAssumption DEF icons_add

LEMMA GuiInitInv == ASSUME GuiInit PROVE GuiInv
<1>1. /\ Fresh \in Registry(WindowEntry) /\ Fresh \in Registry(MenuEntry) /\ Fresh \in Registry(ButtonEntry)
      /\ Fresh.count = 0 /\ Len(Fresh.entries) = 0
  BY FreshIsRegistry DEF Fresh
<1>2. NewId(Fresh, WM_MAX_WINDOWS) = 1
  BY GuiAssumption DEF NewId, Fresh
<1>3. windows \in Registry(WindowEntry) /\ windows.count = 1
  BY <1>1, WindowMade DEF GuiInit
<1>4. Within(Fresh, 0, 1) /\ Within(Fresh, 1, 1) /\ PressedIs(Fresh)
  BY <1>1 DEF Within, PressedIs
<1>5. menus \in Registry(MenuEntry) /\ Within(menus, 0, 1)
  BY <1>1, <1>2, <1>4, MenuMade DEF GuiInit
<1>6. buttons \in Registry(ButtonEntry) /\ Within(buttons, 1, 1) /\ PressedIs(buttons)
  BY <1>1, <1>2, <1>4, ButtonMade DEF GuiInit
<1>7. icons \in Registry(WindowEntry)
  BY <1>1, IconMade DEF GuiInit, icons_add_default_icons
<1>8. desktop_start_button_id \in Nat
  BY DEF GuiInit, NewId, Fresh
<1> QED BY <1>3, <1>5, <1>6, <1>7, <1>8 DEF GuiInv

\* The demos' windows are at least as many as there were.
LEMMA WindowsReset ==
  ASSUME GuiInv, windows' = DemoWindows
  PROVE  /\ windows' \in Registry(WindowEntry) /\ windows'.count = 3
         /\ Within(menus, 0, 3) /\ Within(buttons, 1, 3)
<1>1. windows.count \in Nat /\ menus.entries \in Seq(MenuEntry) /\ buttons.entries \in Seq(ButtonEntry)
  BY DEF GuiInv, Registry
<1>2. \A i \in 1 .. Len(menus.entries) : menus.entries[i].window \in Nat
  <2>1. \A i \in 1 .. Len(menus.entries) : menus.entries[i] \in MenuEntry
    BY <1>1
  <2> QED BY <2>1 DEF MenuEntry
<1>3. \A i \in 1 .. Len(buttons.entries) : buttons.entries[i].window \in Nat
  <2>1. \A i \in 1 .. Len(buttons.entries) : buttons.entries[i] \in ButtonEntry
    BY <1>1
  <2> QED BY <2>1 DEF ButtonEntry
<1>4. Within(menus, 0, 3)
  BY <1>1, <1>2 DEF GuiInv, Within
<1>5. Within(buttons, 1, 3)
  BY <1>1, <1>3 DEF GuiInv, Within
<1> QED BY <1>4, <1>5, ThreeWindows

LEMMA GuiStep == ASSUME GuiInv, [GuiNext]_guiVars PROVE GuiInv'
<1>0. windows.count \in Nat
  BY DEF GuiInv, Registry
<1>1. CASE wm_demo_layout
  <2>1. /\ windows' \in Registry(WindowEntry) /\ windows'.count = 3
        /\ Within(menus, 0, 3) /\ Within(buttons, 1, 3)
    BY <1>1, WindowsReset DEF wm_demo_layout
  <2>2. UNCHANGED <<menus, buttons, icons, desktop_start_button_id>>
    BY <1>1 DEF wm_demo_layout
  <2> QED BY <2>1, <2>2 DEF GuiInv, Within, PressedIs
<1>2. CASE menu_demo_layout
  <2>1. Fresh \in Registry(MenuEntry) /\ Within(Fresh, 0, windows.count)
    BY FreshIsRegistry DEF Fresh, Within
  <2>2. PICK m \in Registry(MenuEntry) : m = menu_create(Fresh, 0, 3) /\ Within(m, 0, windows.count)
    BY <1>0, <2>1, MenuMade
  <2>3. PICK n \in Registry(MenuEntry) : n = menu_create(m, 0, 2) /\ Within(n, 0, windows.count)
    BY <1>0, <2>2, MenuMade
  <2>4. menus' = n /\ UNCHANGED <<windows, buttons, icons, desktop_start_button_id>>
    BY <1>2, <2>2, <2>3 DEF menu_demo_layout
  <2> QED BY <2>3, <2>4 DEF GuiInv, Within, PressedIs
<1>3. CASE btn_demo_layout
  <2>1. /\ windows' \in Registry(WindowEntry) /\ windows'.count = 3
        /\ Within(menus, 0, 3) /\ Within(buttons, 1, 3)
    BY <1>3, WindowsReset DEF btn_demo_layout
  <2>2. PICK b \in Registry(ButtonEntry) : b = btn_create(buttons, 1) /\ Within(b, 1, 3) /\ PressedIs(b)
    BY <2>1, ButtonMade DEF GuiInv
  <2>3. PICK c \in Registry(ButtonEntry) : c = btn_create(b, 2) /\ Within(c, 1, 3) /\ PressedIs(c)
    BY <2>2, ButtonMade
  <2>4. PICK d \in Registry(ButtonEntry) : d = btn_create(c, 3) /\ Within(d, 1, 3) /\ PressedIs(d)
    BY <2>3, ButtonMade
  <2>5. PICK id \in Nat : id = NewId(buttons, BTN_MAX_BUTTONS)
    BY DEF NewId, GuiInv, Registry
  <2>6. PICK e \in Registry(ButtonEntry) :
          e = btn_set_pressed(d, id, TRUE) /\ Within(e, 1, 3) /\ PressedIs(e)
    BY <2>4, ButtonSet
  <2>7. buttons' = e /\ UNCHANGED <<menus, icons, desktop_start_button_id>>
    BY <1>3, <2>2, <2>3, <2>4, <2>5, <2>6 DEF btn_demo_layout
  <2>8. e \in Registry(ButtonEntry) /\ Within(e, 1, 3) /\ PressedIs(e)
    BY <2>6
  <2> HIDE <2>6
  <2> QED BY <2>1, <2>7, <2>8 DEF GuiInv, Within, PressedIs
<1>4. CASE desktop_render
  <2>1. PICK e \in Registry(ButtonEntry) :
          /\ e = btn_set_pressed(buttons, desktop_start_button_id, FALSE)
          /\ Within(e, 1, windows.count) /\ PressedIs(e)
    BY <1>0, ButtonSet DEF GuiInv
  <2>2. buttons' = e /\ UNCHANGED <<windows, menus, icons, desktop_start_button_id>>
    BY <1>4, <2>1 DEF desktop_render
  <2> QED BY <2>1, <2>2 DEF GuiInv, Within, PressedIs
<1>5. CASE UNCHANGED guiVars
  BY <1>5 DEF GuiInv, Within, PressedIs, guiVars
<1> QED BY <1>1, <1>2, <1>3, <1>4, <1>5 DEF GuiNext

LEMMA RegistryAgrees ==
  ASSUME NEW E, NEW r \in Registry(E)
  PROVE  /\ \A i, j \in DOMAIN r.entries : r.entries[i].id = r.entries[j].id => i = j
         /\ \A id \in Ids(r) : 0 < id /\ id < r.next
         /\ r.count = Len(r.entries) /\ r.next = r.count + 1
         /\ r.active \in Ids(r) \cup {0} /\ Ids(r) = 1 .. r.count /\ DOMAIN r.entries = 1 .. Len(r.entries)
<1>1. /\ r.entries \in Seq(E) /\ r.count \in Nat /\ r.next \in Nat /\ r.active \in Nat
      /\ r.count = Len(r.entries) /\ r.next = r.count + 1 /\ r.active <= r.count
      /\ \A i \in 1 .. Len(r.entries) : r.entries[i].id = i
  BY DEF Registry
<1>2. DOMAIN r.entries = 1 .. Len(r.entries)
  BY <1>1
<1>3. Ids(r) = 1 .. r.count
  BY <1>1, <1>2 DEF Ids
<1> QED BY <1>1, <1>2, <1>3

\* gui/, for registries of any size with room for the three windows of the demos: through
\* any sequence of demos, also past the end of a registry, ids name one entry each and
\* are counted and never given out again, and nothing refers to what does not exist.
THEOREM RegistriesStayWhole == GuiSpec => []RegistriesAgree
<1>1. GuiInv => RegistriesAgree
  <2> SUFFICES ASSUME GuiInv PROVE RegistriesAgree
    OBVIOUS
  <2>1. ASSUME NEW r \in {windows, menus, buttons, icons}
        PROVE  /\ \A i, j \in DOMAIN r.entries : r.entries[i].id = r.entries[j].id => i = j
               /\ \A id \in Ids(r) : 0 < id /\ id < r.next
               /\ r.count = Len(r.entries) /\ r.next = r.count + 1
               /\ r.active \in Ids(r) \cup {0}
    <3>1. PICK E : r \in Registry(E)
      BY DEF GuiInv
    <3> QED BY <3>1, RegistryAgrees
  <2>2. /\ Ids(windows) = 1 .. windows.count /\ windows.count \in Nat
        /\ DOMAIN menus.entries = 1 .. Len(menus.entries) /\ DOMAIN buttons.entries = 1 .. Len(buttons.entries)
        /\ menus.entries \in Seq(MenuEntry) /\ buttons.entries \in Seq(ButtonEntry)
    <3>1. windows.count \in Nat /\ menus.entries \in Seq(MenuEntry) /\ buttons.entries \in Seq(ButtonEntry)
      BY DEF GuiInv, Registry
    <3> QED BY <3>1, RegistryAgrees DEF GuiInv
  <2>3. ASSUME NEW i \in DOMAIN buttons.entries
        PROVE  /\ buttons.entries[i].id = buttons.active => buttons.entries[i].pressed
               /\ buttons.entries[i].window \in Ids(windows)
    <3>1. buttons.entries[i].id = i
      BY <2>2 DEF GuiInv, Registry
    <3>2. buttons.entries[i].window \in Nat
      <4>1. buttons.entries[i] \in ButtonEntry
        BY <2>2
      <4> QED BY <4>1 DEF ButtonEntry
    <3> QED BY <2>2, <3>1, <3>2 DEF GuiInv, Within, PressedIs
  <2>4. ASSUME NEW i \in DOMAIN menus.entries PROVE menus.entries[i].window \in Ids(windows) \cup {0}
    <3>1. menus.entries[i].window \in Nat
      <4>1. menus.entries[i] \in MenuEntry
        BY <2>2
      <4> QED BY <4>1 DEF MenuEntry
    <3> QED BY <2>2, <3>1 DEF GuiInv, Within
  <2> QED BY <2>1, <2>3, <2>4 DEF RegistriesAgree
<1> QED BY <1>1, GuiInitInv, GuiStep, PTL DEF GuiSpec

------------------------------------------------------------------------------
(* Settings.                                                                 *)

\* The folds of the texts and of the tables.
Largest(s) == Max(s)
Lengthen(n, line) == n + Len(line)

Sums == INSTANCE Folding WITH op <- Lengthen, pick <- Largest
Adding == INSTANCE Folding WITH op <- AddLine, pick <- Largest
Parsing == INSTANCE Folding WITH op <- Parsed, pick <- Largest

LEMMA LargestLeads ==
    ASSUME NEW n \in Nat
    PROVE  Sums!Downwards(n) /\ Adding!Downwards(n) /\ Parsing!Downwards(n)
<1>1. ASSUME NEW s \in SUBSET (1 .. n), s # {} PROVE Largest(s) \in s /\ \A y \in s : y <= Largest(s)
    BY <1>1, Sums!HasLargest DEF Largest, Max
<1>2. ASSUME NEW i \in 1 .. n PROVE Largest(1 .. i) = i
    <2>1. 1 .. i \in SUBSET (1 .. n) /\ i \in 1 .. i
        OBVIOUS
    <2>2. Largest(1 .. i) \in 1 .. i /\ i <= Largest(1 .. i)
        BY <1>1, <2>1
    <2> QED BY <2>2
<1> QED
    BY <1>1, <1>2
    DEF Sums!Downwards, Adding!Downwards, Parsing!Downwards, Sums!Picks, Adding!Picks, Parsing!Picks

\* The room a text uses is the end of a run of sums,
LEMMA UsedRun ==
    ASSUME NEW rows, NEW n \in Nat, DOMAIN rows = 1 .. n
    PROVE  \E r : r[0] = 0 /\ (\A i \in 1 .. n : r[i] = r[i - 1] + Len(rows[i])) /\ Used(rows) = r[n]
<1>1. PICK r : Sums!Run(r, 0, rows, n)
    BY LargestLeads, Sums!FoldRuns
<1>2. Used(rows) = Sums!Folded(0, rows)[DOMAIN rows]
    BY DEF Used, FoldLeft, MapThenFoldSet, Sums!Folded, Sums!Folds, Largest, Lengthen, Max
<1> QED BY <1>1, <1>2 DEF Sums!Run, Lengthen

\* a text is that of a run of lines added,
LEMMA TextRun ==
    ASSUME NEW table, NEW n \in Nat, DOMAIN table = 1 .. n
    PROVE  \E r : r[0] = <<>> /\ (\A i \in 1 .. n : r[i] = AddLine(r[i - 1], table[i])) /\ Text(table) = r[n]
<1>1. PICK r : Adding!Run(r, <<>>, table, n)
    BY LargestLeads, Adding!FoldRuns
<1>2. Text(table) = Adding!Folded(<<>>, table)[DOMAIN table]
    BY DEF Text, FoldLeft, MapThenFoldSet, Adding!Folded, Adding!Folds, Largest, Max
<1> QED BY <1>1, <1>2 DEF Adding!Run

Loaded(base, rows) == FoldLeft(Parsed, base, rows)

\* and a loaded table that of a run of lines parsed.
LEMMA ParsedRun ==
    ASSUME NEW base, NEW rows, NEW n \in Nat, DOMAIN rows = 1 .. n
    PROVE  \E r : r[0] = base /\ (\A i \in 1 .. n : r[i] = Parsed(r[i - 1], rows[i]))
                  /\ Loaded(base, rows) = r[n]
<1>1. PICK r : Parsing!Run(r, base, rows, n)
    BY LargestLeads, Parsing!FoldRuns
<1>2. Loaded(base, rows) = Parsing!Folded(base, rows)[DOMAIN rows]
    BY DEF Loaded, FoldLeft, MapThenFoldSet, Parsing!Folded, Parsing!Folds, Largest, Max
<1> QED BY <1>1, <1>2 DEF Parsing!Run

Texts == Seq(Seq(STRING))

\* Adding a line adds its length.
LEMMA UsedLonger ==
    ASSUME NEW rows \in Texts, NEW line \in Seq(STRING)
    PROVE  /\ Used(<<>>) = 0 /\ Used(rows) \in Nat
           /\ Used(Append(rows, line)) = Used(rows) + Len(line)
<1> DEFINE n == Len(rows)
           more == Append(rows, line)
<1>1. n \in Nat /\ DOMAIN rows = 1 .. n /\ n + 1 \in Nat
    BY DEF Texts
<1>2. DOMAIN more = 1 .. n + 1 /\ more[n + 1] = line /\ \A i \in 1 .. n : more[i] = rows[i] /\ rows[i] \in Seq(STRING)
    BY DEF Texts
<1>3. PICK r : r[0] = 0 /\ (\A i \in 1 .. n : r[i] = r[i - 1] + Len(rows[i])) /\ Used(rows) = r[n]
    <2> HIDE DEF n
    <2> QED BY <1>1, UsedRun
<1>4. PICK q : q[0] = 0 /\ (\A i \in 1 .. n + 1 : q[i] = q[i - 1] + Len(more[i])) /\ Used(more) = q[n + 1]
    <2> HIDE DEF n, more
    <2> QED BY <1>1, <1>2, UsedRun
<1>5. Used(<<>>) = 0
    <2>1. 0 \in Nat /\ DOMAIN <<>> = 1 .. 0
        OBVIOUS
    <2> QED BY <2>1, UsedRun
<1> HIDE DEF n, more
<1> DEFINE N == {i \in Nat : i <= n => r[i] \in Nat /\ q[i] = r[i]}
<1>6. 0 \in N
    BY <1>3, <1>4
<1>7. ASSUME NEW i \in Nat, i \in N PROVE i + 1 \in N
    <2> SUFFICES ASSUME i + 1 <= n PROVE r[i + 1] \in Nat /\ q[i + 1] = r[i + 1]
        OBVIOUS
    <2>1. i + 1 \in 1 .. n /\ i + 1 \in 1 .. n + 1 /\ (i + 1) - 1 = i /\ i <= n
        BY <1>1
    <2>2. Len(rows[i + 1]) \in Nat /\ more[i + 1] = rows[i + 1]
        BY <1>2, <2>1
    <2>3. r[i] \in Nat /\ q[i] = r[i]
        BY <1>7, <2>1
    <2>4. r[i + 1] = r[i] + Len(rows[i + 1]) /\ q[i + 1] = q[i] + Len(more[i + 1])
        BY <1>3, <1>4, <2>1
    <2> QED BY <2>2, <2>3, <2>4
<1>8. n \in N
    <2> HIDE DEF N
    <2> QED BY <1>1, <1>6, <1>7, Sums!SetOfNats
<1>9. r[n] \in Nat /\ q[n] = r[n] /\ q[n + 1] = q[n] + Len(line)
    <2>1. n + 1 \in 1 .. n + 1 /\ (n + 1) - 1 = n
        BY <1>1
    <2> QED BY <1>1, <1>2, <1>4, <1>8, <2>1
<1> QED BY <1>3, <1>4, <1>5, <1>9 DEF more

\* A text within its room.
Fits(rows) == rows \in Texts /\ Used(rows) <= FileParts

LEMMA EntryLine == ASSUME NEW e \in Entries
                   PROVE  Line(e) \in Seq(STRING) /\ Len(Line(e)) = Len(e.key) + Len(e.value)
                          /\ Len(Line(e)) \in Nat
                          /\ Len(e.key) \in Nat /\ Len(e.value) \in Nat /\ Len(e.key) # 0 /\ Len(e.value) # 0
<1>1. e.key \in Seq(STRING) /\ e.key # <<>> /\ e.value \in Seq(STRING) /\ e.value # <<>>
    BY DEF Entries
<1>2. Len(e.key) # 0 /\ Len(e.value) # 0
    BY <1>1
<1>3. \A s, t \in Seq(STRING) : s \o t \in Seq(STRING) /\ Len(s \o t) = Len(s) + Len(t) /\ Len(s) \in Nat
    OBVIOUS
<1>4. Line(e) \in Seq(STRING) /\ Len(Line(e)) = Len(e.key) + Len(e.value) /\ Len(Line(e)) \in Nat
      /\ Len(e.key) \in Nat /\ Len(e.value) \in Nat
    BY <1>1, <1>3 DEF Line
<1> QED BY <1>2, <1>4

\* A line that does not fit is cut to fit.
LEMMA AddLineFits == ASSUME NEW rows, Fits(rows), NEW e \in Entries PROVE Fits(AddLine(rows, e))
<1>1. Line(e) \in Seq(STRING) /\ Len(Line(e)) \in Nat
    BY EntryLine
<1>2. rows \in Texts /\ Used(rows) \in Nat /\ FileParts \in Nat /\ Room(rows) \in Nat
    <2>1. rows \in Texts /\ Used(rows) <= FileParts /\ FileParts \in Nat
        BY ConfigAssumption DEF Fits
    <2>2. Used(rows) \in Nat
        BY <1>1, <2>1, UsedLonger
    <2> QED BY <2>1, <2>2 DEF Room
<1>3. CASE Len(Line(e)) <= Room(rows)
    <2>1. AddLine(rows, e) = Append(rows, Line(e))
        BY <1>3 DEF AddLine
    <2>2. Used(AddLine(rows, e)) = Used(rows) + Len(Line(e))
        BY <1>1, <1>2, <2>1, UsedLonger
    <2>3. Append(rows, Line(e)) \in Texts
        BY <1>1, <1>2 DEF Texts
    <2> QED BY <1>1, <1>2, <1>3, <2>1, <2>2, <2>3 DEF Fits, Room
<1>4. CASE ~(Len(Line(e)) <= Room(rows)) /\ Room(rows) = 0
    BY <1>4 DEF AddLine
<1>5. CASE ~(Len(Line(e)) <= Room(rows)) /\ Room(rows) # 0
    <2> DEFINE room == Room(rows)
               cut == Cut(Line(e), room)
    <2>1. AddLine(rows, e) = Append(rows, cut)
        BY <1>5 DEF AddLine
    <2>2. room \in Nat /\ room < Len(Line(e))
        BY <1>1, <1>2, <1>5
    <2>3. \A i \in 1 .. room : Line(e)[i] \in STRING
        BY <1>1, <2>2
    <2>4. Torn \in STRING
        BY ConfigAssumption DEF Torn
    <2>5. cut \in Seq(STRING) /\ Len(cut) = room
        <3>1. \A i \in 1 .. room : (IF i = room THEN Torn ELSE Line(e)[i]) \in STRING
            BY <2>3, <2>4
        <3>2. cut \in [1 .. room -> STRING]
            BY <3>1 DEF Cut
        <3> HIDE DEF room, cut
        <3> QED BY <2>2, <3>2
    <2>6. Used(Append(rows, cut)) = Used(rows) + room
        BY <1>2, <2>5, UsedLonger
    <2>7. Append(rows, cut) \in Texts
        BY <1>2, <2>5 DEF Texts
    <2> QED BY <1>2, <2>1, <2>6, <2>7 DEF Fits, Room
<1> QED BY <1>3, <1>4, <1>5

\* Whatever the table, the text is one.
LEMMA TextFits == ASSUME NEW table \in Seq(Entries) PROVE Text(table) \in Texts
<1> DEFINE n == Len(table)
<1>1. n \in Nat /\ DOMAIN table = 1 .. n /\ \A i \in 1 .. n : table[i] \in Entries
    OBVIOUS
<1> HIDE DEF n
<1>2. PICK r : r[0] = <<>> /\ (\A i \in 1 .. n : r[i] = AddLine(r[i - 1], table[i])) /\ Text(table) = r[n]
    BY <1>1, TextRun
<1> DEFINE N == {i \in Nat : i <= n => Fits(r[i])}
<1>3. 0 \in N
    <2>1. <<>> \in Texts /\ <<>> \in Seq(STRING)
        BY DEF Texts
    <2>2. Used(<<>>) = 0
        BY <2>1, UsedLonger
    <2>3. FileParts \in Nat
        BY ConfigAssumption
    <2> QED BY <1>2, <2>1, <2>2, <2>3 DEF Fits
<1>4. ASSUME NEW i \in Nat, i \in N PROVE i + 1 \in N
    <2> SUFFICES ASSUME i + 1 <= n PROVE Fits(r[i + 1])
        OBVIOUS
    <2>1. i + 1 \in 1 .. n /\ (i + 1) - 1 = i /\ i <= n
        BY <1>1
    <2>2. r[i + 1] = AddLine(r[i], table[i + 1])
        BY <1>2, <2>1
    <2>3. Fits(r[i])
        BY <1>4, <2>1
    <2> QED BY <1>1, <2>1, <2>2, <2>3, AddLineFits
<1>5. n \in N
    <2> HIDE DEF N
    <2> QED BY <1>1, <1>3, <1>4, Sums!SetOfNats
<1> QED BY <1>1, <1>2, <1>5 DEF Fits

\* The lines of a table, and the first k of them.
Lines(table, k) == [i \in 1 .. k |-> Line(table[i])]

LEMMA LinesGrow ==
    ASSUME NEW table \in Seq(Entries), NEW k \in Nat, k + 1 <= Len(table)
    PROVE  /\ Lines(table, k) \in Texts
           /\ Lines(table, k + 1) = Append(Lines(table, k), Line(table[k + 1]))
           /\ Used(Lines(table, k + 1)) = Used(Lines(table, k)) + Len(Line(table[k + 1]))
           /\ Used(Lines(table, k)) \in Nat /\ Len(Line(table[k + 1])) \in Nat
<1>1. \A i \in 1 .. Len(table) : table[i] \in Entries /\ Line(table[i]) \in Seq(STRING)
    <2>1. \A i \in 1 .. Len(table) : table[i] \in Entries
        OBVIOUS
    <2> QED BY <2>1, EntryLine
<1>2. Lines(table, k) \in Texts /\ Len(Lines(table, k)) = k
    BY <1>1 DEF Lines, Texts
<1>3. Line(table[k + 1]) \in Seq(STRING) /\ Len(Line(table[k + 1])) \in Nat
    BY <1>1
<1>4. Lines(table, k + 1) = Append(Lines(table, k), Line(table[k + 1]))
    BY <1>2, <1>3 DEF Lines, Texts
<1> QED BY <1>2, <1>3, <1>4, UsedLonger

\* A part of the lines uses no more room than all of them.
LEMMA PartUsesLess ==
    ASSUME NEW table \in Seq(Entries), NEW k \in 0 .. Len(table)
    PROVE  Used(Lines(table, k)) <= Used(Lines(table, Len(table)))
<1> DEFINE U(i) == Used(Lines(table, i))
           N == {m \in Nat : m <= Len(table) => \A i \in 0 .. m : U(i) \in Nat /\ U(i) <= U(m)}
<1>1. 0 \in N
    <2>1. Lines(table, 0) = <<>> /\ <<>> \in Texts /\ <<>> \in Seq(STRING)
        BY DEF Lines, Texts
    <2>2. U(0) = 0
        BY <2>1, UsedLonger
    <2> HIDE DEF U
    <2> QED BY <2>2
<1>2. ASSUME NEW m \in Nat, m \in N PROVE m + 1 \in N
    <2> SUFFICES ASSUME m + 1 <= Len(table), NEW i \in 0 .. m + 1 PROVE U(i) \in Nat /\ U(i) <= U(m + 1)
        OBVIOUS
    <2>1. U(m + 1) \in Nat /\ U(m) \in Nat /\ U(m) <= U(m + 1)
        BY LinesGrow
    <2>2. CASE i = m + 1
        BY <2>1, <2>2
    <2>3. CASE i \in 0 .. m
        <3>1. U(i) \in Nat /\ U(i) <= U(m)
            BY <1>2, <2>3
        <3> HIDE DEF U
        <3> QED BY <2>1, <3>1
    <2> QED BY <2>2, <2>3
<1>3. Len(table) \in N
    <2>1. Len(table) \in Nat
        OBVIOUS
    <2> HIDE DEF N
    <2> QED BY <1>1, <1>2, <2>1, Sums!SetOfNats
<1> QED BY <1>3

\* The text of a table that fits is its lines.
LEMMA TextIsLines ==
    ASSUME NEW table \in Seq(Entries), Faithful(table)
    PROVE  Text(table) = Lines(table, Len(table))
<1> DEFINE n == Len(table)
<1>1. n \in Nat /\ DOMAIN table = 1 .. n /\ \A i \in 1 .. n : table[i] \in Entries
    OBVIOUS
<1>2. Used(Lines(table, n)) <= FileParts
    BY <1>1 DEF Faithful, Lines
<1>3. \A k \in 0 .. n : Used(Lines(table, k)) <= Used(Lines(table, n))
    BY PartUsesLess
<1>4. ASSUME NEW i \in Nat, i + 1 <= n
      PROVE  AddLine(Lines(table, i), table[i + 1]) = Lines(table, i + 1)
    <2>1. /\ Lines(table, i + 1) = Append(Lines(table, i), Line(table[i + 1]))
          /\ Used(Lines(table, i + 1)) = Used(Lines(table, i)) + Len(Line(table[i + 1]))
          /\ Used(Lines(table, i)) \in Nat /\ Len(Line(table[i + 1])) \in Nat
        BY <1>4, LinesGrow
    <2>2. Used(Lines(table, i + 1)) <= Used(Lines(table, n)) /\ i + 1 + 1 \in Nat
        BY <1>1, <1>3, <1>4
    <2>3. Used(Lines(table, n)) \in Nat
        <3>1. n \in Nat /\ n # 0 /\ n - 1 \in Nat /\ (n - 1) + 1 = n
            BY <1>1, <1>4
        <3>2. Used(Lines(table, (n - 1) + 1)) = Used(Lines(table, n - 1)) + Len(Line(table[(n - 1) + 1]))
              /\ Used(Lines(table, n - 1)) \in Nat /\ Len(Line(table[(n - 1) + 1])) \in Nat
            BY <3>1, LinesGrow
        <3> QED BY <3>1, <3>2
    <2>4. Used(Lines(table, i)) + Len(Line(table[i + 1])) <= FileParts /\ FileParts \in Nat
        <3>1. FileParts \in Nat
            BY ConfigAssumption
        <3> HIDE DEF n
        <3> QED BY <1>2, <2>1, <2>2, <2>3, <3>1
    <2>5. Len(Line(table[i + 1])) <= Room(Lines(table, i))
        BY <2>1, <2>4 DEF Room
    <2> QED BY <2>1, <2>5 DEF AddLine
<1> HIDE DEF n
<1>5. PICK r : r[0] = <<>> /\ (\A i \in 1 .. n : r[i] = AddLine(r[i - 1], table[i])) /\ Text(table) = r[n]
    BY <1>1, TextRun
<1> DEFINE N == {i \in Nat : i <= n => r[i] = Lines(table, i)}
<1>6. 0 \in N
    BY <1>5 DEF Lines
<1>7. ASSUME NEW i \in Nat, i \in N PROVE i + 1 \in N
    <2> SUFFICES ASSUME i + 1 <= n PROVE r[i + 1] = Lines(table, i + 1)
        OBVIOUS
    <2>1. i + 1 \in 1 .. n /\ (i + 1) - 1 = i /\ i <= n
        BY <1>1
    <2> QED BY <1>4, <1>5, <1>7, <2>1
<1>8. n \in N
    <2> HIDE DEF N
    <2> QED BY <1>1, <1>6, <1>7, Sums!SetOfNats
<1> QED BY <1>1, <1>5, <1>8 DEF n

-----------------------------------------------------------------------------
\* A table has one entry for a key, and starts with the defaults' keys.
Table(table) ==
    /\ table \in Seq(Entries) /\ Len(table) <= CONFIG_ENTRY_MAX
    /\ \A i, j \in 1 .. Len(table) : table[i].key = table[j].key => i = j
    /\ \A i \in 1 .. Len(table) : table[i].key # EmptyKey
    /\ Len(config_defaults) <= Len(table)
    /\ \A i \in 1 .. Len(config_defaults) : table[i].key = config_defaults[i].key

LEMMA DefaultsAreTable == Table(config_defaults)
BY ConfigAssumption DEF Table

\* config_set replaces an entry, adds one or does nothing.
LEMMA SetReplaces ==
    ASSUME NEW table, Table(table), NEW e, e.key # EmptyKey, NEW i \in 1 .. Len(table), table[i].key = e.key
    PROVE  config_set(table, e) = [table EXCEPT ![i] = e]
<1>1. table \in Seq(Entries) /\ DOMAIN table = 1 .. Len(table)
    BY DEF Table
<1>2. i \in config_find_index(table, e.key)
    BY <1>1 DEF config_find_index
<1>3. config_set(table, e) = [j \in DOMAIN table |-> IF table[j].key = e.key THEN e ELSE table[j]]
    BY <1>2 DEF config_set
<1>4. \A j \in DOMAIN table : table[j].key = e.key => j = i
    BY <1>1 DEF Table
<1>5. table = [j \in DOMAIN table |-> table[j]]
    BY <1>1
<1> QED BY <1>1, <1>3, <1>4, <1>5

LEMMA SetAdds ==
    ASSUME NEW table, Table(table), NEW e, e.key # EmptyKey, \A i \in 1 .. Len(table) : table[i].key # e.key
    PROVE  config_set(table, e) = IF Len(table) < CONFIG_ENTRY_MAX THEN Append(table, e) ELSE table
<1>1. DOMAIN table = 1 .. Len(table)
    BY DEF Table
<1>2. config_find_index(table, e.key) = {}
    BY <1>1 DEF config_find_index
<1> QED BY <1>2 DEF config_set

\* Every way of config_set keeps a table one.
LEMMA SetKeepsTable == ASSUME NEW table, Table(table), NEW e \in Entries PROVE Table(config_set(table, e))
<1>1. CASE e.key = EmptyKey
    BY <1>1 DEF config_set
<1>2. CASE e.key # EmptyKey /\ \E i \in 1 .. Len(table) : table[i].key = e.key
    <2>1. PICK i \in 1 .. Len(table) : table[i].key = e.key
        BY <1>2
    <2>2. PICK t : t = config_set(table, e)
        OBVIOUS
    <2>3. t = [table EXCEPT ![i] = e]
        BY <1>2, <2>1, <2>2, SetReplaces
    <2>4. t \in Seq(Entries) /\ Len(t) = Len(table)
        BY <2>3 DEF Table
    <2>5. \A j \in 1 .. Len(table) : t[j].key = table[j].key
        BY <2>1, <2>3 DEF Table
    <2>6. Len(config_defaults) \in Nat /\ Len(table) \in Nat
        BY ConfigAssumption DEF Table
    <2> QED BY <2>2, <2>4, <2>5, <2>6 DEF Table
<1>3. CASE e.key # EmptyKey /\ \A i \in 1 .. Len(table) : table[i].key # e.key
    <2>1. CASE ~(Len(table) < CONFIG_ENTRY_MAX)
        BY <1>3, <2>1, SetAdds
    <2>2. CASE Len(table) < CONFIG_ENTRY_MAX
        <3>1. PICK t : t = config_set(table, e)
            OBVIOUS
        <3>2. t = Append(table, e)
            BY <1>3, <2>2, <3>1, SetAdds
        <3>3. t \in Seq(Entries) /\ Len(t) = Len(table) + 1 /\ t[Len(table) + 1] = e
              /\ \A j \in 1 .. Len(table) : t[j] = table[j]
            BY <3>2 DEF Table
        <3>4. Len(config_defaults) \in Nat /\ Len(table) \in Nat /\ CONFIG_ENTRY_MAX \in Nat
            BY ConfigAssumption DEF Table
        <3>5. Len(t) <= CONFIG_ENTRY_MAX /\ Len(config_defaults) <= Len(t)
            BY <2>2, <3>3, <3>4 DEF Table
        <3>6. \A i \in 1 .. Len(config_defaults) : t[i].key = config_defaults[i].key
            BY <3>3, <3>4 DEF Table
        <3>7. \A i \in 1 .. Len(t) : i \in 1 .. Len(table) \/ i = Len(table) + 1
            BY <3>3, <3>4
        <3>8. \A i, j \in 1 .. Len(t) : t[i].key = t[j].key => i = j
            BY <1>3, <3>3, <3>7 DEF Table
        <3>9. \A i \in 1 .. Len(t) : t[i].key # EmptyKey
            BY <1>3, <3>3, <3>7 DEF Table
        <3> QED BY <3>1, <3>3, <3>5, <3>6, <3>8, <3>9 DEF Table
    <2> QED BY <2>1, <2>2
<1> QED BY <1>1, <1>2, <1>3

\* So does every line of a file.
LEMMA ParsedKeepsTable == ASSUME NEW table, Table(table), NEW line \in Seq(STRING) PROVE Table(Parsed(table, line))
<1>1. CASE Len(line) < 2
    BY <1>1 DEF Parsed
<1>2. CASE ~(Len(line) < 2)
    <2> DEFINE e == [key |-> <<Head(line)>>, value |-> Tail(line)]
    <2>1. Head(line) \in STRING /\ Tail(line) \in Seq(STRING) /\ Tail(line) # <<>>
        <3>1. Len(line) \in Nat /\ Len(line) >= 2 /\ line # <<>>
            BY <1>2
        <3>2. Tail(line) \in Seq(STRING) /\ Len(Tail(line)) = Len(line) - 1 /\ Head(line) = line[1]
            BY <3>1
        <3>3. Len(Tail(line)) # 0 /\ line[1] \in STRING
            BY <3>1, <3>2
        <3>4. Tail(line) # <<>>
            <4>1. Len(<<>>) = 0
                OBVIOUS
            <4> QED BY <3>3, <4>1, Zenon
        <3> QED BY <3>2, <3>3, <3>4
    <2>2. <<Head(line)>> \in Seq(STRING) \ {<<>>}
        BY <2>1
    <2>3. e \in Entries
        BY <2>1, <2>2 DEF Entries
    <2>4. Parsed(table, line) = config_set(table, e)
        BY <1>2 DEF Parsed
    <2> HIDE DEF e
    <2> QED BY <2>3, <2>4, SetKeepsTable
<1> QED BY <1>1, <1>2

Answers == Texts \cup {NoFile, Unreadable}

\* A load leaves a table, whatever the file holds.
LEMMA LoadKeepsTable == ASSUME NEW text \in Answers PROVE Table(config_load(text))
<1> DEFINE rows == IF text \in {NoFile, Unreadable} THEN <<>> ELSE text
           n == Len(rows)
<1>1. rows \in Texts
    <2>1. <<>> \in Texts
        BY DEF Texts
    <2> QED BY <2>1 DEF Answers
<1>2. n \in Nat /\ DOMAIN rows = 1 .. n /\ \A i \in 1 .. n : rows[i] \in Seq(STRING)
    <2> HIDE DEF rows
    <2> QED BY <1>1 DEF Texts
<1>3. config_load(text) = Loaded(config_defaults, rows)
    BY DEF config_load, Loaded
<1> HIDE DEF rows, n
<1>4. PICK r : r[0] = config_defaults /\ (\A i \in 1 .. n : r[i] = Parsed(r[i - 1], rows[i]))
               /\ Loaded(config_defaults, rows) = r[n]
    <2>1. n \in Nat /\ DOMAIN rows = 1 .. n
        BY <1>2
    <2> QED BY <2>1, ParsedRun
<1> DEFINE N == {i \in Nat : i <= n => Table(r[i])}
<1>5. 0 \in N
    BY <1>4, DefaultsAreTable
<1>6. ASSUME NEW i \in Nat, i \in N PROVE i + 1 \in N
    <2> SUFFICES ASSUME i + 1 <= n PROVE Table(r[i + 1])
        OBVIOUS
    <2>1. i + 1 \in 1 .. n /\ (i + 1) - 1 = i /\ i <= n
        BY <1>2
    <2>2. r[i + 1] = Parsed(r[i], rows[i + 1]) /\ rows[i + 1] \in Seq(STRING)
        BY <1>2, <1>4, <2>1
    <2>3. Table(r[i])
        BY <1>6, <2>1
    <2> QED BY <2>2, <2>3, ParsedKeepsTable
<1>7. n \in N
    <2> HIDE DEF N
    <2> QED BY <1>2, <1>5, <1>6, Sums!SetOfNats
<1> QED BY <1>2, <1>3, <1>4, <1>7

\* The table in the middle of loading the lines of another: what was read of that
\* one, over the defaults.
Half(table, i) ==
    [j \in 1 .. (IF i < Len(config_defaults) THEN Len(config_defaults) ELSE i) |->
        IF j <= i THEN table[j] ELSE config_defaults[j]]

LEMMA HalfIsTable ==
    ASSUME NEW table, Table(table), NEW i \in 0 .. Len(table)
    PROVE  /\ Table(Half(table, i))
           /\ Len(Half(table, i)) = IF i < Len(config_defaults) THEN Len(config_defaults) ELSE i
           /\ \A j \in 1 .. Len(Half(table, i)) : Half(table, i)[j].key = table[j].key
<1>1. /\ table \in Seq(Entries) /\ config_defaults \in Seq(Entries)
      /\ Len(table) \in Nat /\ Len(config_defaults) \in Nat /\ CONFIG_ENTRY_MAX \in Nat
    BY ConfigAssumption DEF Table
<1> DEFINE n == IF i < Len(config_defaults) THEN Len(config_defaults) ELSE i
<1>2. n \in Nat /\ n <= Len(table) /\ Len(config_defaults) <= n /\ n <= CONFIG_ENTRY_MAX
    BY <1>1 DEF Table
<1>3. \A j \in 1 .. n : (IF j <= i THEN table[j] ELSE config_defaults[j]) \in Entries
    BY <1>1, <1>2
<1>4. PICK t : t = Half(table, i)
    OBVIOUS
<1>5. t = [j \in 1 .. n |-> IF j <= i THEN table[j] ELSE config_defaults[j]]
    BY <1>4 DEF Half
<1>6. \A j \in 1 .. n : t[j].key = table[j].key
    BY <1>1, <1>2, <1>5 DEF Table
<1> HIDE DEF n
<1>7. t \in Seq(Entries) /\ Len(t) = n
    BY <1>2, <1>3, <1>5
<1>8. Table(t)
    <2>1. \A j \in 1 .. Len(config_defaults) : t[j].key = config_defaults[j].key
        BY <1>1, <1>2, <1>6 DEF Table
    <2>2. \A j, k \in 1 .. Len(t) : t[j].key = t[k].key => j = k
        BY <1>1, <1>2, <1>6, <1>7 DEF Table
    <2>3. \A j \in 1 .. Len(t) : t[j].key # EmptyKey
        BY <1>1, <1>2, <1>6, <1>7 DEF Table
    <2> QED BY <1>2, <1>7, <2>1, <2>2, <2>3 DEF Table
<1> QED BY <1>4, <1>6, <1>7, <1>8 DEF n

\* Each line sets its entry.
LEMMA HalfGrows ==
    ASSUME NEW table, Table(table), NEW i \in Nat, i + 1 <= Len(table)
    PROVE  config_set(Half(table, i), table[i + 1]) = Half(table, i + 1)
<1> DEFINE e == table[i + 1]
           n == IF i < Len(config_defaults) THEN Len(config_defaults) ELSE i
<1>1. /\ table \in Seq(Entries) /\ config_defaults \in Seq(Entries)
      /\ Len(table) \in Nat /\ Len(config_defaults) \in Nat /\ CONFIG_ENTRY_MAX \in Nat
      /\ Len(table) <= CONFIG_ENTRY_MAX /\ Len(config_defaults) <= Len(table)
    BY ConfigAssumption DEF Table
<1>2. PICK t : t = Half(table, i)
    OBVIOUS
<1>3. i \in 0 .. Len(table) /\ i + 1 \in 1 .. Len(table)
    BY <1>1
<1>4. Table(t) /\ Len(t) = n /\ \A j \in 1 .. n : t[j].key = table[j].key
    BY <1>2, <1>3, HalfIsTable
<1>5. e \in Entries /\ e.key # EmptyKey
    BY <1>1, <1>3 DEF Table
<1>6. t = [j \in 1 .. n |-> IF j <= i THEN table[j] ELSE config_defaults[j]]
    BY <1>2 DEF Half
<1>7. CASE i < Len(config_defaults)
    <2>1. n = Len(config_defaults) /\ i + 1 \in 1 .. n
        BY <1>1, <1>7
    <2>2. t[i + 1].key = e.key
        BY <1>4, <2>1
    <2>3. config_set(t, e) = [t EXCEPT ![i + 1] = e]
        BY <1>4, <1>5, <2>1, <2>2, SetReplaces
    <2>4. Half(table, i + 1) = [j \in 1 .. n |-> IF j <= i + 1 THEN table[j] ELSE config_defaults[j]]
        BY <1>1, <1>7, <2>1 DEF Half
    <2>5. \A j \in 1 .. n : (j <= i + 1) = (j <= i \/ j = i + 1)
        BY <2>1
    <2>6. [t EXCEPT ![i + 1] = e] = [j \in 1 .. n |-> IF j <= i + 1 THEN table[j] ELSE config_defaults[j]]
        BY <1>6, <2>1, <2>5
    <2> QED BY <1>2, <2>3, <2>4, <2>6
<1>8. CASE ~(i < Len(config_defaults))
    <2>1. n = i /\ i < CONFIG_ENTRY_MAX
        BY <1>1, <1>8
    <2>2. \A j \in 1 .. n : t[j].key # e.key
        BY <1>1, <1>3, <1>4, <2>1 DEF Table
    <2>3. config_set(t, e) = Append(t, e)
        BY <1>4, <1>5, <2>1, <2>2, SetAdds
    <2>4. Half(table, i + 1) = [j \in 1 .. i + 1 |-> IF j <= i + 1 THEN table[j] ELSE config_defaults[j]]
        BY <1>1, <1>8 DEF Half
    <2>5. Half(table, i + 1) = [j \in 1 .. i + 1 |-> table[j]]
        BY <2>4
    <2>6. t = [j \in 1 .. i |-> table[j]]
        BY <1>6, <2>1
    <2>7. t \in Seq(Entries)
        BY <1>4 DEF Table
    <2>8. Append(t, e) = [j \in 1 .. i + 1 |-> table[j]]
        BY <1>4, <2>1, <2>6, <2>7
    <2> QED BY <1>2, <2>3, <2>5, <2>8
<1> QED BY <1>7, <1>8

\* Loading the text of a table that it holds whole gives that table.
LEMMA LoadIsSave ==
    ASSUME NEW table, Table(table), Faithful(table)
    PROVE  config_load(Text(table)) = table
<1> DEFINE n == Len(table)
           rows == Lines(table, n)
<1>1. table \in Seq(Entries) /\ n \in Nat /\ DOMAIN table = 1 .. n /\ Len(config_defaults) \in Nat
    BY ConfigAssumption DEF Table
<1>2. Text(table) = rows /\ rows \in Texts
    BY <1>1, TextIsLines, TextFits
<1>3. \A i \in 1 .. n : Parsed(Half(table, i - 1), Line(table[i])) = Half(table, i)
    <2> TAKE i \in 1 .. n
    <2>1. table[i] \in Entries /\ Len(table[i].key) = 1 /\ i - 1 \in Nat /\ (i - 1) + 1 = i /\ i <= n
        BY <1>1 DEF Faithful
    <2>2. ~(Len(Line(table[i])) < 2)
        <3>1. PICK e \in Entries : e = table[i]
            BY <2>1
        <3>2. Len(Line(e)) = Len(e.key) + Len(e.value) /\ Len(e.key) = 1 /\ Len(e.value) \in Nat /\ Len(e.value) # 0
            BY <2>1, <3>1, EntryLine
        <3>3. ~(Len(Line(e)) < 2)
            BY <3>2
        <3> QED BY <3>1, <3>3
    <2>3. [key |-> <<Head(Line(table[i]))>>, value |-> Tail(Line(table[i]))] = table[i]
        <3>1. PICK k, v : k = table[i].key /\ v = table[i].value
            OBVIOUS
        <3>2. table[i] = [key |-> k, value |-> v] /\ k \in Seq(STRING) /\ v \in Seq(STRING)
            BY <2>1, <3>1 DEF Entries
        <3>3. Len(k) = 1 /\ Len(k \o v) = Len(v) + 1 /\ k \o v \in Seq(STRING) /\ k \o v # <<>>
            <4>1. Len(k) = 1
                BY <2>1, <3>1
            <4>2. Len(k \o v) = Len(v) + 1 /\ k \o v \in Seq(STRING) /\ Len(v) + 1 # 0
                <5>1. Len(v) \in Nat /\ Len(k \o v) = Len(k) + Len(v) /\ k \o v \in Seq(STRING)
                    BY <3>2
                <5> QED BY <4>1, <5>1
            <4>3. Len(<<>>) = 0
                OBVIOUS
            <4>4. k \o v # <<>>
                BY <4>2, <4>3, Zenon
            <4> QED BY <4>1, <4>2, <4>4
        <3>4. Head(k \o v) = k[1]
            BY <3>2, <3>3
        <3>5. <<k[1]>> = k
            BY <3>2, <3>3
        <3>6. Tail(k \o v) \in Seq(STRING) /\ Len(Tail(k \o v)) = Len(v) /\ Len(v) \in Nat
              /\ \A j \in 1 .. Len(v) : Tail(k \o v)[j] = v[j]
            BY <3>2, <3>3
        <3>7. Tail(k \o v) = v
            <4> HIDE DEF n
            <4>1. PICK u : u = Tail(k \o v)
                OBVIOUS
            <4> QED BY <3>2, <3>6, <4>1
        <3> QED BY <3>1, <3>2, <3>4, <3>5, <3>7 DEF Line
    <2>4. Parsed(Half(table, i - 1), Line(table[i])) = config_set(Half(table, i - 1), table[i])
        BY <2>2, <2>3 DEF Parsed
    <2>5. config_set(Half(table, i - 1), table[(i - 1) + 1]) = Half(table, (i - 1) + 1)
        BY <2>1, HalfGrows
    <2> QED BY <2>1, <2>4, <2>5
<1>4. DOMAIN rows = 1 .. n /\ \A i \in 1 .. n : rows[i] = Line(table[i])
    BY DEF Lines
<1>5. config_load(Text(table)) = Loaded(config_defaults, rows)
    <2>1. Text(table) \notin {NoFile, Unreadable}
        BY <1>2, ConfigAssumption DEF Texts
    <2> HIDE DEF rows
    <2> QED BY <1>2, <2>1 DEF config_load, Loaded
<1>6. Half(table, 0) = config_defaults
    <2>1. config_defaults \in Seq(Entries)
        BY ConfigAssumption
    <2>2. Half(table, 0) = [j \in 1 .. Len(config_defaults) |-> IF j <= 0 THEN table[j] ELSE config_defaults[j]]
        BY <1>1 DEF Half
    <2>3. Half(table, 0) = [j \in 1 .. Len(config_defaults) |-> config_defaults[j]]
        BY <2>2
    <2> QED BY <2>1, <2>3
<1>7. Half(table, n) = table
    <2>1. Half(table, n) = [j \in 1 .. n |-> IF j <= n THEN table[j] ELSE config_defaults[j]]
        BY <1>1 DEF Half, Table
    <2>2. Half(table, n) = [j \in 1 .. n |-> table[j]]
        BY <2>1
    <2> QED BY <1>1, <2>2
<1> HIDE DEF rows, n
<1>8. PICK r : r[0] = config_defaults /\ (\A i \in 1 .. n : r[i] = Parsed(r[i - 1], rows[i]))
               /\ Loaded(config_defaults, rows) = r[n]
    <2>1. n \in Nat /\ DOMAIN rows = 1 .. n
        BY <1>1, <1>4
    <2> QED BY <2>1, ParsedRun
<1> DEFINE N == {i \in Nat : i <= n => r[i] = Half(table, i)}
<1>9. 0 \in N
    BY <1>6, <1>8
<1>10. ASSUME NEW i \in Nat, i \in N PROVE i + 1 \in N
    <2> SUFFICES ASSUME i + 1 <= n PROVE r[i + 1] = Half(table, i + 1)
        OBVIOUS
    <2>1. i + 1 \in 1 .. n /\ (i + 1) - 1 = i /\ i <= n
        BY <1>1
    <2> QED BY <1>3, <1>4, <1>8, <1>10, <2>1
<1>11. n \in N
    <2> HIDE DEF N
    <2> QED BY <1>1, <1>9, <1>10, Sums!SetOfNats
<1> QED BY <1>1, <1>5, <1>7, <1>8, <1>11

\* A text that a load takes, and that loads as the table it promises.
Promised(tables, text) == text \in Answers /\ (tables # {} => config_load(text) \in tables)

\* The file, now and after a power cycle, keeps its promise; it is never deleted.
SettingsInv ==
    /\ Table(config_entries)
    /\ DOMAIN files = FileNames /\ DOMAIN disk = FileNames /\ CONFIG_FILE_NAME \notin loose
    /\ Promised(saved.memory, files[CONFIG_FILE_NAME])
    /\ Promised(saved.disk, disk[CONFIG_FILE_NAME])

\* A file that is not there, or that no reader accepts, leaves the defaults.
LEMMA NothingLoaded ==
    /\ config_load(NoFile) = config_defaults /\ config_load(Unreadable) = config_defaults
    /\ NoFile \in Answers /\ Unreadable \in Answers
<1>1. config_load(NoFile) = Loaded(config_defaults, <<>>) /\ config_load(Unreadable) = Loaded(config_defaults, <<>>)
    BY DEF config_load, Loaded
<1>2. 0 \in Nat /\ DOMAIN <<>> = 1 .. 0
    OBVIOUS
<1>3. PICK r : r[0] = config_defaults /\ Loaded(config_defaults, <<>>) = r[0]
    BY <1>2, ParsedRun
<1> QED BY <1>1, <1>3 DEF Answers

\* At first there is no file, and the defaults are promised.
LEMMA SettingsStart == ConfigInit => SettingsInv
<1> SUFFICES ASSUME ConfigInit PROVE SettingsInv
    OBVIOUS
<1>1. CONFIG_FILE_NAME \in FileNames
    BY ConfigAssumption
<1>2. files = Formatted /\ disk = Formatted /\ Formatted[CONFIG_FILE_NAME] = NoFile /\ DOMAIN Formatted = FileNames
    BY <1>1 DEF ConfigInit, StoreInit, Formatted
<1>3. saved.memory = {config_defaults} /\ saved.disk = {config_defaults}
    BY DEF ConfigInit
<1>4. Promised({config_defaults}, NoFile) /\ loose = {}
    BY NothingLoaded DEF Promised, ConfigInit, StoreInit
<1> QED BY <1>2, <1>3, <1>4, DefaultsAreTable DEF SettingsInv, ConfigInit

\* What a set, typed or by loglevel, and a load keep.
LEMMA TableChanges ==
    ASSUME SettingsInv, Table(config_entries'), UNCHANGED <<storeVars, saved>>
    PROVE  SettingsInv'
BY DEF SettingsInv, Promised, storeVars

LEMMA SetKeeps == ASSUME SettingsInv, NEW e \in Settings, SetSetting(e) PROVE SettingsInv'
<1>1. e \in Entries
    BY ConfigAssumption
<1> QED BY <1>1, SetKeepsTable, TableChanges DEF SetSetting, SettingsInv

LEMMA LevelKeeps == ASSUME SettingsInv, NEW level \in Levels, LogLevel(level) PROVE SettingsInv'
<1>1. level \in STRING /\ "loglevel" \in STRING
    BY ConfigAssumption
<1> DEFINE e == [key |-> LogKey, value |-> <<level>>]
<1>2. e \in Entries
    BY <1>1 DEF Entries, LogKey
<1>3. config_entries' = config_set(config_entries, e) /\ UNCHANGED <<storeVars, saved>>
    BY DEF LogLevel
<1> HIDE DEF e
<1> QED BY <1>2, <1>3, SetKeepsTable, TableChanges DEF SettingsInv

\* What the table of files stores of the file keeps the promise; a file outside the
\* sector is not on the disk, and the defaults are promised.
LEMMA StoredKeeps ==
    ASSUME NEW tables, Promised(tables, files'[CONFIG_FILE_NAME]), Packed(CONFIG_FILE_NAME)
    PROVE  Promised(Stored(tables), disk'[CONFIG_FILE_NAME])
BY NothingLoaded DEF Promised, Packed, Stored

\* A write of any file, if the new promise is one the file in memory keeps: what the
\* disk has of the file is as it was, or has been stored.
LEMMA WriteKeeps ==
    ASSUME SettingsInv, NEW name \in FileNames, NEW content, NEW tables,
           \/ fs_write_file(name, content) \/ WriteFails(name, content)
           \/ fs_delete_file(name) /\ name # CONFIG_FILE_NAME,
           saved' = [memory |-> tables,
                     disk |-> IF disk'[CONFIG_FILE_NAME] = disk[CONFIG_FILE_NAME]
                              THEN saved.disk ELSE Stored(tables)],
           Promised(tables, files'[CONFIG_FILE_NAME]), config_entries' = config_entries
    PROVE  SettingsInv'
<1>1. /\ DOMAIN files' = FileNames /\ DOMAIN disk' = FileNames /\ CONFIG_FILE_NAME \notin loose'
      /\ disk'[CONFIG_FILE_NAME] = disk[CONFIG_FILE_NAME] \/ Packed(CONFIG_FILE_NAME)
    BY WriteOutcome, DeleteOutcome, ConfigAssumption DEF SettingsInv
<1>2. PICK here : here = Stored(tables)
    OBVIOUS
<1>3. /\ saved'.memory = tables
      /\ saved'.disk = IF disk'[CONFIG_FILE_NAME] = disk[CONFIG_FILE_NAME] THEN saved.disk ELSE here
    BY <1>2
<1>4. Promised(saved'.disk, disk'[CONFIG_FILE_NAME])
    <2>1. Packed(CONFIG_FILE_NAME) => Promised(here, disk'[CONFIG_FILE_NAME])
        BY <1>2, StoredKeeps
    <2>2. Promised(saved.disk, disk[CONFIG_FILE_NAME])
        BY DEF SettingsInv
    <2> QED BY <1>1, <1>3, <2>1, <2>2
<1>5. Table(config_entries')
    BY DEF SettingsInv
<1> QED BY <1>1, <1>3, <1>4, <1>5 DEF SettingsInv, Promised

\* What the text of a table promises: the table, just when it holds it.
LEMMA TextPromise == ASSUME NEW table, Table(table) PROVE Promised(Promise(table), Text(table))
<1>1. Text(table) \in Answers
    BY TextFits DEF Answers, Table
<1>2. Promise(table) # {} => Faithful(table) /\ Promise(table) = {table}
    BY DEF Promise
<1> QED BY <1>1, <1>2, LoadIsSave DEF Promised

LEMMA SettingsSave == ASSUME SettingsInv, config_save PROVE SettingsInv'
<1>1. PICK text, tables, here :
        text = Text(config_entries) /\ tables = Promise(config_entries) /\ here = Stored(tables)
    OBVIOUS
<1>2. /\ fs_write_file(CONFIG_FILE_NAME, text) /\ config_entries' = config_entries
      /\ saved' = [memory |-> tables, disk |-> here]
    BY <1>1 DEF config_save
<1>3. Promised(tables, text)
    BY <1>1, TextPromise DEF SettingsInv
<1>4. /\ files'[CONFIG_FILE_NAME] = text /\ DOMAIN files' = FileNames
      /\ DOMAIN disk' = FileNames /\ CONFIG_FILE_NAME \notin loose' /\ Packed(CONFIG_FILE_NAME)
    BY <1>2, StoreOutcome, ConfigAssumption DEF fs_write_file, With, SettingsInv
<1>5. Promised(saved'.memory, files'[CONFIG_FILE_NAME]) /\ Promised(saved'.disk, disk'[CONFIG_FILE_NAME])
    BY <1>1, <1>2, <1>3, <1>4, StoredKeeps
<1> QED BY <1>2, <1>4, <1>5 DEF SettingsInv, Promised

\* One that fails leaves the file, its text or something that promises nothing.
LEMMA FailKeeps == ASSUME SettingsInv, SaveFails PROVE SettingsInv'
<1>1. PICK text, new : text = Text(config_entries) /\ new = Promise(config_entries)
    OBVIOUS
<1>2. PICK tables : tables = IF files' = files THEN saved.memory
                             ELSE IF files'[CONFIG_FILE_NAME] = text THEN new ELSE {}
    OBVIOUS
<1>3. /\ WriteFails(CONFIG_FILE_NAME, text) /\ config_entries' = config_entries
      /\ saved' = [memory |-> tables,
                   disk |-> IF disk'[CONFIG_FILE_NAME] = disk[CONFIG_FILE_NAME]
                            THEN saved.disk ELSE Stored(tables)]
    BY <1>1, <1>2 DEF SaveFails, Promises
<1>4. CONFIG_FILE_NAME \in FileNames /\ Leftovers[CONFIG_FILE_NAME] \subseteq Answers
    BY ConfigAssumption DEF Answers, Texts
<1>5. Promised(new, text)
    BY <1>1, TextPromise DEF SettingsInv
<1>6. files'[CONFIG_FILE_NAME] \in Answers
    <2>1. files'[CONFIG_FILE_NAME] \in {files[CONFIG_FILE_NAME], text} \cup Leftovers[CONFIG_FILE_NAME]
        BY <1>3, <1>4, WriteOutcome DEF SettingsInv
    <2> QED BY <1>4, <1>5, <2>1 DEF SettingsInv, Promised
<1>7. Promised(tables, files'[CONFIG_FILE_NAME])
    <2>1. CASE files' = files
        BY <1>2, <2>1 DEF SettingsInv
    <2>2. CASE files' # files /\ files'[CONFIG_FILE_NAME] = text
        BY <1>2, <1>5, <2>2
    <2>3. CASE files' # files /\ files'[CONFIG_FILE_NAME] # text
        BY <1>2, <1>6, <2>3 DEF Promised
    <2> QED BY <2>1, <2>2, <2>3
<1> QED BY <1>3, <1>4, <1>7, WriteKeeps

\* The write or delete of another file does not touch this one, but may take it to the
\* disk.
LEMMA OtherKeeps == ASSUME SettingsInv, NEW name \in OtherFiles, OtherFile(name) PROVE SettingsInv'
<1>1. PICK tables, content : tables = saved.memory /\ content = <<>>
    OBVIOUS
<1>2. /\ fs_write_file(name, content) \/ WriteFails(name, content) \/ fs_delete_file(name)
      /\ saved' = [memory |-> tables,
                   disk |-> IF disk'[CONFIG_FILE_NAME] = disk[CONFIG_FILE_NAME]
                            THEN saved.disk ELSE Stored(tables)]
      /\ config_entries' = config_entries
    BY <1>1 DEF OtherFile, Promises
<1>3. name \in FileNames /\ name # CONFIG_FILE_NAME /\ CONFIG_FILE_NAME \in FileNames
    BY ConfigAssumption
<1>4. files'[CONFIG_FILE_NAME] = files[CONFIG_FILE_NAME]
    BY <1>2, <1>3, WriteOutcome, DeleteOutcome DEF SettingsInv
<1>5. Promised(tables, files'[CONFIG_FILE_NAME])
    BY <1>1, <1>4 DEF SettingsInv
<1> QED BY <1>2, <1>3, <1>5, WriteKeeps

\* A load reads the file, or cannot.
LEMMA LoadKeeps == ASSUME SettingsInv, LoadSettings PROVE SettingsInv'
<1>1. PICK text \in {files[CONFIG_FILE_NAME], Unreadable} : config_entries' = config_load(text)
    BY DEF LoadSettings, Loads
<1>2. text \in Answers
    BY <1>1, NothingLoaded DEF SettingsInv, Promised
<1> QED BY <1>1, <1>2, LoadKeepsTable, TableChanges DEF LoadSettings

\* A boot finds the disk, or formats it and promises the defaults.
LEMMA SettingsReboot == ASSUME SettingsInv, RebootConfig PROVE SettingsInv'
<1>1. PICK text \in {files'[CONFIG_FILE_NAME], Unreadable} : config_entries' = config_load(text)
    BY DEF RebootConfig, Loads
<1>2. PICK found, none :
        /\ found = IF disk'[CONFIG_FILE_NAME] = disk[CONFIG_FILE_NAME] THEN saved.disk ELSE {config_defaults}
        /\ none = {config_defaults}
    OBVIOUS
<1>3. /\ disk' \in {disk, Formatted} /\ files' = (IF mounted' THEN disk' ELSE Formatted) /\ loose' = {}
      /\ saved' = [memory |-> IF mounted' THEN found ELSE none, disk |-> found]
    BY <1>2 DEF RebootConfig, PowerCycle
<1>4. /\ Formatted[CONFIG_FILE_NAME] = NoFile /\ DOMAIN Formatted = FileNames
      /\ Promised(none, NoFile)
    BY <1>2, NothingLoaded, ConfigAssumption DEF Formatted, Promised
<1>5. Promised(found, disk'[CONFIG_FILE_NAME]) /\ DOMAIN disk' = FileNames
    <2>1. CASE disk'[CONFIG_FILE_NAME] = disk[CONFIG_FILE_NAME]
        BY <1>2, <1>3, <1>4, <2>1 DEF SettingsInv
    <2>2. CASE disk'[CONFIG_FILE_NAME] # disk[CONFIG_FILE_NAME]
        BY <1>2, <1>3, <1>4, <2>2
    <2> QED BY <2>1, <2>2
<1>6. /\ saved'.memory = (IF mounted' THEN found ELSE none) /\ saved'.disk = found
      /\ DOMAIN files' = FileNames /\ Promised(saved'.memory, files'[CONFIG_FILE_NAME])
    BY <1>3, <1>4, <1>5
<1>7. text \in Answers
    BY <1>1, <1>6, NothingLoaded DEF Promised
<1>8. Table(config_entries')
    BY <1>1, <1>7, LoadKeepsTable
<1> QED BY <1>3, <1>5, <1>6, <1>8 DEF SettingsInv, Promised

\* The invariant.
LEMMA SettingsStep == ASSUME SettingsInv, [ConfigNext]_configVars PROVE SettingsInv'
<1>1. CASE UNCHANGED configVars
    BY <1>1 DEF SettingsInv, Promised, configVars, storeVars
<1>2. CASE ConfigNext
    BY <1>2, SetKeeps, LevelKeeps, SettingsSave, FailKeeps, OtherKeeps, LoadKeeps, SettingsReboot DEF ConfigNext
<1> QED BY <1>1, <1>2

\* config.c, docs/19: what an acknowledged savecfg wrote is what loadcfg finds, and a
\* boot, too, if the file's entry lay in the stored sector - otherwise a boot finds the
\* defaults: entry by entry, across failed saves and power losses, for any defaults,
\* settings and sizes of table and file. The text of a table that fits is its lines,
\* and parsing them over the defaults sets every entry in its place.
THEOREM SavedComesBack == ConfigSpec => SavedIsLoaded
<1>1. ConfigInit => SettingsInv
    BY SettingsStart
<1>2. SettingsInv /\ [ConfigNext]_configVars => SettingsInv'
    BY SettingsStep
<1>3. SettingsInv' => [(LoadSettings \/ RebootConfig) /\ Reads(files'[CONFIG_FILE_NAME])
                        /\ saved'.memory # {} => config_entries' \in saved'.memory]_configVars
    BY DEF SettingsInv, Promised, Reads
<1> QED BY <1>1, <1>2, <1>3, PTL DEF ConfigSpec, SavedIsLoaded

\* shell_execute, kmain: the log level and its entry stay in step whatever is saved,
\* loaded or lost; only a `set loglevel`, or a value that names no level, drives them
\* apart, and the next load brings them together again.
THEOREM LevelStaysInStep == ConfigSpec => LevelFollows
<1>1. ConfigInit => SettingsInv
    BY SettingsStart
<1>2. SettingsInv /\ [ConfigNext]_configVars => SettingsInv'
    BY SettingsStep
<1>3. SettingsInv /\ [ConfigNext]_configVars
        => [(LevelAgrees \/ LoadSettings \/ RebootConfig) /\ LevelNamed' /\ ~(\E e \in Settings : SetSetting(e))
              => LevelAgrees']_configVars
    <2> SUFFICES ASSUME SettingsInv, [ConfigNext]_configVars, LevelAgrees \/ LoadSettings \/ RebootConfig,
                        LevelNamed', ~(\E e \in Settings : SetSetting(e))
                 PROVE  LevelAgrees'
        OBVIOUS
    <2>1. ASSUME NEW text, NEW level, Loads(text, level) PROVE LevelAgrees'
        BY <2>1 DEF Loads, Followed, LevelNamed, LevelAgrees
    <2>2. CASE LoadSettings \/ RebootConfig
        BY <2>1, <2>2 DEF LoadSettings, RebootConfig
    <2>3. CASE LevelAgrees /\ UNCHANGED <<config_entries, log_minimum_level>>
        BY <2>3 DEF LevelAgrees
    <2>4. ASSUME NEW level \in Levels, LogLevel(level) PROVE LevelAgrees'
        <3> DEFINE e == [key |-> LogKey, value |-> <<level>>]
        <3>1. config_entries' = config_set(config_entries, e) /\ log_minimum_level' = level
            BY <2>4 DEF LogLevel
        <3>2. PICK t : t = config_set(config_entries, e)
            OBVIOUS
        <3>3. config_find_index(t, LogKey) # {}
            BY <3>1, <3>2 DEF LevelNamed, Value
        <3>4. \A i \in config_find_index(t, LogKey) : t[i] = e
            <4>1. Table(config_entries) /\ DOMAIN config_entries = 1 .. Len(config_entries)
                BY DEF SettingsInv, Table
            <4>2. PICK i \in 1 .. Len(config_entries) : config_entries[i].key = LogKey /\ LogKey # EmptyKey
                <5>1. PICK i \in DOMAIN config_defaults : config_defaults[i].key = LogKey /\ LogKey # EmptyKey
                    BY ConfigAssumption
                <5>2. i \in 1 .. Len(config_defaults) /\ Len(config_defaults) \in Nat
                    BY ConfigAssumption
                <5>3. i \in 1 .. Len(config_entries) /\ config_entries[i].key = config_defaults[i].key
                    BY <4>1, <5>2 DEF Table
                <5> QED BY <5>1, <5>3
            <4>3. e.key = LogKey
                OBVIOUS
            <4> HIDE DEF e
            <4>4. t = [config_entries EXCEPT ![i] = e]
                BY <3>2, <4>1, <4>2, <4>3, SetReplaces
            <4>5. \A j \in 1 .. Len(config_entries) : config_entries[j].key = LogKey => j = i
                BY <4>1, <4>2 DEF Table
            <4> QED BY <4>1, <4>4, <4>5 DEF config_find_index
        <3> QED BY <3>1, <3>2, <3>3, <3>4 DEF LevelAgrees, Value
    <2> QED BY <2>2, <2>3, <2>4 DEF ConfigNext, configVars, config_save, SaveFails, OtherFile
<1> QED BY <1>1, <1>2, <1>3, PTL DEF ConfigSpec, LevelFollows
==============================================================================

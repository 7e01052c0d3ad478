-------------------------------- MODULE PeerSet --------------------------------
(***************************************************************************)
(* The peers of a node (struct Net, lib/net/mod.rs): the database of known *)
(* peers, the table of active ones, and the part of the net task that      *)
(* takes their errors, waits, and dials again (run, lib/node/net_task.rs). *)
(* The table is keyed by address and so is what a connection reports, but  *)
(* each connection has a stream of its own, which outlives its place in    *)
(* the table.  Time is a count of ticks; a timer that is due goes off, and *)
(* what is in the mailbox is taken, before the next tick.  What is said on *)
(* a connection is in PeerSync.                                            *)
(***************************************************************************)
EXTENDS Naturals, FiniteSets, Sequences, SequencesExt, FiniteSetsExt

CONSTANTS
    Addr,
    Foreign,           \* the addresses of nodes of other networks
    Invalid,           \* those that the endpoint cannot connect to
    Unspecified,       \* and those whose IP address is unspecified
    Seeds,             \* the seed IP addresses of the network
    Host,              \* what the seed host name resolves to, in order
    RECONNECT_DELAY, MIN_DELAY, MAX_DELAY,   \* in ticks
    MaxFaults,         \* bound on failed connections and restarts
    MaxArrivals        \* bound on peers that dial in, and on orders of the operator

ASSUME PeerSetAssumption ==
    /\ Foreign \cup Invalid \cup Unspecified \cup Seeds \subseteq Addr
    /\ Host \in Seq(Addr) /\ Range(Host) \cap Unspecified = {}
    /\ {RECONNECT_DELAY, MIN_DELAY, MAX_DELAY} \subseteq Nat \ {0}
    /\ {MaxFaults, MaxArrivals} \subseteq Nat

VARIABLES
    known_peers,    \* the database
    active_peers,   \* [Addr -> 0, or which of the address's connections is in the table]
    conn,           \* [Addr \X Generation -> a connection]
    reconnecting,   \* the sleeping reconnects: <<ticks left, resolved address>>
    redial,         \* redial_known_peers
    net,            \* "running", "down", or "failed" at the start
    faults, arrivals

vars == <<known_peers, active_peers, conn, reconnecting, redial, net, faults, arrivals>>

\* A connection is recycled once its stream has been read to the end.
Generation == 1..2
Unused == [alive |-> FALSE, received |-> FALSE, resolved |-> <<>>, infos |-> <<>>]

\* ResolvedSeedAddress: an IP address, or what is left of a host name's.
Static(a) == [domain |-> FALSE, addrs |-> <<a>>]
Domain(s) == [domain |-> TRUE, addrs |-> s]

\* pop_first_ip_addr: the rest is an empty sequence when there is no next.
PopFirst(r) == [r EXCEPT !.addrs = Tail(@)]

Redial0 == [left |-> MIN_DELAY, delay |-> MIN_DELAY, no_peers_at_last_check |-> FALSE]
NoPeers == [a \in Addr |-> 0]
NoConn == [k \in Addr \X Generation |-> Unused]

-----------------------------------------------------------------------------
(***************************************************************************)
(* A change of the tables: K known peers, A active ones, C connections.    *)
(***************************************************************************)
Tables == [K |-> known_peers, A |-> active_peers, C |-> conn]
Becomes(t) == known_peers' = t.K /\ active_peers' = t.A /\ conn' = t.C

Free(t, a) == {i \in Generation : i # t.A[a] /\ t.C[<<a, i>>] = Unused}

\* add_active_peer, when the address is not in the table.
add_active_peer(t, a, r) ==
    LET i == Min(Free(t, a))
    IN  [t EXCEPT !.A[a] = i, !.C[<<a, i>>] = [Unused EXCEPT !.alive = TRUE, !.resolved = r]]

\* remove_active_peer drops the handle, which aborts the task.
remove_active_peer(t, a) ==
    LET i == t.A[a]
        closed == IF t.C[<<a, i>>].alive THEN <<"closed">> ELSE <<>>
    IN  IF i = 0 THEN t
        ELSE [t EXCEPT !.A[a] = 0, !.C[<<a, i>>].alive = FALSE, !.C[<<a, i>>].infos = @ \o closed]

\* The address that connect_peer gets to: the first that the endpoint takes.
Dialled(r) ==
    LET n == {i \in DOMAIN r.addrs : r.addrs[i] \notin Invalid}
    IN  IF n = {} THEN <<>> ELSE SubSeq(r.addrs, Min(n), Len(r.addrs))

Refused(t, r) ==
    \/ \E a \in Range(r.addrs) : t.A[a] # 0
    \/ Dialled(r) = <<>> \/ Head(Dialled(r)) \in Unspecified

\* Mutant: the address is stored before it is looked at.
connect_peer_stores_first(t, r) ==
    LET s == IF r.domain THEN t ELSE [t EXCEPT !.K = @ \cup Range(r.addrs)]
    IN  IF Refused(s, r) THEN s
        ELSE add_active_peer(s, Head(Dialled(r)), [r EXCEPT !.addrs = Dialled(r)])

\* The look at the table and the insertion are one step here; the code takes
\* the lock for each.
connect_peer(t, r) ==
    LET s == IF r.domain THEN t ELSE [t EXCEPT !.K = @ \cup Range(Dialled(r))]
    IN  IF Refused(t, r) THEN t
        ELSE add_active_peer(s, Head(Dialled(r)), [r EXCEPT !.addrs = Dialled(r)])

\* There is room for a connection to each address: the bound on generations.
Room(S) == \A a \in S : active_peers[a] # 0 \/ Free(Tables, a) # {}

\* The addresses of S one after the other: dialling one does not touch another.
DialAll(t, S) ==
    LET dialled(a) == connect_peer(t, Static(a))
    IN  [K |-> t.K \cup UNION {dialled(a).K : a \in S},
         A |-> [a \in DOMAIN t.A |-> IF a \in S THEN dialled(a).A[a] ELSE t.A[a]],
         C |-> [k \in DOMAIN t.C |-> IF k[1] \in S THEN dialled(k[1]).C[k] ELSE t.C[k]]]

-----------------------------------------------------------------------------
(***************************************************************************)
(* Net::new.  What is added is in the database before it is dialled.       *)
(***************************************************************************)
Start(add_peers) ==
    LET K == known_peers \cup Seeds \cup add_peers
        t == DialAll([K |-> K \ Invalid, A |-> NoPeers, C |-> NoConn], K \ Invalid)
    IN  /\ net = "down"
        /\ IF K \cap Unspecified # {}
           THEN /\ known_peers' = K /\ net' = "failed"
                /\ UNCHANGED <<active_peers, conn, reconnecting, redial>>
           ELSE /\ Becomes(t) /\ net' = "running"
                /\ redial' = Redial0 /\ reconnecting' = {}
        /\ UNCHANGED <<faults, arrivals>>

\* Only the database outlives the process.
Stop ==
    /\ net # "down" /\ faults < MaxFaults /\ faults' = faults + 1
    /\ net' = "down"
    /\ active_peers' = NoPeers /\ conn' = NoConn /\ reconnecting' = {} /\ redial' = Redial0
    /\ UNCHANGED <<known_peers, arrivals>>

\* dial_seed resolves the host name at each start, and dials when it is done.
DialSeed ==
    /\ net = "running" /\ Host # <<>> /\ Room(Range(Host))
    /\ arrivals < MaxArrivals /\ arrivals' = arrivals + 1
    /\ Becomes(connect_peer(Tables, Domain(Host)))
    /\ UNCHANGED <<reconnecting, redial, net, faults>>

\* The operator's connect_peer and forget_peer.
ConnectPeer(a) ==
    /\ net = "running" /\ Room({a})
    /\ arrivals < MaxArrivals /\ arrivals' = arrivals + 1
    /\ Becomes(connect_peer(Tables, Static(a)))
    /\ UNCHANGED <<reconnecting, redial, net, faults>>

ForgetPeer(a) ==
    /\ net = "running" /\ a \in known_peers
    /\ arrivals < MaxArrivals /\ arrivals' = arrivals + 1
    /\ known_peers' = known_peers \ {a}
    /\ UNCHANGED <<active_peers, conn, reconnecting, redial, net, faults>>

\* accept_incoming: a duplicate is closed.
AcceptIncoming(a) ==
    /\ net = "running" /\ a \notin Invalid \cup Unspecified
    /\ active_peers[a] = 0 /\ Room({a})
    /\ arrivals < MaxArrivals /\ arrivals' = arrivals + 1
    /\ Becomes(add_active_peer([Tables EXCEPT !.K = @ \cup {a}], a, Static(a)))
    /\ UNCHANGED <<reconnecting, redial, net, faults>>

-----------------------------------------------------------------------------
\* The connection has a valid message from the peer.
Receives(k) ==
    /\ conn[k].alive /\ ~conn[k].received /\ k[1] \notin Foreign
    /\ conn' = [conn EXCEPT ![k].received = TRUE]
    /\ UNCHANGED <<known_peers, active_peers, reconnecting, redial, net, faults, arrivals>>

\* It ends with an error: no heartbeats, one after which it is tried again (a
\* connection of its own, or no answer to the dial), other magic bytes, or any other.
ConnectionFails(k, err) ==
    /\ faults < MaxFaults /\ faults' = faults + 1
    /\ conn[k].alive
    /\ err = "bad_magic" => k[1] \in Foreign
    /\ conn' = [conn EXCEPT ![k].alive = FALSE, ![k].infos = @ \o <<err, "closed">>]
    /\ UNCHANGED <<known_peers, active_peers, reconnecting, redial, net, arrivals>>

\* A request gets no answer in time: an error, but the connection goes on.
ResponseTimesOut(k) ==
    /\ faults < MaxFaults /\ faults' = faults + 1
    /\ conn[k].alive /\ conn[k].received
    /\ conn' = [conn EXCEPT ![k].infos = Append(@, "other")]
    /\ UNCHANGED <<known_peers, active_peers, reconnecting, redial, net, arrivals>>

\* The net task takes the next info of a connection.  It knows the address, and
\* not which connection it was.
NextInfo(k) == Head(conn[k].infos)
Taken(k) ==
    LET c == conn[k]
        rest == [c EXCEPT !.infos = Tail(@)]
        done == Len(c.infos) = 1 /\ active_peers[k[1]] # k[2]
    IN  [Tables EXCEPT !.C[k] = IF done THEN Unused ELSE rest]
TakesInfo(k) == net = "running" /\ conn[k].infos # <<>>

Reconnect(r) == reconnecting' = reconnecting \cup {<<RECONNECT_DELAY, r>>}

HandleClosed(k) ==
    /\ TakesInfo(k) /\ NextInfo(k) = "closed"
    /\ LET t == remove_active_peer(Taken(k), k[1])
       IN  Becomes([t EXCEPT !.C[k] = IF @.infos = <<>> THEN Unused ELSE @])
    /\ UNCHANGED <<reconnecting, redial, net, faults, arrivals>>

\* A heartbeat timeout: the peer again if it has said something, or else the
\* next address of its name.
HandleHeartbeatTimeout(k) ==
    LET a == k[1]
        i == active_peers[a]
        r == conn[k].resolved
        next == IF conn[<<a, i>>].received THEN r ELSE PopFirst(r)
    IN  /\ TakesInfo(k) /\ NextInfo(k) = "heartbeat"
        /\ IF i = 0
           THEN Becomes(Taken(k)) /\ UNCHANGED reconnecting
           ELSE /\ Becomes(remove_active_peer(Taken(k), a))
                /\ IF next.addrs = <<>> THEN UNCHANGED reconnecting ELSE Reconnect(next)
        /\ UNCHANGED <<redial, net, faults, arrivals>>

\* Any other error; a peer of another network is forgotten.
HandleError(k) ==
    LET a == k[1]
        r == conn[k].resolved
        t == remove_active_peer(Taken(k), a)
        bad_magic == NextInfo(k) = "bad_magic"
    IN  /\ TakesInfo(k) /\ NextInfo(k) \in {"retry", "bad_magic", "other"}
        /\ Becomes(IF bad_magic THEN [t EXCEPT !.K = @ \ {a}] ELSE t)
        /\ CASE NextInfo(k) = "retry" -> Reconnect(r)
             [] NextInfo(k) = "other" /\ Len(r.addrs) > 1 -> Reconnect(PopFirst(r))
             [] OTHER -> UNCHANGED reconnecting
        /\ UNCHANGED <<redial, net, faults, arrivals>>

\* ReconnectPeer: the wait is over.
ReconnectPeer(w) ==
    /\ net = "running" /\ w \in reconnecting /\ w[1] = 0 /\ Room(Range(w[2].addrs))
    /\ reconnecting' = reconnecting \ {w}
    /\ Becomes(connect_peer(Tables, w[2]))
    /\ UNCHANGED <<redial, net, faults, arrivals>>

-----------------------------------------------------------------------------
NoActive == active_peers = NoPeers
RedialDue == net = "running" /\ redial.left = 0
Redials == RedialDue /\ NoActive /\ redial.no_peers_at_last_check

\* Mutant: each check without peers is taken for the first.
RedialCheck_forgets ==
    /\ RedialDue
    /\ redial' = [left |-> MIN_DELAY, delay |-> MIN_DELAY, no_peers_at_last_check |-> FALSE]
    /\ UNCHANGED <<known_peers, active_peers, conn, reconnecting, net, faults, arrivals>>

\* redial_known_peers: the known peers are dialled at the second check in a
\* row that finds no peer, and the wait doubles.
RedialCheck ==
    LET longer == Min({2 * redial.delay, MAX_DELAY})
    IN  /\ RedialDue
        /\ IF Redials
           THEN /\ Room(known_peers)
                /\ Becomes(DialAll(Tables, known_peers))
                /\ redial' = [redial EXCEPT !.left = longer, !.delay = longer]
           ELSE /\ redial' = IF NoActive
                             THEN [redial EXCEPT !.left = redial.delay,
                                                 !.no_peers_at_last_check = TRUE]
                             ELSE Redial0
                /\ UNCHANGED <<known_peers, active_peers, conn>>
        /\ UNCHANGED <<reconnecting, net, faults, arrivals>>

Tick ==
    /\ net = "running" /\ redial.left > 0 /\ \A w \in reconnecting : w[1] > 0
    /\ \A k \in DOMAIN conn : conn[k].infos = <<>>
    /\ redial' = [redial EXCEPT !.left = @ - 1]
    /\ reconnecting' = {<<w[1] - 1, w[2]>> : w \in reconnecting}
    /\ UNCHANGED <<known_peers, active_peers, conn, net, faults, arrivals>>

-----------------------------------------------------------------------------
Init ==
    /\ known_peers = {} /\ active_peers = NoPeers /\ conn = NoConn
    /\ reconnecting = {} /\ redial = Redial0
    /\ net = "down"
    /\ faults = 0 /\ arrivals = 0

Errors == {"heartbeat", "retry", "bad_magic", "other"}

HandleInfo(k) == HandleClosed(k) \/ HandleHeartbeatTimeout(k) \/ HandleError(k)

Next ==
    \/ \E add_peers \in SUBSET Addr : Cardinality(add_peers) <= 1 /\ Start(add_peers)
    \/ Stop \/ DialSeed \/ RedialCheck \/ Tick
    \/ \E a \in Addr : ConnectPeer(a) \/ ForgetPeer(a) \/ AcceptIncoming(a)
    \/ \E k \in Addr \X Generation :
        \/ Receives(k) \/ ResponseTimesOut(k) \/ HandleInfo(k)
        \/ \E err \in Errors : ConnectionFails(k, err)
    \/ \E w \in reconnecting : ReconnectPeer(w)

(***************************************************************************)
(* Time passes, timers go off, and the net task takes what is in its       *)
(* mailbox; nobody has to dial in, and a node may stay down.               *)
(***************************************************************************)
Fairness ==
    /\ WF_vars(Tick) /\ WF_vars(RedialCheck)
    /\ WF_vars(\E w \in reconnecting : ReconnectPeer(w))
    /\ \A k \in Addr \X Generation : WF_vars(HandleInfo(k))

Spec == Init /\ [][Next]_vars /\ Fairness

-----------------------------------------------------------------------------
\* A running node never keeps an address that would make its next start fail:
\* what it stores while it runs it has looked at first, and of the addresses
\* that it was started with, which are stored before, an invalid one has been
\* deleted and an unspecified one has made the start fail.
KnownDialable == net = "running" => known_peers \cap (Invalid \cup Unspecified) = {}

\* A running node that knows a peer always gets to dial or hold one again,
\* whatever connections fail and whichever reports of old ones come late: no
\* dead entry stays in the table and keeps the redial from happening.
Holds(a) == active_peers[a] # 0 /\ conn[<<a, active_peers[a]>>].alive
KeepsDialing == []<>(net # "running" \/ known_peers = {} \/ \E a \in Addr : Holds(a))

\* What the comment in redial_known_peers says: the known peers are dialled
\* only when the net task has no reconnect of its own left to do.
RedialNeverFirst == [][Redials /\ RedialCheck => reconnecting = {}]_vars
=============================================================================

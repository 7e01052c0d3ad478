----------------------------- MODULE PeerSetProofs -----------------------------
(***************************************************************************)
(* Proofs about PeerSet: for any addresses, seeds, delays and bounds, and  *)
(* any order of dials, arrivals, errors, reconnects and restarts.          *)
(***************************************************************************)
EXTENDS PeerSet, SequenceTheorems, TLAPS

Bad == Invalid \cup Unspecified

\* What is dialled is a host name's addresses, or one address, which
\* connect_peer has looked at when it stores it.
Resolved(r) ==
    /\ DOMAIN r = {"domain", "addrs"}
    /\ r.domain \/ r.addrs = <<r.addrs[1]>>

Silent(c) == c.alive = FALSE /\ c.infos = <<>>

ConnOK(C) ==
    /\ DOMAIN C = Addr \X Generation
    /\ \A k \in Addr \X Generation :
        /\ DOMAIN C[k] = {"alive", "received", "resolved", "infos"}
        /\ Silent(C[k]) \/ Resolved(C[k].resolved)

TablesOK(t) == t = [K |-> t.K, A |-> t.A, C |-> t.C] /\ DOMAIN t.A = Addr /\ ConnOK(t.C)

Clean(K) == K \cap Bad = {}

-----------------------------------------------------------------------------
LEMMA AddFacts ==
    ASSUME NEW t, TablesOK(t), NEW a, NEW r, Resolved(r)
    PROVE  TablesOK(add_active_peer(t, a, r)) /\ add_active_peer(t, a, r).K = t.K
<1> DEFINE i == Min(Free(t, a))
           c == [Unused EXCEPT !.alive = TRUE, !.resolved = r]
           u == add_active_peer(t, a, r)
<1>1. DOMAIN c = {"alive", "received", "resolved", "infos"} /\ c.resolved = r
  BY DEF Unused
<1>2. u = [t EXCEPT !.A[a] = i, !.C[<<a, i>>] = c]
  BY DEF add_active_peer
<1> HIDE DEF c, i, u
<1>3. u = [K |-> t.K, A |-> u.A, C |-> u.C] /\ DOMAIN u.A = Addr
  BY <1>2 DEF TablesOK
<1>4. u.C = [t.C EXCEPT ![<<a, i>>] = c]
  BY <1>2 DEF TablesOK
<1>5. ConnOK(u.C)
  BY <1>1, <1>4 DEF TablesOK, ConnOK
<1> QED BY <1>3, <1>5 DEF TablesOK, u

LEMMA RemoveFacts ==
    ASSUME NEW t, TablesOK(t), NEW a \in Addr
    PROVE  TablesOK(remove_active_peer(t, a)) /\ remove_active_peer(t, a).K = t.K
<1> DEFINE i == t.A[a]
           closed == IF t.C[<<a, i>>].alive THEN <<"closed">> ELSE <<>>
           u == remove_active_peer(t, a)
<1>1. CASE i = 0
  BY <1>1 DEF remove_active_peer
<1>2. CASE i # 0
  <2>1. u = [t EXCEPT !.A[a] = 0, !.C[<<a, i>>].alive = FALSE,
                      !.C[<<a, i>>].infos = @ \o closed]
    BY <1>2 DEF remove_active_peer
  <2>2. ~t.C[<<a, i>>].alive => closed = <<>>
    OBVIOUS
  <2> HIDE DEF i, closed, u
  <2>3. u = [K |-> t.K, A |-> u.A, C |-> u.C] /\ DOMAIN u.A = Addr
    BY <2>1 DEF TablesOK
  <2>4. /\ DOMAIN u.C = DOMAIN t.C
        /\ \A k \in DOMAIN t.C : k # <<a, i>> => u.C[k] = t.C[k]
    BY <2>1 DEF TablesOK
  <2>5. <<a, i>> \in DOMAIN t.C =>
            u.C[<<a, i>>] = [t.C[<<a, i>>] EXCEPT !.alive = FALSE, !.infos = @ \o closed]
    BY <2>1 DEF TablesOK
  <2>6. \A c : Silent(c) => c.infos \o <<>> = <<>>
    BY DEF Silent
  <2>7. ASSUME <<a, i>> \in Addr \X Generation
        PROVE  /\ DOMAIN u.C[<<a, i>>] = {"alive", "received", "resolved", "infos"}
               /\ Silent(u.C[<<a, i>>]) \/ Resolved(u.C[<<a, i>>].resolved)
    <3> DEFINE c == t.C[<<a, i>>]
    <3>1. DOMAIN c = {"alive", "received", "resolved", "infos"} /\ (Silent(c) \/ Resolved(c.resolved))
          /\ u.C[<<a, i>>] = [c EXCEPT !.alive = FALSE, !.infos = @ \o closed]
      BY <2>5, <2>7 DEF TablesOK, ConnOK
    <3> HIDE DEF c
    <3>2. CASE Resolved(c.resolved)
      BY <3>1, <3>2
    <3>3. CASE Silent(c)
      <4>1. closed = <<>>
        BY <2>2, <3>3 DEF Silent, c
      <4> QED BY <3>1, <3>3, <4>1, <2>6 DEF Silent
    <3> QED BY <3>1, <3>2, <3>3
  <2>8. ConnOK(u.C)
    BY <2>4, <2>7 DEF TablesOK, ConnOK
  <2> QED BY <2>3, <2>8 DEF TablesOK, u
<1> QED BY <1>1, <1>2

\* What is dialled of one address, and what of a name.
LEMMA DialledStatic ==
    ASSUME NEW a, NEW r, r.addrs = <<a>>
    PROVE  Dialled(r) = IF a \in Invalid THEN <<>> ELSE <<a>>
<1> DEFINE n == {i \in DOMAIN r.addrs : r.addrs[i] \notin Invalid}
<1>1. r.addrs = <<a>> /\ DOMAIN r.addrs = {1}
  OBVIOUS
<1>2. n = IF a \in Invalid THEN {} ELSE {1}
  BY <1>1
<1>3. a \notin Invalid => Min(n) = 1
  BY <1>2 DEF Min
<1>4. SubSeq(<<a>>, 1, 1) = <<a>>
  <2>1. <<a>> \in Seq({a}) /\ Len(<<a>>) = 1
    OBVIOUS
  <2> QED BY <2>1, SubSeqFull
<1>5. Dialled(r) = IF n = {} THEN <<>> ELSE SubSeq(r.addrs, Min(n), Len(r.addrs))
  BY DEF Dialled
<1> QED BY <1>1, <1>2, <1>3, <1>4, <1>5

LEMMA DialFacts ==
    ASSUME NEW t, TablesOK(t), NEW r, Resolved(r)
    PROVE  TablesOK(connect_peer(t, r)) /\ (Clean(t.K) => Clean(connect_peer(t, r).K))
<1> DEFINE d == Dialled(r)
           s == IF r.domain THEN t ELSE [t EXCEPT !.K = @ \cup Range(d)]
           q == [r EXCEPT !.addrs = d]
<1>1. CASE Refused(t, r)
  BY <1>1 DEF connect_peer
<1>2. CASE ~Refused(t, r)
  <2>1. connect_peer(t, r) = add_active_peer(s, Head(d), q)
    BY <1>2 DEF connect_peer
  <2>2. DOMAIN q = {"domain", "addrs"} /\ q.domain = r.domain /\ q.addrs = d
    BY DEF Resolved
  <2>3. CASE r.domain
    <3>1. s = t
      BY <2>3
    <3> HIDE DEF d, s, q
    <3>2. q.domain
      BY <2>2, <2>3
    <3>3. Resolved(q)
      BY <2>2, <3>2 DEF Resolved
    <3> QED BY <2>1, <3>1, <3>3, AddFacts
  <2>4. CASE ~r.domain /\ r.addrs = <<r.addrs[1]>>
    <3>1. PICK a : r.addrs = <<a>>
      BY <2>4
    <3>2. a \notin Bad /\ d = <<a>>
      <4>1. d = IF a \in Invalid THEN <<>> ELSE <<a>>
        BY <3>1, DialledStatic
      <4>2. d # <<>> /\ Head(d) \notin Unspecified
        BY <1>2 DEF Refused
      <4> HIDE DEF d
      <4> QED BY <4>1, <4>2 DEF Bad
    <3>3. s = [t EXCEPT !.K = @ \cup {a}]
      <4>1. Range(<<a>>) = {a}
        BY DEF Range
      <4> HIDE DEF d
      <4> QED BY <2>4, <3>2, <4>1
    <3> HIDE DEF d, s, q
    <3>4. TablesOK(s) /\ s.K = t.K \cup {a}
      BY <3>3 DEF TablesOK
    <3>5. Resolved(q)
      BY <2>2, <2>4, <3>2 DEF Resolved
    <3>6. TablesOK(connect_peer(t, r)) /\ connect_peer(t, r).K = t.K \cup {a}
      BY <2>1, <3>4, <3>5, AddFacts
    <3> QED BY <3>2, <3>6 DEF Clean
  <2> QED BY <2>3, <2>4 DEF Resolved
<1> QED BY <1>1, <1>2

LEMMA DialAllFacts ==
    ASSUME NEW t, TablesOK(t), NEW S
    PROVE  TablesOK(DialAll(t, S)) /\ (Clean(t.K) => Clean(DialAll(t, S).K))
<1> DEFINE u(a) == connect_peer(t, Static(a))
           v == DialAll(t, S)
<1>1. \A a : Resolved(Static(a))
  BY DEF Resolved, Static
<1>2. \A a : TablesOK(u(a)) /\ (Clean(t.K) => Clean(u(a).K))
  BY <1>1, DialFacts
<1>3. /\ v = [K |-> v.K, A |-> v.A, C |-> v.C]
      /\ v.K = t.K \cup UNION {u(a).K : a \in S}
      /\ DOMAIN v.A = DOMAIN t.A
      /\ v.C = [k \in DOMAIN t.C |-> IF k[1] \in S THEN u(k[1]).C[k] ELSE t.C[k]]
  BY DEF DialAll
<1> HIDE DEF u, v
<1>4. ConnOK(v.C)
  <2>1. \A k \in Addr \X Generation : k[1] \in Addr
    OBVIOUS
  <2> QED BY <1>2, <1>3, <2>1 DEF TablesOK, ConnOK
<1>5. Clean(t.K) => Clean(v.K)
  BY <1>2, <1>3 DEF Clean
<1> QED BY <1>3, <1>4, <1>5 DEF TablesOK, v

-----------------------------------------------------------------------------
(***************************************************************************)
(* The node.                                                               *)
(***************************************************************************)
PInv ==
    /\ TablesOK(Tables)
    /\ \A w \in reconnecting : Resolved(w[2])
    /\ KnownDialable

LEMMA TablesAfter ==
    ASSUME NEW t, TablesOK(t), Becomes(t)
    PROVE  TablesOK(Tables)' /\ known_peers' = t.K
  BY DEF Becomes, TablesOK, ConnOK, Tables, Generation

LEMMA Keeps ==
    ASSUME PInv, NEW t, TablesOK(t), Becomes(t), net = "running",
           Clean(known_peers) => Clean(t.K), \A w \in reconnecting' : Resolved(w[2])
    PROVE  PInv'
<1>1. TablesOK(Tables)' /\ known_peers' = t.K
  BY TablesAfter
<1>2. KnownDialable'
  BY <1>1 DEF PInv, KnownDialable, Clean, Bad
<1> QED
  BY <1>1, <1>2 DEF PInv

\* What the net task finds in the report of a connection.
LEMMA TakenFacts ==
    ASSUME PInv, NEW k \in Addr \X Generation, TakesInfo(k)
    PROVE  /\ TablesOK(Taken(k)) /\ Taken(k).K = known_peers
           /\ Resolved(conn[k].resolved)
<1> DEFINE c == conn[k]
           v == Taken(k).C[k]
<1>1. ConnOK(conn) /\ TablesOK(Tables) /\ Tables.C = conn /\ Tables.K = known_peers
  BY DEF PInv, TablesOK, Tables
<1>2. DOMAIN c = {"alive", "received", "resolved", "infos"} /\ Resolved(c.resolved)
  BY <1>1 DEF ConnOK, Silent, TakesInfo
<1>3. PICK e : Taken(k) = [Tables EXCEPT !.C[k] = e]
               /\ (e = Unused \/ e = [c EXCEPT !.infos = Tail(@)])
  BY DEF Taken
<1> HIDE DEF c, v
<1>4. DOMAIN e = {"alive", "received", "resolved", "infos"} /\ (Silent(e) \/ Resolved(e.resolved))
  BY <1>2, <1>3 DEF Unused, Silent
<1>5. ConnOK([conn EXCEPT ![k] = e])
  BY <1>1, <1>4 DEF ConnOK
<1>6. TablesOK(Taken(k)) /\ Taken(k).K = known_peers
  BY <1>1, <1>3, <1>5 DEF TablesOK
<1> QED BY <1>2, <1>6 DEF c

\* A step of a connection.
LEMMA ConnStep ==
    ASSUME PInv, NEW k \in Addr \X Generation, NEW e,
           conn' = [conn EXCEPT ![k] = e],
           DOMAIN e = {"alive", "received", "resolved", "infos"},
           Resolved(e.resolved),
           UNCHANGED <<known_peers, active_peers, reconnecting, net>>
    PROVE  PInv'
<1>1. ConnOK(conn) /\ DOMAIN active_peers = Addr
  BY DEF PInv, TablesOK, Tables
<1>2. ConnOK(conn')
  BY <1>1 DEF ConnOK
<1>3. TablesOK(Tables)'
  BY <1>1, <1>2 DEF TablesOK, Tables
<1> QED BY <1>3 DEF PInv, KnownDialable

LEMMA AliveResolved ==
    ASSUME PInv, NEW k \in Addr \X Generation, conn[k].alive
    PROVE  DOMAIN conn[k] = {"alive", "received", "resolved", "infos"} /\ Resolved(conn[k].resolved)
  BY DEF PInv, TablesOK, Tables, ConnOK, Silent

LEMMA PopResolved ==
    ASSUME NEW r, Resolved(r)
    PROVE  /\ DOMAIN PopFirst(r) = {"domain", "addrs"} /\ PopFirst(r).domain = r.domain
           /\ ~r.domain => PopFirst(r).addrs = <<>> /\ Len(r.addrs) = 1
<1>1. DOMAIN PopFirst(r) = {"domain", "addrs"} /\ PopFirst(r).domain = r.domain
      /\ PopFirst(r).addrs = Tail(r.addrs)
  BY DEF Resolved, PopFirst
<1>2. \A a : Tail(<<a>>) = <<>> /\ Len(<<a>>) = 1
  OBVIOUS
<1> QED BY <1>1, <1>2 DEF Resolved

LEMMA Same ==
    ASSUME PInv, UNCHANGED <<known_peers, active_peers, conn>>, net' \in {net, "failed"},
           \A w \in reconnecting' : Resolved(w[2])
    PROVE  PInv'
<1>1. TablesOK(Tables)'
  BY DEF PInv, TablesOK, Tables, ConnOK
<1>2. KnownDialable'
  BY DEF PInv, KnownDialable
<1> QED BY <1>1, <1>2 DEF PInv

\* An invariant of the peers: connections and reconnects are of host names or of
\* single addresses, and a running node has none in its database that
\* connect_peer would fail on at the next start.
THEOREM PeersInvariant == Spec => []PInv
<1>1. Init => PInv
  <2> SUFFICES ASSUME Init PROVE PInv
    OBVIOUS
  <2>1. TablesOK(Tables)
    BY DEF Init, TablesOK, Tables, ConnOK, NoPeers, NoConn, Unused, Silent
  <2> QED BY <2>1 DEF Init, PInv, KnownDialable
<1>2. ASSUME PInv, [Next]_vars
      PROVE  PInv'
  <2>0. TablesOK(Tables) /\ \A w \in reconnecting : Resolved(w[2])
    BY <1>2 DEF PInv
  <2>1. ASSUME UNCHANGED vars PROVE PInv'
    BY <1>2, <2>0, <2>1, Same DEF vars
  <2>2. ASSUME NEW add_peers \in SUBSET Addr, Start(add_peers) PROVE PInv'
    <3> DEFINE K == known_peers \cup Seeds \cup add_peers
               t == [K |-> K \ Invalid, A |-> NoPeers, C |-> NoConn]
    <3>1. CASE K \cap Unspecified # {}
      <4>1. UNCHANGED <<active_peers, conn, reconnecting>> /\ net' = "failed"
        BY <2>2, <3>1 DEF Start
      <4>2. TablesOK(Tables)'
        BY <2>0, <4>1 DEF TablesOK, ConnOK, Tables
      <4> QED BY <2>0, <4>1, <4>2 DEF KnownDialable, PInv
    <3>2. CASE K \cap Unspecified = {}
      <4>1. TablesOK(t) /\ Clean(t.K)
        BY <3>2 DEF TablesOK, ConnOK, NoPeers, NoConn, Unused, Silent, Clean, Bad
      <4>2. Becomes(DialAll(t, K \ Invalid)) /\ reconnecting' = {}
        BY <2>2, <3>2 DEF Start
      <4> HIDE DEF K, t
      <4>3. TablesOK(DialAll(t, K \ Invalid)) /\ Clean(DialAll(t, K \ Invalid).K)
        BY <4>1, DialAllFacts
      <4> QED BY <4>2, <4>3, TablesAfter DEF KnownDialable, Clean, Bad, PInv
    <3> QED BY <3>1, <3>2
  <2>3. ASSUME Stop PROVE PInv'
    <3>1. TablesOK(Tables)'
      BY <2>3 DEF Stop, TablesOK, Tables, ConnOK, NoPeers, NoConn, Unused, Silent
    <3> QED BY <2>3, <3>1 DEF Stop, KnownDialable, PInv
  <2>4. Tables.K = known_peers
    BY DEF Tables
  <2>5. \A a : Resolved(Static(a)) /\ Resolved(Domain(a))
    <3>1. \A a : DOMAIN Static(a) = {"domain", "addrs"} /\ Static(a).addrs = <<Static(a).addrs[1]>>
      BY DEF Static
    <3>2. \A a : DOMAIN Domain(a) = {"domain", "addrs"} /\ Domain(a).domain
      BY DEF Domain
    <3> QED BY <3>1, <3>2 DEF Resolved
  <2>6. ASSUME DialSeed PROVE PInv'
    BY <1>2, <2>4, <2>5, <2>6, <2>0, DialFacts, Keeps DEF DialSeed
  <2>7. ASSUME NEW a \in Addr, ConnectPeer(a) PROVE PInv'
    BY <1>2, <2>4, <2>5, <2>7, <2>0, DialFacts, Keeps DEF ConnectPeer
  <2>8. ASSUME NEW a \in Addr, ForgetPeer(a) PROVE PInv'
    <3>1. TablesOK([Tables EXCEPT !.K = @ \ {a}]) /\ Becomes([Tables EXCEPT !.K = @ \ {a}])
      BY <2>0, <2>8 DEF TablesOK, Tables, Becomes, ForgetPeer
    <3>2. [Tables EXCEPT !.K = @ \ {a}].K = known_peers \ {a}
      BY DEF Tables
    <3> QED BY <1>2, <2>8, <3>1, <3>2, <2>0, Keeps DEF ForgetPeer, Clean
  <2>9. ASSUME NEW a \in Addr, AcceptIncoming(a) PROVE PInv'
    <3> DEFINE t == [Tables EXCEPT !.K = @ \cup {a}]
    <3>1. TablesOK(t) /\ t.K = known_peers \cup {a} /\ a \notin Bad
      BY <2>0, <2>9 DEF TablesOK, Tables, AcceptIncoming, Bad
    <3>2. Becomes(add_active_peer(t, a, Static(a)))
      BY <2>9 DEF AcceptIncoming
    <3> HIDE DEF t
    <3>3. TablesOK(add_active_peer(t, a, Static(a))) /\ add_active_peer(t, a, Static(a)).K = t.K
      BY <3>1, <2>5, AddFacts
    <3> QED BY <1>2, <2>9, <3>1, <3>2, <3>3, <2>0, Keeps DEF AcceptIncoming, Clean
  <2>10. ASSUME NEW k \in Addr \X Generation, Receives(k) PROVE PInv'
    <3> DEFINE e == [conn[k] EXCEPT !.received = TRUE]
    <3>1. conn' = [conn EXCEPT ![k] = e] /\ UNCHANGED <<known_peers, active_peers, reconnecting, net>>
      BY <2>10 DEF Receives
    <3>2. DOMAIN e = {"alive", "received", "resolved", "infos"} /\ Resolved(e.resolved)
      BY <1>2, <2>10, AliveResolved DEF Receives
    <3> QED BY <1>2, <3>1, <3>2, ConnStep
  <2>11. ASSUME NEW k \in Addr \X Generation, ResponseTimesOut(k) PROVE PInv'
    <3> DEFINE e == [conn[k] EXCEPT !.infos = Append(@, "other")]
    <3>1. conn' = [conn EXCEPT ![k] = e] /\ UNCHANGED <<known_peers, active_peers, reconnecting, net>>
      BY <2>11 DEF ResponseTimesOut
    <3>2. DOMAIN e = {"alive", "received", "resolved", "infos"} /\ Resolved(e.resolved)
      BY <1>2, <2>11, AliveResolved DEF ResponseTimesOut
    <3> QED BY <1>2, <3>1, <3>2, ConnStep
  <2>12. ASSUME NEW k \in Addr \X Generation, NEW err \in Errors, ConnectionFails(k, err) PROVE PInv'
    <3> DEFINE e == [conn[k] EXCEPT !.alive = FALSE, !.infos = @ \o <<err, "closed">>]
    <3>0. DOMAIN conn[k] = {"alive", "received", "resolved", "infos"} /\ Resolved(conn[k].resolved)
      BY <1>2, <2>12, AliveResolved DEF ConnectionFails
    <3>1. conn' = [conn EXCEPT ![k] = e] /\ UNCHANGED <<known_peers, active_peers, reconnecting, net>>
      BY <2>12, <3>0 DEF ConnectionFails
    <3>2. DOMAIN e = {"alive", "received", "resolved", "infos"} /\ Resolved(e.resolved)
      BY <3>0
    <3> QED BY <1>2, <3>1, <3>2, ConnStep
  <2>13. ASSUME NEW k \in Addr \X Generation, HandleClosed(k) PROVE PInv'
    <3> DEFINE t == remove_active_peer(Taken(k), k[1])
               u == [t EXCEPT !.C[k] = IF @.infos = <<>> THEN Unused ELSE @]
    <3>1. TablesOK(t) /\ t.K = known_peers
      BY <1>2, <2>13, TakenFacts, RemoveFacts DEF HandleClosed
    <3>2. Becomes(u) /\ reconnecting' = reconnecting /\ net = "running"
      BY <2>13 DEF HandleClosed, TakesInfo
    <3> HIDE DEF t
    <3>3. TablesOK(u) /\ u.K = known_peers
      <4> DEFINE e == IF t.C[k].infos = <<>> THEN Unused ELSE t.C[k]
      <4>1. u = [t EXCEPT !.C[k] = e]
        OBVIOUS
      <4>2. DOMAIN e = {"alive", "received", "resolved", "infos"}
            /\ (Silent(e) \/ Resolved(e.resolved))
        BY <3>1 DEF TablesOK, ConnOK, Unused, Silent
      <4> HIDE DEF e, u
      <4>3. ConnOK([t.C EXCEPT ![k] = e])
        BY <3>1, <4>2 DEF TablesOK, ConnOK
      <4> QED BY <3>1, <4>1, <4>3 DEF TablesOK
    <3> HIDE DEF u
    <3> QED BY <1>2, <3>2, <3>3, <2>0, Keeps
  <2>14. ASSUME NEW k \in Addr \X Generation, HandleHeartbeatTimeout(k) PROVE PInv'
    <3> DEFINE t == remove_active_peer(Taken(k), k[1])
               r == conn[k].resolved
    <3>1. /\ TakesInfo(k) /\ net = "running"
          /\ Becomes(Taken(k)) \/ Becomes(t)
      BY <2>14 DEF HandleHeartbeatTimeout, TakesInfo
    <3>2. reconnecting' = reconnecting \/ \E next \in {r, PopFirst(r)} :
            next.addrs # <<>> /\ reconnecting' = reconnecting \cup {<<RECONNECT_DELAY, next>>}
      BY <2>14 DEF HandleHeartbeatTimeout, Reconnect
    <3>3. TablesOK(Taken(k)) /\ Taken(k).K = known_peers /\ TablesOK(t) /\ t.K = known_peers
          /\ Resolved(r)
      BY <1>2, <3>1, TakenFacts, RemoveFacts
    <3>4. PopFirst(r).addrs # <<>> => Resolved(PopFirst(r))
      BY <3>3, PopResolved DEF Resolved
    <3> HIDE DEF t, r
    <3>5. \A w \in reconnecting' : Resolved(w[2])
      BY <2>0, <3>2, <3>3, <3>4
    <3> QED BY <1>2, <3>1, <3>3, <3>5, Keeps
  <2>15. ASSUME NEW k \in Addr \X Generation, HandleError(k) PROVE PInv'
    <3> DEFINE t == remove_active_peer(Taken(k), k[1])
               u == [t EXCEPT !.K = @ \ {k[1]}]
               r == conn[k].resolved
    <3>1. TakesInfo(k) /\ net = "running" /\ (Becomes(t) \/ Becomes(u))
      BY <2>15 DEF HandleError, TakesInfo
    <3>2. \/ reconnecting' = reconnecting
          \/ reconnecting' = reconnecting \cup {<<RECONNECT_DELAY, r>>}
          \/ Len(r.addrs) > 1 /\ reconnecting' = reconnecting \cup {<<RECONNECT_DELAY, PopFirst(r)>>}
      BY <2>15 DEF HandleError, Reconnect
    <3>3. TablesOK(t) /\ t.K = known_peers /\ Resolved(r)
      BY <1>2, <3>1, TakenFacts, RemoveFacts
    <3>4. TablesOK(u) /\ u.K = known_peers \ {k[1]}
      BY <3>3 DEF TablesOK
    <3>5. Len(r.addrs) > 1 => Resolved(PopFirst(r))
      <4> HIDE DEF r
      <4>1. Len(r.addrs) = 1 => ~(Len(r.addrs) > 1)
        OBVIOUS
      <4> QED BY <3>3, <4>1, PopResolved DEF Resolved
    <3> HIDE DEF t, u, r
    <3>6. \A w \in reconnecting' : Resolved(w[2])
      BY <2>0, <3>2, <3>3, <3>5
    <3> QED BY <1>2, <3>1, <3>3, <3>4, <3>6, Keeps DEF Clean
  <2>16. ASSUME NEW w \in reconnecting, ReconnectPeer(w) PROVE PInv'
    BY <1>2, <2>4, <2>16, <2>0, DialFacts, Keeps DEF ReconnectPeer
  <2>17. ASSUME RedialCheck PROVE PInv'
    <3>1. CASE Redials
      BY <1>2, <2>4, <2>17, <3>1, <2>0, DialAllFacts, Keeps DEF RedialCheck, Redials, RedialDue
    <3>2. CASE ~Redials
      <4>1. UNCHANGED <<known_peers, active_peers, conn, reconnecting, net>>
        BY <2>17, <3>2 DEF RedialCheck
      <4> QED BY <1>2, <2>0, <4>1, Same
    <3> QED BY <3>1, <3>2
  <2>18. ASSUME Tick PROVE PInv'
    <3>1. /\ UNCHANGED <<known_peers, active_peers, conn, net>>
          /\ \A w \in reconnecting' : \E v \in reconnecting : w[2] = v[2]
      BY <2>18 DEF Tick
    <3> QED BY <1>2, <2>0, <3>1, Same
  <2> QED
    BY <1>2, <2>1, <2>2, <2>3, <2>6, <2>7, <2>8, <2>9, <2>10, <2>11, <2>12, <2>13, <2>14,
       <2>15, <2>16, <2>17, <2>18 DEF Next, HandleInfo
<1> QED
  BY <1>1, <1>2, PTL DEF Spec

\* KnownDialable: whatever is dialled, accepted, resolved, reconnected or dialled
\* again, a running node has no address in its database that makes its next
\* start fail (known_peers in net/mod.rs).
THEOREM KnownPeersDialable == Spec => []KnownDialable
<1>1. PInv => KnownDialable
  BY DEF PInv
<1> QED
  BY <1>1, PeersInvariant, PTL
===============================================================================

-------------------------- MODULE DmaEngineProofs --------------------------
(***************************************************************************)
(* For any number of channels, cpus and users: the references of the       *)
(* channels stay balanced, an exclusive channel has no other user, and a   *)
(* copy never loses its channel.                                           *)
(***************************************************************************)
EXTENDS DmaEngine, FiniteSetTheorems, WellFoundedInduction, TLAPS

\* The references count their holders.
RefInv == /\ ref_count \in Nat /\ RefsCounted

\* The driver stays while a channel has a client, and only a driver that goes
\* is off the list.
DriverInv == /\ DriverHeld
             /\ ~listed => driver # "live"

\* privatecnt counts the channels with a client of a private device, and
\* percpu_chan_copy holds some of them, each once.
Clients == {c \in Chans : client_count[c] > 0}
PrivateInv ==
  /\ privatecnt \in Nat
  /\ private <=> privatecnt > 0
  /\ private => privatecnt = Cardinality(Clients)
  /\ \A i \in Cpus : percpu_chan[i] # 0 =>
       /\ private /\ client_count[percpu_chan[i]] = 1
       /\ \A j \in Cpus \ {i} : percpu_chan[j] # percpu_chan[i]

\* While references are held, the table shows channels that have clients.
TableInv == ref_count > 0 =>
  \A i \in Cpus : table[i] # 0 => ~private /\ client_count[table[i]] > 0

\* A shared user copies only while it is on.
UsingInv == \A u \in ShUsers : using[u] # 0 =>
  pc[u] = "on" /\ ~private /\ client_count[using[u]] > 0

IInv == TypeOK /\ RefInv /\ CountsBalanced /\ DriverInv /\ PrivateInv /\ TableInv /\ UsingInv

-----------------------------------------------------------------------------
(* The operators of the allocator.                                         *)

\* nth_chan returns NULL or a channel that has clients.
LEMMA NthChan ==
  ASSUME NEW count \in [Chans -> Nat], NEW n
  PROVE  LET r == nth_chan(count, n)
         IN  r \in 0..NumChans /\ (r # 0 => r \in Chans /\ count[r] > 0)
  <1> DEFINE busy == {c \in Chans : count[c] > 0}
             nth  == {c \in busy :
                        Cardinality({b \in busy : b < c}) = n % Cardinality(busy)}
  <1>1. nth \subseteq busy
    OBVIOUS
  <1>2. nth_chan(count, n) = IF nth = {} THEN 0 ELSE CHOOSE c \in nth : TRUE
    BY Zenon DEF nth_chan
  <1>3. nth # {} => (CHOOSE c \in nth : TRUE) \in nth
    <2> HIDE DEF nth
    <2> QED OBVIOUS
  <1> HIDE DEF nth
  <1>4. nth # {} => nth_chan(count, n) \in busy
    BY <1>1, <1>2, <1>3
  <1>5. nth = {} => nth_chan(count, n) = 0
    BY <1>2
  <1> HIDE DEF busy
  <1>6. \A r \in busy : r \in Chans /\ r \in 0..NumChans /\ count[r] > 0
    BY SizesAssumption DEF busy, Chans
  <1>7. 0 \in 0..NumChans
    BY SizesAssumption
  <1> QED BY <1>4, <1>5, <1>6, <1>7

\* dma_channel_rebalance fills the table from such channels, when the device is
\* public and references are held.
LEMMA RebalancedTable ==
  ASSUME NEW count \in [Chans -> Nat], NEW on_list \in BOOLEAN,
         NEW priv \in BOOLEAN, NEW total \in Nat
  PROVE  LET t == Rebalanced(on_list, priv, count, total)
         IN  /\ t \in [Cpus -> 0..NumChans]
             /\ \A i \in Cpus : t[i] # 0 =>
                  on_list /\ ~priv /\ t[i] \in Chans /\ count[t[i]] > 0
  <1> DEFINE t == Rebalanced(on_list, priv, count, total)
  <1>1. \A i \in Cpus : t[i] = IF ~on_list \/ priv \/ total = 0 THEN 0
                                ELSE nth_chan(count, i - 1)
    BY DEF Rebalanced
  <1>2. \A i \in Cpus : /\ nth_chan(count, i - 1) \in 0..NumChans
                        /\ nth_chan(count, i - 1) # 0 =>
                             /\ nth_chan(count, i - 1) \in Chans
                             /\ count[nth_chan(count, i - 1)] > 0
    BY NthChan
  <1>3. 0 \in 0..NumChans
    BY SizesAssumption
  <1>4. t \in [Cpus -> 0..NumChans]
    <2>1. \A i \in Cpus : t[i] \in 0..NumChans
      BY <1>1, <1>2, <1>3
    <2> QED BY <2>1, <1>3, <1>2, Zenon DEF Rebalanced
  <1>5. \A i \in Cpus : t[i] # 0 =>
          on_list /\ ~priv /\ t[i] \in Chans /\ count[t[i]] > 0
    BY <1>1, <1>2
  <1> QED BY <1>4, <1>5

\* private_candidate returns NULL or a channel without a client, and then every
\* channel of a public device is without one.
LEMMA CandidateUnused ==
  ASSUME TypeOK, Candidate # 0
  PROVE  /\ Candidate \in Chans /\ client_count[Candidate] = 0
         /\ listed
         /\ ~private => \A c \in Chans : client_count[c] = 0
  <1> DEFINE unused == {c \in Chans : client_count[c] = 0}
  <1>1. unused # {} /\ Candidate = Min(unused) /\ listed
        /\ ~(NumChans > 1 /\ ~private /\ unused # Chans)
    BY DEF Candidate
  <1>2. PICK m \in unused : \A k \in unused : m <= k
    <2> DEFINE less == OpToRel(<, Nat)
    <2>1. IsWellFoundedOn(less, Nat)
      BY NatLessThanWellFounded
    <2>2. unused \subseteq Nat
      BY DEF Chans
    <2> HIDE DEF less
    <2>3. PICK m \in unused : \A k \in unused : ~(<<k, m>> \in less)
      BY <1>1, <2>1, <2>2, WFMin, Zenon
    <2>4. \A k \in unused : <<k, m>> \in less <=> k < m
      BY <2>2 DEF less, OpToRel
    <2>5. \A k \in unused : m <= k
      <3> SUFFICES ASSUME NEW k \in unused PROVE m <= k
        OBVIOUS
      <3>1. ~(k < m)
        BY <2>3, <2>4
      <3>2. k \in Int /\ m \in Int
        BY DEF Chans
      <3> QED BY <3>1, <3>2
    <2> QED BY <2>5, Zenon
  <1>3. Candidate \in unused
    BY <1>1, <1>2 DEF Min
  <1>4. ~private => \A c \in Chans : client_count[c] = 0
    <2>1. CASE NumChans > 1
      BY <2>1, <1>1
    <2>2. CASE NumChans = 1
      BY <2>2, <1>3 DEF Chans
    <2> QED BY <2>1, <2>2, SizesAssumption
  <1> QED BY <1>1, <1>3, <1>4

\* The channels with clients are finitely many.
LEMMA ClientsFinite == IsFiniteSet(Clients)
  <1>1. IsFiniteSet(Chans)
    BY FS_Interval, SizesAssumption DEF Chans
  <1> QED BY <1>1, FS_Subset DEF Clients

\* The holders of references are finitely many, and each that comes or goes
\* changes their number by one.
LEMMA HoldersChange ==
  ASSUME TypeOK, RefInv, NEW u \in ShUsers
  PROVE  /\ u \notin Holders => Cardinality(Holders \union {u}) = ref_count + 1
         /\ u \in Holders => /\ ref_count > 0
                            /\ Cardinality(Holders \ {u}) = ref_count - 1
  <1>1. IsFiniteSet(Holders)
    BY FS_Subset, UsersAssumption DEF Holders
  <1>2. IsFiniteSet(Holders \ {u}) /\ Cardinality(Holders \ {u}) \in Nat
    BY <1>1, FS_RemoveElement, FS_CardinalityType
  <1>3. u \in Holders => Cardinality(Holders \ {u}) = Cardinality(Holders) - 1
    BY <1>1, FS_RemoveElement
  <1>4. u \notin Holders => Cardinality(Holders \union {u}) = Cardinality(Holders) + 1
    BY <1>1, FS_AddElement
  <1> QED BY <1>2, <1>3, <1>4 DEF RefInv, RefsCounted

\* Steps that leave the counts of the channels alone keep the invariant.
LEMMA QuietStep ==
  ASSUME IInv, TypeOK', DriverInv', Holders' = Holders,
         UNCHANGED <<client_count, private, privatecnt, ref_count>>,
         \A i \in Cpus : table'[i] \in {0, table[i]},
         \A i \in Cpus : percpu_chan'[i] \in {0, percpu_chan[i]},
         \A u \in ShUsers : using'[u] # 0 =>
           pc'[u] = "on" /\ ~private /\ client_count[using'[u]] > 0
  PROVE  IInv'
  <1>1. RefInv'
    BY DEF IInv, RefInv, RefsCounted
  <1>2. CountsBalanced'
    BY DEF IInv, CountsBalanced
  <1>3. PrivateInv'
    <2>1. Clients' = Clients
      BY DEF Clients
    <2> QED BY <2>1 DEF IInv, PrivateInv
  <1>4. TableInv'
    BY DEF IInv, TableInv
  <1>5. UsingInv'
    BY DEF UsingInv
  <1> QED BY <1>1, <1>2, <1>3, <1>4, <1>5 DEF IInv

\* A shared user takes its reference.
LEMMA GetStep ==
  ASSUME IInv, NEW u \in ShUsers, start_policy_sh(u)
  PROVE  IInv'
  <1> USE DEF IInv
  <1>1. PICK fails \in Failures :
          /\ ref_count' = ref_count + 1
          /\ client_count' = IF listed /\ ~private
                             THEN [c \in Chans |-> Got(c, ref_count + 1, fails)]
                             ELSE client_count
          /\ modref' = [c \in Chans |-> modref[c] + client_count'[c] - client_count[c]]
          /\ listed' = (listed /\ (private \/ driver = "live"))
          /\ table' = IF ref_count + 1 = 1
                      THEN Rebalanced(listed', private, client_count', ref_count + 1)
                      ELSE table
          /\ UNCHANGED <<private, privatecnt, driver>>
    BY Zenon DEF start_policy_sh, dmaengine_get
  <1>2. /\ pc[u] = "off" /\ pc' = [pc EXCEPT ![u] = "counting"]
        /\ UNCHANGED <<copy_ref_count, percpu_chan, next_cpu, using>>
    BY DEF start_policy_sh, Goto
  <1>3. client_count' \in [Chans -> Nat]
    BY <1>1 DEF TypeOK, Got, RefInv
  <1>4. \A c \in Chans : listed /\ ~private =>
          client_count'[c] = Got(c, ref_count + 1, fails)
    BY <1>1
  <1>5. \A c \in Chans : client_count[c] > 0 => client_count'[c] > 0
    BY <1>1, <1>4 DEF TypeOK, Got
  <1>6. TypeOK'
    <2>1. table' \in [Cpus -> 0..NumChans]
      BY <1>1, <1>3, RebalancedTable DEF TypeOK, RefInv
    <2>2. pc' \in [Users -> {"off", "counting", "on", "uncounting", "requesting", "releasing"}]
      BY <1>2 DEF TypeOK, Users
    <2>3. modref' \in [Chans -> Int]
      BY <1>1, <1>3 DEF TypeOK
    <2> QED BY <1>1, <1>2, <1>3, <2>1, <2>2, <2>3 DEF TypeOK, RefInv
  <1>7. RefInv'
    <2>1. Holders' = Holders \union {u} /\ u \notin Holders
      BY <1>2 DEF Holders, TypeOK, Users
    <2> QED BY <2>1, <1>1, HoldersChange DEF RefInv, RefsCounted
  <1>8. CountsBalanced'
    <2>1. CASE private
      BY <2>1, <1>1 DEF CountsBalanced
    <2>2. CASE ~private /\ listed
      BY <2>2, <1>1, <1>4 DEF CountsBalanced, Got, RefInv, TypeOK
    <2>3. CASE ~private /\ ~listed
      BY <2>3, <1>1 DEF CountsBalanced, DriverInv, DriverHeld
    <2> QED BY <2>1, <2>2, <2>3
  <1>9. DriverInv'
    <2>1. modref' = client_count'
      BY <1>1, <1>3 DEF DriverInv, DriverHeld, TypeOK
    <2>2. driver' # "live" => \A c \in Chans : client_count'[c] = 0
      BY <1>1, <1>4 DEF DriverInv, DriverHeld, Got, TypeOK
    <2>3. ~listed' => driver' # "live"
      BY <1>1 DEF DriverInv
    <2> QED BY <2>1, <2>2, <2>3 DEF DriverInv, DriverHeld
  <1>10. PrivateInv'
    <2>1. private => Clients' = Clients
      BY <1>1 DEF Clients
    <2>2. private => client_count' = client_count
      BY <1>1
    <2> QED BY <2>1, <2>2, <1>1, <1>2 DEF PrivateInv
  <1>11. TableInv'
    <2>1. CASE ref_count = 0
      <3>1. table' = Rebalanced(listed', private, client_count', 1)
        BY <2>1, <1>1
      <3>2. listed' \in BOOLEAN /\ private \in BOOLEAN /\ 1 \in Nat
        BY <1>6 DEF TypeOK
      <3>3. \A i \in Cpus : table'[i] # 0 => ~private /\ client_count'[table'[i]] > 0
        BY <3>1, <3>2, <1>3, RebalancedTable
      <3> QED BY <3>3, <1>1 DEF TableInv
    <2>2. CASE ref_count > 0
      BY <2>2, <1>1, <1>5 DEF TableInv, TypeOK, Chans
    <2> QED BY <2>1, <2>2 DEF RefInv
  <1>12. UsingInv'
    BY <1>1, <1>2, <1>5 DEF UsingInv, TypeOK, Users, Chans
  <1> QED BY <1>6, <1>7, <1>8, <1>9, <1>10, <1>11, <1>12

\* A shared user gives its reference back.
LEMMA PutStep ==
  ASSUME IInv, NEW u \in ShUsers, stop_policy_sh(u)
  PROVE  IInv'
  <1> USE DEF IInv
  <1>1. /\ ref_count' = ref_count - 1
        /\ client_count' = IF listed /\ ~private THEN [c \in Chans |-> Put(c)]
                           ELSE client_count
        /\ modref' = [c \in Chans |-> modref[c] + client_count'[c] - client_count[c]]
        /\ UNCHANGED <<private, privatecnt, listed, driver, table>>
    BY DEF stop_policy_sh, dmaengine_put
  <1>2. /\ pc[u] = "on" /\ using[u] = 0 /\ pc' = [pc EXCEPT ![u] = "uncounting"]
        /\ UNCHANGED <<copy_ref_count, percpu_chan, next_cpu, using>>
    BY DEF stop_policy_sh, Goto
  <1>3. client_count' \in [Chans -> Nat]
    BY <1>1 DEF TypeOK, Put
  <1>4. \A c \in Chans : listed /\ ~private => client_count'[c] = Put(c)
    BY <1>1
  <1>5. TypeOK'
    <2>1. pc' \in [Users -> {"off", "counting", "on", "uncounting", "requesting", "releasing"}]
      BY <1>2 DEF TypeOK, Users
    <2>2. modref' \in [Chans -> Int]
      BY <1>1, <1>3 DEF TypeOK
    <2> QED BY <1>1, <1>2, <1>3, <2>1, <2>2 DEF TypeOK, RefInv
  <1>6. Holders' = Holders \ {u} /\ u \in Holders
    BY <1>2 DEF Holders, TypeOK, Users
  <1>7. RefInv'
    BY <1>6, <1>1, HoldersChange DEF RefInv, RefsCounted
  <1>8. CountsBalanced'
    <2>1. CASE private
      BY <2>1, <1>1 DEF CountsBalanced
    <2>2. CASE ~private /\ listed
      BY <2>2, <1>1, <1>4 DEF CountsBalanced, Put, RefInv, TypeOK
    <2>3. CASE ~private /\ ~listed
      BY <2>3, <1>1 DEF CountsBalanced, DriverInv, DriverHeld
    <2> QED BY <2>1, <2>2, <2>3
  <1>9. DriverInv'
    <2>1. modref' = client_count'
      BY <1>1, <1>3 DEF DriverInv, DriverHeld, TypeOK
    <2>2. driver' # "live" => \A c \in Chans : client_count'[c] = 0
      BY <1>1, <1>4 DEF DriverInv, DriverHeld, Put, TypeOK
    <2> QED BY <2>1, <2>2, <1>1 DEF DriverInv, DriverHeld
  <1>10. PrivateInv'
    <2>1. private => Clients' = Clients /\ client_count' = client_count
      BY <1>1 DEF Clients
    <2> QED BY <2>1, <1>1, <1>2 DEF PrivateInv
  <1>11. ASSUME NEW c \in Chans, ~private, client_count[c] > 0, ref_count' > 0
         PROVE  client_count'[c] > 0
    BY <1>11, <1>1, <1>4 DEF CountsBalanced, Put, RefInv, TypeOK
  <1>12. TableInv'
    <2> SUFFICES ASSUME ref_count' > 0, NEW i \in Cpus, table'[i] # 0
                 PROVE  ~private' /\ client_count'[table'[i]] > 0
      BY DEF TableInv
    <2>1. table[i] \in Chans /\ ref_count > 0
      BY <1>1 DEF TypeOK, Chans, RefInv
    <2>2. ~private /\ client_count[table[i]] > 0
      BY <2>1, <1>1 DEF TableInv
    <2> QED BY <2>1, <2>2, <1>1, <1>11
  <1>13. UsingInv'
    <2> SUFFICES ASSUME NEW v \in ShUsers, using'[v] # 0
                 PROVE  pc'[v] = "on" /\ ~private' /\ client_count'[using'[v]] > 0
      BY DEF UsingInv
    <2>1. v # u /\ pc'[v] = "on"
      BY <1>2 DEF UsingInv, TypeOK, Users
    <2>2. v \in Holders'
      BY <2>1 DEF Holders
    <2>3. ref_count' > 0
      <3>1. IsFiniteSet(Holders')
        BY FS_Subset, UsersAssumption DEF Holders
      <3> QED BY <3>1, <2>2, <1>7, FS_EmptySet DEF RefInv, RefsCounted
    <2>4. using[v] \in Chans /\ ~private /\ client_count[using[v]] > 0
      BY <1>2 DEF UsingInv, TypeOK, Users, Chans
    <2> QED BY <2>1, <2>3, <2>4, <1>1, <1>2, <1>11
  <1> QED BY <1>5, <1>7, <1>8, <1>9, <1>10, <1>12, <1>13

\* An exclusive user goes on to the next cpu, or to the place after its loop.
LEMMA AdvanceStep ==
  ASSUME TypeOK, NEW u \in ExUsers, NEW last \in {"on", "off"}, Advance(u, last)
  PROVE  /\ pc' \in [Users -> {"off", "counting", "on", "uncounting", "requesting", "releasing"}]
         /\ next_cpu' \in [Users -> Cpus]
         /\ \A v \in ShUsers : pc'[v] = pc[v]
  <1>1. u \in Users /\ next_cpu[u] \in Cpus
    BY DEF TypeOK, Users
  <1>2. 1 \in Cpus
    BY SizesAssumption DEF Cpus
  <1>3. CASE next_cpu[u] = NumCpus
    BY <1>1, <1>2, <1>3, UsersAssumption DEF Advance, Goto, TypeOK, Users
  <1>4. CASE next_cpu[u] # NumCpus
    <2>1. next_cpu[u] + 1 \in Cpus
      BY <1>1, <1>4, SizesAssumption DEF Cpus
    <2>2. next_cpu' = [next_cpu EXCEPT ![u] = next_cpu[u] + 1] /\ pc' = pc
      BY <1>4 DEF Advance
    <2> QED BY <2>1, <2>2, <1>1 DEF TypeOK
  <1> QED BY <1>3, <1>4

\* An exclusive user gets a channel of its own.
LEMMA AcquireStep ==
  ASSUME IInv, NEW u \in ExUsers, request_channel(u)
  PROVE  IInv'
  <1> USE DEF IInv
  <1> DEFINE c == Candidate
  <1>1. /\ c # 0 /\ driver = "live" /\ pc[u] = "requesting"
        /\ client_count' = [client_count EXCEPT ![c] = 1]
        /\ modref' = [modref EXCEPT ![c] = @ + 1]
        /\ private' = TRUE /\ privatecnt' = privatecnt + 1
        /\ percpu_chan' = [percpu_chan EXCEPT ![next_cpu[u]] = c]
        /\ UNCHANGED <<listed, driver, refs, table, using>>
    BY DEF request_channel, Acquire
  <1>2. c \in Chans /\ client_count[c] = 0 /\ listed
        /\ (~private => \A d \in Chans : client_count[d] = 0)
    BY <1>1, CandidateUnused
  <1> HIDE DEF c
  <1>3. /\ pc' \in [Users -> {"off", "counting", "on", "uncounting", "requesting", "releasing"}]
        /\ next_cpu' \in [Users -> Cpus]
        /\ \A v \in ShUsers : pc'[v] = pc[v]
    BY AdvanceStep DEF request_channel
  <1>4. TypeOK'
    <2>1. c \in 0..NumChans
      BY <1>2 DEF Chans
    <2>2. percpu_chan' \in [Cpus -> 0..NumChans]
      BY <1>1, <2>1 DEF TypeOK
    <2>3. client_count' \in [Chans -> Nat] /\ modref' \in [Chans -> Int]
      BY <1>1, <1>2 DEF TypeOK
    <2> QED BY <1>3, <2>2, <2>3, <1>1 DEF TypeOK, refs, PrivateInv
  <1>5. \A v \in ShUsers : pc'[v] = pc[v]
    BY <1>3
  <1>6. RefInv'
    <2>1. Holders' = Holders
      BY <1>5 DEF Holders
    <2> QED BY <2>1, <1>1 DEF RefInv, RefsCounted, refs
  <1>7. CountsBalanced'
    BY <1>1, <1>2 DEF CountsBalanced, TypeOK
  <1>8. DriverInv'
    BY <1>1, <1>2 DEF DriverInv, DriverHeld, TypeOK
  <1>9. PrivateInv'
    <2>1. Clients' = Clients \union {c} /\ c \notin Clients
      BY <1>1, <1>2 DEF Clients, TypeOK
    <2>2. Cardinality(Clients') = Cardinality(Clients) + 1
      BY <2>1, ClientsFinite, FS_AddElement
    <2>3. privatecnt = Cardinality(Clients)
      <3>1. CASE private
        BY <3>1 DEF PrivateInv
      <3>2. CASE ~private
        <4>1. Clients = {}
          BY <3>2, <1>2 DEF Clients
        <4> QED BY <4>1, <3>2, FS_EmptySet DEF PrivateInv
      <3> QED BY <3>1, <3>2
    <2>4. \A i \in Cpus : percpu_chan[i] # 0 => percpu_chan[i] \in Chans /\ percpu_chan[i] # c
      BY <1>2 DEF PrivateInv, TypeOK, Chans
    <2>5. next_cpu[u] \in Cpus
      BY DEF TypeOK, Users
    <2>6. \A i \in Cpus : percpu_chan'[i] = IF i = next_cpu[u] THEN c ELSE percpu_chan[i]
      BY <1>1 DEF TypeOK
    <2>7. ASSUME NEW i \in Cpus, percpu_chan'[i] # 0
          PROVE  /\ client_count'[percpu_chan'[i]] = 1
                 /\ \A j \in Cpus \ {i} : percpu_chan'[j] # percpu_chan'[i]
      <3>1. CASE i = next_cpu[u]
        <4>1. client_count'[c] = 1
          BY <1>1, <1>2 DEF TypeOK
        <4>2. c # 0
          BY <1>2, SizesAssumption DEF Chans
        <4> QED BY <3>1, <2>4, <2>6, <4>1, <4>2
      <3>2. CASE i # next_cpu[u]
        <4>1. percpu_chan'[i] = percpu_chan[i] /\ percpu_chan[i] # c /\ percpu_chan[i] \in Chans
          BY <3>2, <2>7, <2>4, <2>6
        <4>2. client_count'[percpu_chan[i]] = client_count[percpu_chan[i]]
          BY <4>1, <1>1 DEF TypeOK
        <4>3. client_count[percpu_chan[i]] = 1
              /\ \A j \in Cpus \ {i} : percpu_chan[j] # percpu_chan[i]
          BY <2>7, <4>1 DEF PrivateInv
        <4> QED BY <4>1, <4>2, <4>3, <2>6
      <3> QED BY <3>1, <3>2
    <2> QED BY <2>2, <2>3, <2>7, <1>1 DEF PrivateInv
  <1>10. TableInv'
    <2>1. \A i \in Cpus : table[i] # 0 => table[i] \in Chans
      BY DEF TypeOK, Chans
    <2>2. ref_count > 0 => \A i \in Cpus : table[i] = 0
      BY <2>1, <1>2 DEF TableInv
    <2> QED BY <2>2, <1>1 DEF TableInv, refs
  <1>11. UsingInv'
    <2>1. \A v \in ShUsers : using[v] # 0 => using[v] \in Chans
      BY DEF TypeOK, Chans, Users
    <2>2. \A v \in ShUsers : using[v] = 0
      BY <2>1, <1>2 DEF UsingInv
    <2> QED BY <2>2, <1>1 DEF UsingInv
  <1> QED BY <1>4, <1>6, <1>7, <1>8, <1>9, <1>10, <1>11

\* A round of the loop that releases the exclusive channels.
LEMMA ReleaseStep ==
  ASSUME IInv, NEW u \in ExUsers, release_chan_excl(u)
  PROVE  IInv'
  <1> USE DEF IInv
  <1> DEFINE i == next_cpu[u]
             c == percpu_chan[i]
  <1>1. i \in Cpus /\ UNCHANGED <<driver, refs, table, using>>
    BY DEF release_chan_excl, TypeOK, Users
  <1>3. /\ pc' \in [Users -> {"off", "counting", "on", "uncounting", "requesting", "releasing"}]
        /\ next_cpu' \in [Users -> Cpus]
        /\ \A v \in ShUsers : pc'[v] = pc[v]
    BY AdvanceStep DEF release_chan_excl
  <1>4. \A v \in ShUsers : pc'[v] = pc[v]
    BY <1>3
  <1>5. Holders' = Holders
    BY <1>4 DEF Holders
  <1>6. CASE c = 0
    <2>1. UNCHANGED <<device, modref, percpu_chan>>
      BY <1>6 DEF release_chan_excl
    <2>2. TypeOK'
      BY <2>1, <1>1, <1>3 DEF TypeOK, device, refs
    <2>3. DriverInv'
      BY <2>1, <1>1 DEF DriverInv, DriverHeld, device
    <2> QED BY <2>1, <2>2, <2>3, <1>1, <1>4, <1>5, QuietStep DEF device, refs, UsingInv
  <1>7. CASE c # 0
    <2>1. /\ client_count' = [client_count EXCEPT ![c] = Put(c)]
          /\ modref' = [modref EXCEPT ![c] = IF client_count[c] = 0 THEN @ ELSE @ - 1]
          /\ privatecnt' = privatecnt - 1
          /\ private' = IF privatecnt - 1 = 0 THEN FALSE ELSE private
          /\ percpu_chan' = [percpu_chan EXCEPT ![i] = 0]
          /\ UNCHANGED listed
      BY <1>7 DEF release_chan_excl, Release
    <2>2. /\ c \in Chans /\ private /\ client_count[c] = 1
          /\ \A j \in Cpus \ {i} : percpu_chan[j] # c
      BY <1>1, <1>7 DEF PrivateInv, TypeOK, Chans
    <2>3. \A j \in Cpus : percpu_chan'[j] = IF j = i THEN 0 ELSE percpu_chan[j]
      BY <2>1 DEF TypeOK
    <2> HIDE DEF i, c
    <2>4. \A d \in Chans : client_count'[d] = IF d = c THEN 0 ELSE client_count[d]
      BY <2>1, <2>2 DEF TypeOK, Put
    <2>5. client_count' \in [Chans -> Nat]
      BY <2>1, <2>2 DEF TypeOK, Put
    <2>6. Clients' = Clients \ {c} /\ c \in Clients
      BY <2>2, <2>4 DEF Clients
    <2>7. /\ IsFiniteSet(Clients') /\ Cardinality(Clients') \in Nat
          /\ Cardinality(Clients') = Cardinality(Clients) - 1
      BY <2>6, ClientsFinite, FS_RemoveElement, FS_CardinalityType
    <2>8. privatecnt' = Cardinality(Clients') /\ privatecnt' \in Nat
      BY <2>1, <2>2, <2>7 DEF PrivateInv
    <2>9. ~private' => \A d \in Chans : client_count'[d] = 0
      <3>1. ~private' => Clients' = {}
        BY <2>1, <2>2, <2>7, <2>8, FS_EmptySet
      <3> QED BY <3>1, <2>5 DEF Clients
    <2>10. TypeOK'
      <3>1. modref' \in [Chans -> Int]
        BY <2>1, <2>2 DEF TypeOK
      <3>2. percpu_chan' \in [Cpus -> 0..NumChans]
        <4>1. 0 \in 0..NumChans
          BY SizesAssumption
        <4> QED BY <4>1, <2>1 DEF TypeOK
      <3> QED BY <3>1, <3>2, <2>1, <2>2, <2>5, <1>1, <1>3 DEF TypeOK, refs
    <2>11. RefInv'
      BY <1>1, <1>5 DEF RefInv, RefsCounted, refs
    <2>12. CountsBalanced'
      BY <2>1, <2>2, <2>4, <2>9 DEF CountsBalanced
    <2>13. DriverInv'
      BY <2>1, <2>2, <2>4, <2>5, <1>1 DEF DriverInv, DriverHeld, TypeOK, Put
    <2>14. PrivateInv'
      <3>1. private' <=> privatecnt' > 0
        <4>1. privatecnt - 1 = 0 => ~private' /\ ~(privatecnt' > 0)
          BY <2>1
        <4>2. privatecnt - 1 # 0 => private'
          <5>1. private' = IF privatecnt - 1 = 0 THEN FALSE ELSE private
            BY <2>1
          <5>2. private
            BY <2>2
          <5> QED BY <5>1, <5>2, Zenon
        <4>3. privatecnt - 1 # 0 => privatecnt' > 0
          <5>1. privatecnt' = privatecnt - 1 /\ privatecnt \in Int
            BY <2>1 DEF TypeOK
          <5>2. privatecnt' \in Nat
            BY <2>8
          <5> HIDE DEF IInv
          <5> QED BY <5>1, <5>2, SMT
        <4> QED BY <4>1, <4>2, <4>3
      <3>2. ASSUME NEW j \in Cpus, percpu_chan'[j] # 0
            PROVE  /\ private' /\ client_count'[percpu_chan'[j]] = 1
                   /\ \A k \in Cpus \ {j} : percpu_chan'[k] # percpu_chan'[j]
        <4>1. j # i /\ percpu_chan'[j] = percpu_chan[j]
          BY <3>2, <2>3
        <4>2. percpu_chan[j] # c /\ percpu_chan[j] \in Chans
          BY <3>2, <4>1, <2>2 DEF TypeOK, Chans
        <4>3. client_count[percpu_chan[j]] = 1
              /\ \A k \in Cpus \ {j} : percpu_chan[k] # percpu_chan[j]
          BY <3>2, <4>1 DEF PrivateInv
        <4>4. client_count'[percpu_chan'[j]] = 1
          BY <4>1, <4>2, <4>3, <2>4
        <4>5. private'
          BY <4>4, <4>1, <4>2, <2>9
        <4> QED BY <3>2, <4>1, <4>3, <4>4, <4>5, <2>3
      <3> QED BY <3>1, <3>2, <2>8 DEF PrivateInv
    <2>15. TableInv'
      BY <2>2, <1>1 DEF TableInv, refs
    <2>16. UsingInv'
      BY <2>2, <1>1 DEF UsingInv
    <2> QED BY <2>10, <2>11, <2>12, <2>13, <2>14, <2>15, <2>16
  <1> QED BY <1>6, <1>7

\* A request that fails, which may drop a driver that goes from the list.
LEMMA RefuseStep ==
  ASSUME IInv, NEW u \in ExUsers, request_fails(u)
  PROVE  IInv'
  <1> USE DEF IInv
  <1>1. /\ listed' = (listed /\ (Candidate = 0 \/ driver = "live"))
        /\ private' = IF Candidate # 0 /\ privatecnt = 0 THEN FALSE ELSE private
        /\ pc' = [pc EXCEPT ![u] = "releasing"]
        /\ next_cpu' = [next_cpu EXCEPT ![u] = 1]
        /\ UNCHANGED <<client_count, modref, privatecnt, driver, refs, table, percpu_chan, using>>
    BY DEF request_fails, Refuse, Goto
  <1>2. UNCHANGED private
    <2>1. privatecnt = 0 => ~private
      BY DEF PrivateInv
    <2>2. private = FALSE \/ private = TRUE
      BY DEF TypeOK
    <2> QED BY <2>1, <2>2, <1>1, Zenon
  <1>3. TypeOK'
    <2>1. pc' \in [Users -> {"off", "counting", "on", "uncounting", "requesting", "releasing"}]
      BY <1>1 DEF TypeOK
    <2>2. next_cpu' \in [Users -> Cpus]
      <3>1. 1 \in Cpus
        BY SizesAssumption DEF Cpus
      <3> QED BY <3>1, <1>1 DEF TypeOK
    <2> QED BY <2>1, <2>2, <1>1, <1>2 DEF TypeOK, refs
  <1>4. \A v \in ShUsers : pc'[v] = pc[v]
    BY <1>1, UsersAssumption DEF TypeOK, Users
  <1>5. Holders' = Holders
    BY <1>4 DEF Holders
  <1>6. DriverInv'
    BY <1>1 DEF DriverInv, DriverHeld
  <1>7. \A v \in ShUsers : using'[v] # 0 =>
          pc'[v] = "on" /\ ~private /\ client_count[using'[v]] > 0
    BY <1>1, <1>4 DEF UsingInv
  <1> QED BY <1>1, <1>2, <1>3, <1>5, <1>6, <1>7, QuietStep DEF refs

\* A device that registers takes references for the clients that wait.
LEMMA RegisterStep ==
  ASSUME IInv, device_register
  PROVE  IInv'
  <1> USE DEF IInv
  <1>1. PICK fails \in Failures :
          LET count == [c \in Chans |-> IF ref_count = 0 \/ c \in fails THEN 0 ELSE ref_count]
          IN  /\ driver = "absent"
              /\ driver' = "live" /\ listed' = TRUE
              /\ private' = FALSE /\ privatecnt' = 0
              /\ client_count' = count /\ modref' = count
              /\ table' = Rebalanced(TRUE, FALSE, count, ref_count)
              /\ UNCHANGED <<refs, percpu_chan, users>>
    BY Zenon DEF device_register
  <1>2. /\ client_count' = [c \in Chans |-> IF ref_count = 0 \/ c \in fails THEN 0 ELSE ref_count]
        /\ modref' = client_count' /\ driver = "absent" /\ driver' = "live" /\ listed' = TRUE
        /\ private' = FALSE /\ privatecnt' = 0
        /\ table' = Rebalanced(TRUE, FALSE, client_count', ref_count)
        /\ UNCHANGED <<refs, percpu_chan, users>>
    BY <1>1
  <1>3. client_count' \in [Chans -> Nat] /\ \A c \in Chans : client_count'[c] \in {0, ref_count}
    BY <1>2 DEF RefInv
  <1>4. /\ table' \in [Cpus -> 0..NumChans]
        /\ \A i \in Cpus : table'[i] # 0 => client_count'[table'[i]] > 0
    <2>1. ref_count \in Nat /\ TRUE \in BOOLEAN /\ FALSE \in BOOLEAN
      BY DEF RefInv
    <2> QED BY <2>1, <1>2, <1>3, RebalancedTable
  <1>5. \A c \in Chans : client_count[c] = 0
    BY <1>2 DEF DriverInv, DriverHeld
  <1>6. TypeOK'
    <2>1. modref' \in [Chans -> Int]
      BY <1>2, <1>3
    <2>2. private' \in BOOLEAN /\ listed' \in BOOLEAN
      BY <1>2, Zenon
    <2>4. privatecnt' \in Int /\ driver' \in {"live", "going", "absent"}
      BY <1>2
    <2>3. UNCHANGED <<ref_count, copy_ref_count, percpu_chan, pc, next_cpu, using>>
      BY <1>2 DEF refs, users
    <2> QED BY <2>1, <2>2, <2>3, <2>4, <1>3, <1>4 DEF TypeOK
  <1>7. RefInv'
    <2>1. Holders' = Holders
      BY <1>2 DEF Holders, users
    <2> QED BY <2>1, <1>2 DEF RefInv, RefsCounted, refs
  <1>8. CountsBalanced'
    BY <1>2, <1>3 DEF CountsBalanced, refs
  <1>9. DriverInv'
    BY <1>2 DEF DriverInv, DriverHeld
  <1>10. PrivateInv'
    <2>1. \A i \in Cpus : percpu_chan[i] # 0 => percpu_chan[i] \in Chans
      BY DEF TypeOK, Chans
    <2>2. \A i \in Cpus : percpu_chan[i] = 0
      BY <2>1, <1>5 DEF PrivateInv
    <2> QED BY <2>2, <1>2 DEF PrivateInv
  <1>11. TableInv'
    BY <1>2, <1>4 DEF TableInv
  <1>12. UsingInv'
    <2>1. \A v \in ShUsers : using[v] # 0 => using[v] \in Chans
      BY DEF TypeOK, Chans, Users
    <2>2. \A v \in ShUsers : using[v] = 0
      BY <2>1, <1>5 DEF UsingInv
    <2> QED BY <2>2, <1>2 DEF UsingInv, users
  <1> QED BY <1>6, <1>7, <1>8, <1>9, <1>10, <1>11, <1>12

\* The driver's module goes, and its device is unregistered.
LEMMA UnloadStep ==
  ASSUME IInv, delete_module \/ device_unregister
  PROVE  IInv'
  <1> USE DEF IInv
  <1>1. UNCHANGED <<client_count, private, privatecnt, modref, refs, percpu_chan, users>>
    BY DEF delete_module, device_unregister, device
  <1>2. driver' \in {"going", "absent"} /\ listed' \in BOOLEAN
        /\ (delete_module => UNCHANGED <<listed, table>>)
    BY DEF delete_module, device_unregister, device, TypeOK
  <1>3. table' \in [Cpus -> 0..NumChans] /\ \A i \in Cpus : table'[i] \in {0, table[i]}
    <2>1. CASE delete_module
      BY <2>1, <1>2 DEF TypeOK
    <2>2. CASE device_unregister
      <3>1. 0 \in 0..NumChans
        BY SizesAssumption
      <3> QED BY <2>2, <3>1 DEF device_unregister
    <2> QED BY <2>1, <2>2
  <1>4. TypeOK'
    BY <1>1, <1>2, <1>3 DEF TypeOK, refs, users
  <1>5. Holders' = Holders
    BY <1>1 DEF Holders, users
  <1>6. DriverInv'
    <2>1. \A c \in Chans : client_count[c] = 0
      <3>1. CASE delete_module
        BY <3>1 DEF delete_module, DriverInv, DriverHeld
      <3>2. CASE device_unregister
        BY <3>2 DEF device_unregister, DriverInv, DriverHeld
      <3> QED BY <3>1, <3>2
    <2> QED BY <2>1, <1>1, <1>2 DEF DriverInv, DriverHeld
  <1>7. \A v \in ShUsers : using'[v] # 0 =>
          pc'[v] = "on" /\ ~private /\ client_count[using'[v]] > 0
    BY <1>1 DEF UsingInv, users
  <1> QED BY <1>1, <1>3, <1>4, <1>5, <1>6, <1>7, QuietStep DEF refs

\* The steps that neither take nor give back a reference or a channel.
LEMMA UserStep ==
  ASSUME IInv,
         \/ \E u \in ShUsers : copy_dmaengine_get(u) \/ copy_dmaengine_put(u)
                               \/ \E i \in Cpus : copy_sh(u, i)
         \/ \E u \in ExUsers : start_policy_excl(u) \/ stop_policy_excl(u)
                               \/ \E i \in Cpus : copy_excl(u, i)
         \/ \E u \in Users : copy_done(u)
  PROVE  IInv'
  <1> USE DEF IInv
  <1> SUFFICES ASSUME NEW u \in Users,
                      \/ u \in ShUsers /\ copy_dmaengine_get(u)
                      \/ u \in ShUsers /\ copy_dmaengine_put(u)
                      \/ u \in ShUsers /\ \E i \in Cpus : copy_sh(u, i)
                      \/ u \in ExUsers /\ start_policy_excl(u)
                      \/ u \in ExUsers /\ stop_policy_excl(u)
                      \/ u \in ExUsers /\ \E i \in Cpus : copy_excl(u, i)
                      \/ copy_done(u)
               PROVE  IInv'
    BY Zenon DEF Users
  <1>1. UNCHANGED <<device, module, ref_count, table>>
    BY DEF copy_dmaengine_get, copy_dmaengine_put, copy_sh, start_policy_excl,
           stop_policy_excl, copy_excl, copy_done, refs
  <1>2. /\ copy_ref_count' \in Int
        /\ pc' \in [Users -> {"off", "counting", "on", "uncounting", "requesting", "releasing"}]
    BY DEF copy_dmaengine_get, copy_dmaengine_put, copy_sh, start_policy_excl,
           stop_policy_excl, copy_excl, copy_done, refs, Goto, TypeOK
  <1>3. next_cpu' \in [Users -> Cpus]
    <2>1. next_cpu' \in {next_cpu, [next_cpu EXCEPT ![u] = 1]}
      BY DEF copy_dmaengine_get, copy_dmaengine_put, copy_sh, start_policy_excl,
             stop_policy_excl, copy_excl, copy_done
    <2>2. 1 \in Cpus
      BY SizesAssumption DEF Cpus
    <2> QED BY <2>1, <2>2 DEF TypeOK
  <1>4. /\ percpu_chan' \in [Cpus -> 0..NumChans]
        /\ \A i \in Cpus : percpu_chan'[i] \in {0, percpu_chan[i]}
    <2>1. percpu_chan' \in {percpu_chan, [i \in Cpus |-> 0]}
      BY DEF copy_dmaengine_get, copy_dmaengine_put, copy_sh, start_policy_excl,
             stop_policy_excl, copy_excl, copy_done
    <2>2. 0 \in 0..NumChans
      BY SizesAssumption
    <2> QED BY <2>1, <2>2 DEF TypeOK
  <1>5. using' \in [Users -> 0..NumChans]
    <2>1. \/ using' = using
          \/ \E n \in 0..NumChans : using' = [using EXCEPT ![u] = n]
      <3>1. 0 \in 0..NumChans /\ \A i \in Cpus : {table[i], percpu_chan[i]} \subseteq 0..NumChans
        BY SizesAssumption DEF TypeOK
      <3>2. CASE copy_done(u)
        BY <3>1, <3>2, Zenon DEF copy_done
      <3>3. CASE \E i \in Cpus : copy_sh(u, i) \/ copy_excl(u, i)
        BY <3>1, <3>3 DEF copy_sh, copy_excl
      <3> QED BY <3>2, <3>3 DEF copy_dmaengine_get, copy_dmaengine_put,
                                start_policy_excl, stop_policy_excl
    <2> QED BY <2>1 DEF TypeOK
  <1>6. TypeOK'
    BY <1>1, <1>2, <1>3, <1>4, <1>5 DEF TypeOK, device, module
  <1>7. DriverInv'
    BY <1>1 DEF DriverInv, DriverHeld, device, module
  <1>8. \A v \in ShUsers : \/ pc'[v] = pc[v]
                           \/ pc[v] = "counting" /\ pc'[v] = "on"
                           \/ pc[v] = "uncounting" /\ pc'[v] = "off"
    BY UsersAssumption
       DEF copy_dmaengine_get, copy_dmaengine_put, copy_sh, start_policy_excl,
           stop_policy_excl, copy_excl, copy_done, Goto, TypeOK, Users
  <1>9. Holders' = Holders
    BY <1>8 DEF Holders
  <1>10. ASSUME NEW v \in ShUsers, using'[v] # 0
         PROVE  pc'[v] = "on" /\ ~private /\ client_count[using'[v]] > 0
    <2>1. v \in Users
      BY DEF Users
    <2>2. CASE using'[v] = using[v]
      BY <2>2, <1>10, <1>8 DEF UsingInv
    <2>3. CASE using'[v] # using[v]
      <3>1. PICK i \in Cpus : copy_sh(v, i)
        BY <2>1, <2>3, <1>10, UsersAssumption
           DEF copy_dmaengine_get, copy_dmaengine_put, copy_sh, start_policy_excl,
               stop_policy_excl, copy_excl, copy_done, TypeOK
      <3>2. v \in Holders
        BY <3>1 DEF copy_sh, Holders
      <3>3. ref_count > 0
        BY <3>2, HoldersChange
      <3>4. using'[v] = table[i] /\ pc' = pc /\ pc[v] = "on"
        BY <2>1, <3>1 DEF copy_sh, TypeOK
      <3> QED BY <3>3, <3>4, <1>10 DEF TableInv
    <2> QED BY <2>2, <2>3
  <1> QED BY <1>1, <1>4, <1>6, <1>7, <1>9, <1>10, QuietStep DEF device

\* The invariant holds at first.
LEMMA InitInv ==
  ASSUME Init
  PROVE  IInv
  <1> USE DEF Init
  <1>1. 0 \in 0..NumChans /\ 1 \in Cpus
    BY SizesAssumption DEF Cpus
  <1>2. TypeOK
    <2>1. private \in BOOLEAN /\ listed \in BOOLEAN
      BY Zenon
    <2>2. /\ client_count \in [Chans -> Nat] /\ modref \in [Chans -> Int]
          /\ privatecnt \in Int /\ ref_count \in Int /\ copy_ref_count \in Int
          /\ driver \in {"live", "going", "absent"}
      OBVIOUS
    <2>3. /\ table \in [Cpus -> 0..NumChans] /\ percpu_chan \in [Cpus -> 0..NumChans]
          /\ using \in [Users -> 0..NumChans] /\ next_cpu \in [Users -> Cpus]
      BY <1>1
    <2>4. pc \in [Users -> {"off", "counting", "on", "uncounting", "requesting", "releasing"}]
      OBVIOUS
    <2> QED BY <2>1, <2>2, <2>3, <2>4 DEF TypeOK
  <1>3. Holders = {}
    BY DEF Holders, Users
  <1>4. RefInv
    BY <1>3, FS_EmptySet DEF RefInv, RefsCounted
  <1>5. CountsBalanced /\ TableInv /\ UsingInv
    BY DEF CountsBalanced, TableInv, UsingInv, Users
  <1>6. DriverInv /\ PrivateInv
    BY DEF DriverInv, DriverHeld, PrivateInv
  <1> QED BY <1>2, <1>4, <1>5, <1>6 DEF IInv

\* Every step keeps the invariant.
LEMMA NextInv ==
  ASSUME IInv, [Next]_vars
  PROVE  IInv'
  <1>1. CASE \E u \in ShUsers : start_policy_sh(u)
    BY <1>1, GetStep
  <1>2. CASE \E u \in ShUsers : stop_policy_sh(u)
    BY <1>2, PutStep
  <1>3. CASE \E u \in ExUsers : request_channel(u)
    BY <1>3, AcquireStep
  <1>4. CASE \E u \in ExUsers : request_fails(u)
    BY <1>4, RefuseStep
  <1>5. CASE \E u \in ExUsers : release_chan_excl(u)
    BY <1>5, ReleaseStep
  <1>6. CASE \/ \E u \in ShUsers : copy_dmaengine_get(u) \/ copy_dmaengine_put(u)
                                   \/ \E i \in Cpus : copy_sh(u, i)
             \/ \E u \in ExUsers : start_policy_excl(u) \/ stop_policy_excl(u)
                                   \/ \E i \in Cpus : copy_excl(u, i)
             \/ \E u \in Users : copy_done(u)
    BY <1>6, UserStep
  <1>7. CASE delete_module \/ device_unregister
    BY <1>7, UnloadStep
  <1>8. CASE device_register
    BY <1>8, RegisterStep
  <1>9. CASE UNCHANGED vars
    <2>1. TypeOK'
      BY <1>9 DEF IInv, TypeOK, vars, device, module, refs, users
    <2>2. DriverInv'
      BY <1>9 DEF IInv, DriverInv, DriverHeld, vars, device, module
    <2>3. Holders' = Holders
      BY <1>9 DEF Holders, vars, users
    <2> QED BY <2>1, <2>2, <2>3, <1>9, QuietStep
            DEF IInv, UsingInv, vars, device, refs, users
  <1> QED BY <1>1, <1>2, <1>3, <1>4, <1>5, <1>6, <1>7, <1>8, <1>9, Zenon DEF Next

\* The inductive invariant holds in every reachable state.
LEMMA Invariant == Spec => []IInv
  BY InitInv, NextInv, PTL DEF Spec

-----------------------------------------------------------------------------
\* References are balanced, for any number of channels, cpus and users: a policy
\* that stops gives back to each channel what it took when it started, and
\* dmaengine_ref_count is the number of the shared users that hold a reference, so
\* the BUG_ON of dmaengine_put does not fire.
THEOREM Balanced == Spec => []RefsBalanced
  <1>1. IInv => RefsBalanced
    BY DEF IInv, RefInv, RefsBalanced
  <1> QED BY <1>1, Invariant, PTL

\* The driver is not removed under a client of its channels.
THEOREM Held == Spec => []DriverHeld
  <1>1. IInv => DriverHeld
    BY DEF IInv, DriverInv
  <1> QED BY <1>1, Invariant, PTL

\* An exclusive channel has no other user, even when several modules start the
\* exclusive policy, which loses track of channels but shares none.
THEOREM Exclusive == Spec => []ExclusiveHeld
  <1>1. IInv => ExclusiveHeld
    BY DEF IInv, PrivateInv, UsingInv, ExclusiveHeld
  <1> QED BY <1>1, Invariant, PTL

\* When one module uses the exclusive policy, its copies run on channels that
\* percpu_chan_copy still holds.
ExUsingInv == \A u \in ExUsers : using[u] # 0 =>
  pc[u] = "on" /\ \E i \in Cpus : percpu_chan[i] = using[u]

\* Every step keeps that.
LEMMA ExUsingStep ==
  ASSUME \A u, v \in ExUsers : u = v, IInv, ExUsingInv, [Next]_vars
  PROVE  ExUsingInv'
  <1> SUFFICES ASSUME NEW u \in ExUsers, using'[u] # 0
               PROVE  pc'[u] = "on" /\ \E i \in Cpus : percpu_chan'[i] = using'[u]
    BY DEF ExUsingInv
  <1>1. u \in Users /\ u \notin ShUsers
    BY UsersAssumption DEF Users
  <1>2. CASE \E i \in Cpus : copy_excl(u, i)
    <2>1. PICK i \in Cpus : copy_excl(u, i)
      BY <1>2
    <2>2. using'[u] = percpu_chan[i] /\ percpu_chan' = percpu_chan /\ pc' = pc /\ pc[u] = "on"
      BY <2>1, <1>1 DEF copy_excl, IInv, TypeOK
    <2> QED BY <2>2
  <1>3. ASSUME using'[u] = using[u], pc'[u] = pc[u], percpu_chan' = percpu_chan
        PROVE  pc'[u] = "on" /\ \E i \in Cpus : percpu_chan'[i] = using'[u]
    BY <1>3 DEF ExUsingInv
  <1>4. ASSUME using'[u] = using[u] PROVE pc[u] = "on" /\ using[u] # 0
    BY <1>4 DEF ExUsingInv
  <1>5. CASE \E w \in ShUsers : \/ start_policy_sh(w) \/ copy_dmaengine_get(w)
                                \/ stop_policy_sh(w) \/ copy_dmaengine_put(w)
                                \/ \E i \in Cpus : copy_sh(w, i)
    <2>1. using'[u] = using[u] /\ pc'[u] = pc[u] /\ percpu_chan' = percpu_chan
      BY <1>1, <1>5 DEF start_policy_sh, copy_dmaengine_get, stop_policy_sh,
                        copy_dmaengine_put, copy_sh, Goto, IInv, TypeOK
    <2> QED BY <2>1, <1>3
  <1>6. CASE \E w \in ExUsers : \/ start_policy_excl(w) \/ request_channel(w)
                                \/ request_fails(w) \/ stop_policy_excl(w)
                                \/ release_chan_excl(w)
    <2>1. \/ start_policy_excl(u) \/ request_channel(u) \/ request_fails(u)
          \/ stop_policy_excl(u) \/ release_chan_excl(u)
      BY <1>6
    <2>2. using'[u] = using[u] /\ (pc[u] # "on" \/ using[u] = 0)
      BY <2>1 DEF start_policy_excl, request_channel, request_fails,
                  stop_policy_excl, release_chan_excl
    <2> QED BY <2>2, <1>4
  <1>7. CASE \E w \in Users : copy_done(w)
    <2>1. PICK w \in Users : copy_done(w)
      BY <1>7
    <2>2. w # u
      BY <2>1, <1>1 DEF copy_done, IInv, TypeOK
    <2>3. using'[u] = using[u] /\ pc' = pc /\ percpu_chan' = percpu_chan
      BY <2>1, <2>2, <1>1 DEF copy_done, IInv, TypeOK
    <2> QED BY <2>3, <1>3
  <1>8. CASE delete_module \/ device_unregister \/ device_register \/ UNCHANGED vars
    <2>1. UNCHANGED <<using, pc, percpu_chan>>
      BY <1>8 DEF delete_module, device_unregister, device_register, vars, users
    <2> QED BY <2>1, <1>3
  <1>9. ASSUME NEW w \in ExUsers, NEW i \in Cpus, copy_excl(w, i)
        PROVE  copy_excl(u, i)
    BY <1>9
  <1> QED BY <1>2, <1>5, <1>6, <1>7, <1>8, <1>9, Zenon DEF Next

\* The channel a copy looked up without a lock keeps its resources until the copy
\* ends, when no more than one module uses the exclusive policy.
THEOREM Usable ==
  ASSUME \A u, v \in ExUsers : u = v
  PROVE  Spec => []ChannelUsable
  <1>1. Init => ExUsingInv
    BY DEF Init, ExUsingInv, Users
  <1>2. IInv /\ ExUsingInv /\ [Next]_vars => ExUsingInv'
    BY ExUsingStep
  <1>3. IInv /\ ExUsingInv => ChannelUsable
    <2> SUFFICES ASSUME IInv, ExUsingInv, NEW u \in Users, using[u] # 0
                 PROVE  client_count[using[u]] > 0
      BY DEF ChannelUsable
    <2>1. CASE u \in ShUsers
      BY <2>1 DEF IInv, UsingInv
    <2>2. CASE u \in ExUsers
      <3>1. PICK i \in Cpus : percpu_chan[i] = using[u]
        BY <2>2 DEF ExUsingInv
      <3>2. client_count[percpu_chan[i]] = 1
        BY <3>1 DEF IInv, PrivateInv
      <3> QED BY <3>1, <3>2
    <2> QED BY <2>1, <2>2 DEF Users
  <1> QED BY <1>1, <1>2, <1>3, Invariant, PTL DEF Spec

-----------------------------------------------------------------------------
\* Where one module uses the exclusive policy, privatecnt counts the channels that
\* percpu_chan_copy holds: none when the policy is off, those of the cpus before the
\* next one while it requests, those from the next one on while it releases.
Known == {i \in Cpus : percpu_chan[i] # 0}
KnownInv ==
  /\ privatecnt = Cardinality(Known)
  /\ \A u \in ExUsers :
       /\ pc[u] = "off" => \A i \in Cpus : percpu_chan[i] = 0
       /\ pc[u] = "requesting" => \A i \in Cpus : i >= next_cpu[u] => percpu_chan[i] = 0
       /\ pc[u] = "releasing" => \A i \in Cpus : i < next_cpu[u] => percpu_chan[i] = 0

\* The cpus with an exclusive channel can be counted, and the count follows a
\* channel that is requested or released.
LEMMA KnownChange ==
  /\ IsFiniteSet(Known) /\ Cardinality(Known) \in Nat
  /\ \A i : i \notin Known => Cardinality(Known \union {i}) = Cardinality(Known) + 1
  /\ \A i \in Known : Cardinality(Known \ {i}) = Cardinality(Known) - 1
  <1>1. IsFiniteSet(Cpus)
    BY FS_Interval, SizesAssumption DEF Cpus
  <1>2. IsFiniteSet(Known)
    <2>1. Known \in SUBSET Cpus
      BY DEF Known
    <2> QED BY <1>1, <2>1, FS_Subset
  <1> QED BY <1>2, FS_CardinalityType, FS_AddElement, FS_RemoveElement

\* The next cpu, and what comes after the last one.
LEMMA AdvanceNext ==
  ASSUME IInv, NEW u \in ExUsers, NEW last, Advance(u, last)
  PROVE  \/ /\ next_cpu[u] = NumCpus /\ pc'[u] = last /\ next_cpu'[u] = 1
         \/ /\ next_cpu[u] # NumCpus /\ pc' = pc /\ next_cpu'[u] = next_cpu[u] + 1
  BY DEF Advance, Goto, IInv, TypeOK, Users

\* A step of the exclusive policy keeps the count.
LEMMA KnownStep ==
  ASSUME \A u, v \in ExUsers : u = v, IInv, KnownInv, NEW u \in ExUsers,
         \/ start_policy_excl(u) \/ request_channel(u) \/ request_fails(u)
         \/ stop_policy_excl(u) \/ release_chan_excl(u)
  PROVE  KnownInv'
  <1>1. /\ u \in Users /\ percpu_chan \in [Cpus -> 0..NumChans] /\ next_cpu[u] \in Cpus
        /\ pc \in [Users -> {"off", "counting", "on", "uncounting", "requesting", "releasing"}]
        /\ next_cpu \in [Users -> Cpus] /\ \A c \in Cpus : c \in Int /\ 1 <= c /\ c <= NumCpus
        /\ NumCpus \in Nat \ {0}
    BY SizesAssumption DEF IInv, TypeOK, Users, Cpus
  <1>2. SUFFICES /\ privatecnt' = Cardinality(Known')
                 /\ pc'[u] = "off" => \A i \in Cpus : percpu_chan'[i] = 0
                 /\ pc'[u] = "requesting" => \A i \in Cpus : i >= next_cpu'[u] => percpu_chan'[i] = 0
                 /\ pc'[u] = "releasing" => \A i \in Cpus : i < next_cpu'[u] => percpu_chan'[i] = 0
    BY DEF KnownInv
  <1>3. CASE start_policy_excl(u)
    <2>1. pc[u] = "off" /\ percpu_chan' = [i \in Cpus |-> 0] /\ pc'[u] = "requesting"
          /\ privatecnt' = privatecnt
      BY <1>1, <1>3 DEF start_policy_excl, Goto, device
    <2>2. Known' = Known
      BY <2>1 DEF KnownInv, Known
    <2> QED BY <2>1, <2>2 DEF KnownInv
  <1>4. CASE request_channel(u)
    <2> DEFINE n == next_cpu[u]
    <2>1. /\ pc[u] = "requesting" /\ Candidate # 0 /\ privatecnt' = privatecnt + 1
          /\ percpu_chan' = [percpu_chan EXCEPT ![n] = Candidate] /\ Advance(u, "on")
      BY <1>4 DEF request_channel, Acquire
    <2>2. \A i \in Cpus : percpu_chan'[i] = IF i = n THEN Candidate ELSE percpu_chan[i]
      BY <1>1, <2>1
    <2>3. \A i \in Cpus : i >= n => percpu_chan[i] = 0
      BY <2>1 DEF KnownInv
    <2>4. n \notin Known /\ Known' = Known \union {n}
      BY <1>1, <2>1, <2>2, <2>3 DEF Known
    <2>5. privatecnt' = Cardinality(Known')
      BY <2>1, <2>4, KnownChange DEF KnownInv
    <2>6. CASE n = NumCpus
      <3>1. pc'[u] = "on"
        BY <2>1, <2>6, AdvanceNext
      <3> QED BY <2>5, <3>1
    <2>7. CASE n # NumCpus
      <3>1. pc'[u] = "requesting" /\ next_cpu'[u] = n + 1
        BY <2>1, <2>7, AdvanceNext
      <3>2. \A i \in Cpus : i >= n + 1 => i # n /\ i >= n
        BY <1>1
      <3> QED BY <2>2, <2>3, <2>5, <3>1, <3>2
    <2> QED BY <2>6, <2>7
  <1>5. CASE request_fails(u) \/ stop_policy_excl(u)
    <2>1. pc'[u] = "releasing" /\ next_cpu'[u] = 1 /\ UNCHANGED <<privatecnt, percpu_chan>>
      BY <1>1, <1>5 DEF request_fails, stop_policy_excl, Refuse, Goto, device
    <2>2. Known' = Known
      BY <2>1 DEF Known
    <2> QED BY <1>1, <2>1, <2>2 DEF KnownInv
  <1>6. CASE release_chan_excl(u)
    <2> DEFINE n == next_cpu[u]
    <2>1. /\ pc[u] = "releasing" /\ Advance(u, "off")
          /\ percpu_chan' = [percpu_chan EXCEPT ![n] = 0]
          /\ privatecnt' = IF percpu_chan[n] # 0 THEN privatecnt - 1 ELSE privatecnt
      BY <1>1, <1>6 DEF release_chan_excl, Release, device
    <2>2. \A i \in Cpus : percpu_chan'[i] = IF i = n THEN 0 ELSE percpu_chan[i]
      BY <1>1, <2>1
    <2>3. \A i \in Cpus : i < n => percpu_chan[i] = 0
      BY <2>1 DEF KnownInv
    <2>4. Known' = Known \ {n}
      BY <1>1, <2>2 DEF Known
    <2>5. privatecnt' = Cardinality(Known')
      <3>1. CASE n \in Known
        BY <2>1, <2>4, <3>1, KnownChange DEF KnownInv, Known
      <3>2. CASE n \notin Known
        <4>1. Known' = Known
          BY <2>4, <3>2
        <4> QED BY <1>1, <2>1, <3>2, <4>1 DEF KnownInv, Known
      <3> QED BY <3>1, <3>2
    <2>6. \A i \in Cpus : i < n + 1 => percpu_chan'[i] = 0
      <3>1. \A i \in Cpus : i < n + 1 => i = n \/ i < n
        BY <1>1
      <3> QED BY <2>2, <2>3, <3>1
    <2>7. CASE n = NumCpus
      <3>1. pc'[u] = "off" /\ \A i \in Cpus : i < n + 1
        BY <1>1, <2>1, <2>7, AdvanceNext
      <3> QED BY <2>5, <2>6, <3>1
    <2>8. CASE n # NumCpus
      <3>1. pc'[u] = "releasing" /\ next_cpu'[u] = n + 1
        BY <2>1, <2>8, AdvanceNext
      <3> QED BY <2>5, <2>6, <3>1
    <2> QED BY <2>7, <2>8
  <1> QED BY <1>3, <1>4, <1>5, <1>6

\* No private channel is lost, when no more than one module uses the exclusive
\* policy: privatecnt is the number of channels percpu_chan_copy holds, and the
\* device is private only while it holds one, whatever requests failed.
THEOREM NotLeaked ==
  ASSUME \A u, v \in ExUsers : u = v
  PROVE  Spec => []NoneLeaked
  <1>1. Init => KnownInv
    <2> SUFFICES ASSUME Init PROVE KnownInv
      OBVIOUS
    <2>1. Known = {}
      BY DEF Init, Known
    <2> QED BY <2>1, FS_EmptySet DEF Init, KnownInv, Users
  <1>2. ASSUME IInv, KnownInv, [Next]_vars
        PROVE  KnownInv'
    <2>1. CASE \E u \in ExUsers : \/ start_policy_excl(u) \/ request_channel(u) \/ request_fails(u)
                                  \/ stop_policy_excl(u) \/ release_chan_excl(u)
      BY <1>2, <2>1, KnownStep
    <2>2. CASE device_register
      <3>1. UNCHANGED <<percpu_chan, pc, next_cpu>> /\ privatecnt' = 0 /\ driver = "absent"
        BY <2>2 DEF device_register, users
      <3>2. \A i \in Cpus : percpu_chan[i] # 0 => percpu_chan[i] \in Chans
        BY <1>2 DEF IInv, TypeOK, Chans
      <3>3. Known = {}
        BY <1>2, <3>1, <3>2 DEF Known, IInv, PrivateInv, DriverInv, DriverHeld
      <3>4. Known' = Known
        BY <3>1 DEF Known
      <3> QED BY <1>2, <3>1, <3>3, <3>4, FS_EmptySet DEF KnownInv
    <2>3. ASSUME UNCHANGED <<percpu_chan, privatecnt, next_cpu>>,
                 \A u \in ExUsers : pc'[u] = pc[u]
          PROVE  KnownInv'
      <3>1. Known' = Known
        BY <2>3 DEF Known
      <3> QED BY <1>2, <2>3, <3>1 DEF KnownInv
    <2>4. CASE \E u \in ShUsers : \/ start_policy_sh(u) \/ copy_dmaengine_get(u)
                                  \/ stop_policy_sh(u) \/ copy_dmaengine_put(u)
      <3>1. UNCHANGED <<percpu_chan, privatecnt, next_cpu>>
        BY <2>4 DEF start_policy_sh, copy_dmaengine_get, stop_policy_sh, copy_dmaengine_put,
                    dmaengine_get, dmaengine_put, device
      <3>2. \A u \in ExUsers : pc'[u] = pc[u]
        BY <1>2, <2>4, UsersAssumption
           DEF start_policy_sh, copy_dmaengine_get, stop_policy_sh, copy_dmaengine_put,
               Goto, IInv, TypeOK, Users
      <3> QED BY <2>3, <3>1, <3>2
    <2>5. CASE \/ \E u \in ShUsers : \E i \in Cpus : copy_sh(u, i)
               \/ \E u \in ExUsers : \E i \in Cpus : copy_excl(u, i)
               \/ \E u \in Users : copy_done(u)
               \/ delete_module \/ device_unregister \/ UNCHANGED vars
      <3>1. UNCHANGED <<percpu_chan, privatecnt, next_cpu, pc>>
        BY <2>5 DEF copy_sh, copy_excl, copy_done, delete_module, device_unregister,
                    vars, device, users
      <3> QED BY <2>3, <3>1
    <2> QED BY <1>2, <2>1, <2>2, <2>4, <2>5, Zenon DEF Next
  <1>3. IInv /\ KnownInv => NoneLeaked
    BY DEF IInv, PrivateInv, KnownInv, NoneLeaked, Known
  <1> QED BY <1>1, <1>2, <1>3, Invariant, PTL DEF Spec
=============================================================================

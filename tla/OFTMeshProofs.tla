----------------------------- MODULE OFTMeshProofs -----------------------------
(***************************************************************************)
(* Theorems about OFTMesh for every number of chains, wallets and messages *)
(* and every amount: nothing is created or lost between the chains, the    *)
(* hub covers what is outstanding, and the mesh implements the one ledger  *)
(* of OmnichainLedger.                                                     *)
(***************************************************************************)
EXTENDS OFTMesh, Arithmetic

\* A message.
Packet == [src : Chains, dst : Chains, to : Holders \union {Nobody},
           amount : 0..MaxShared]

-----------------------------------------------------------------------------
(* Balances and supplies.                                                  *)

\* Balances are natural numbers, and so are their sums, which bound them.
LEMMA MeshValues ==
    ASSUME TypeOK
    PROVE  /\ IsFiniteSet(Chains) /\ IsFiniteSet(Holders)
           /\ \A c \in Chains :
                 /\ balances[c] \in [Holders -> Nat] /\ Supply(c) \in Nat
                 /\ \A h \in Holders : /\ balances[c][h] \in Nat
                                       /\ balances[c][h] <= Supply(c)
           /\ \A S \in SUBSET Chains :
                 /\ IsFiniteSet(S) /\ SupplyOf(S) \in Nat
                 /\ \A c \in S : Supply(c) <= SupplyOf(S)
  <1>1. IsFiniteSet(Chains) /\ IsFiniteSet(Holders)
    <2>1. IsFiniteSet(Wallets \union {Adapter})
      BY OFTMeshAssumption, FS_AddElement
    <2>2. IsFiniteSet((Wallets \union {Adapter}) \union {Dead})
      BY <2>1, FS_AddElement
    <2>3. Holders = (Wallets \union {Adapter}) \union {Dead}
      BY DEF Holders
    <2> QED
      BY <2>2, <2>3, OFTMeshAssumption
  <1>2. ASSUME NEW c \in Chains
        PROVE  /\ balances[c] \in [Holders -> Nat] /\ Supply(c) \in Nat
               /\ \A h \in Holders : /\ balances[c][h] \in Nat
                                     /\ balances[c][h] <= Supply(c)
    <2>1. balances[c] \in [Holders -> Nat]
      BY DEF TypeOK
    <2>2. Supply(c) = SumFunctionOnSet(balances[c], Holders)
      BY <2>1 DEF Supply, SumFunction
    <2> QED
      BY <1>1, <2>1, <2>2, SumNat, SumBounds
  <1>3. ASSUME NEW S \in SUBSET Chains
        PROVE  /\ IsFiniteSet(S) /\ SupplyOf(S) \in Nat
               /\ \A c \in S : Supply(c) <= SupplyOf(S)
    <2> DEFINE supplies == [c \in Chains |-> Supply(c)]
    <2>1. IsFiniteSet(S)
      BY <1>1, FS_Subset
    <2>2. \A c \in S : supplies[c] = Supply(c) /\ supplies[c] \in Nat
      BY <1>2
    <2>3. SupplyOf(S) = SumFunctionOnSet(supplies, S)
      BY DEF SupplyOf
    <2> HIDE DEF supplies
    <2> QED
      BY <2>1, <2>2, <2>3, SumNat, SumBounds
  <1> QED
    BY <1>1, <1>2, <1>3

\* A chain on which the balances add up to d more has so much more supply, and
\* the other chains have what they had.
LEMMA RowChanges ==
    ASSUME TypeOK, NEW c \in Chains, NEW row \in [Holders -> Nat],
           NEW d \in Int, SumFunction(row) = Supply(c) + d,
           balances' = [balances EXCEPT ![c] = row]
    PROVE  /\ balances' \in [Chains -> [Holders -> Nat]]
           /\ \A e \in Chains : Supply(e)' = IF e = c THEN Supply(e) + d
                                                      ELSE Supply(e)
           /\ \A S \in SUBSET Chains :
                 SupplyOf(S)' = IF c \in S THEN SupplyOf(S) + d
                                           ELSE SupplyOf(S)
  <1>1. /\ balances' \in [Chains -> [Holders -> Nat]]
        /\ balances'[c] = row
        /\ \A e \in Chains \ {c} : balances'[e] = balances[e]
    BY DEF TypeOK
  <1>2. ASSUME NEW e \in Chains
        PROVE  Supply(e)' = IF e = c THEN Supply(e) + d ELSE Supply(e)
    <2>1. Supply(e)' = SumFunction(balances'[e])
      BY DEF Supply
    <2>2. Supply(e) = SumFunction(balances[e])
      BY DEF Supply
    <2> QED
      BY <1>1, <2>1, <2>2
  <1>3. SumFunction(row) \in Nat
    <2>1. SumFunction(row) = SumFunctionOnSet(row, Holders)
      BY DEF SumFunction
    <2> QED
      BY <2>1, MeshValues, SumNat
  <1>4. ASSUME NEW S \in SUBSET Chains
        PROVE  SupplyOf(S)' = IF c \in S THEN SupplyOf(S) + d ELSE SupplyOf(S)
    <2> DEFINE f == [e \in Chains |-> Supply(e)]
               g == [e \in Chains |-> Supply(e)']
    <2>1. SupplyOf(S) = SumFunctionOnSet(f, S)
      BY DEF SupplyOf
    <2>2. SupplyOf(S)' = SumFunctionOnSet(g, S)
      BY DEF SupplyOf
    <2>3. /\ \A e \in S \ {c} : g[e] = f[e]
          /\ \A e \in S : f[e] \in Nat /\ g[e] \in Nat
          /\ IsFiniteSet(S) /\ SupplyOf(S) \in Nat
      BY <1>2, <1>3, MeshValues
    <2>4. c \in S => f[c] = Supply(c) /\ g[c] = Supply(c) + d
      BY <1>2
    <2> HIDE DEF f, g
    <2>5. CASE c \in S
      <3>1. SumFunctionOnSet(g, S) = (SumFunctionOnSet(f, S) - f[c]) + g[c]
        <4>1. /\ IsFiniteSet(S)
              /\ \A x \in S : f[x] \in Nat /\ g[x] \in Nat
              /\ \A x \in S \ {c} : g[x] = f[x]
          BY <2>3
        <4> QED
          <5>1. \A p, q : (/\ \A x \in S : p[x] \in Nat /\ q[x] \in Nat
                           /\ \A x \in S \ {c} : q[x] = p[x])
                  => SumFunctionOnSet(q, S) = (SumFunctionOnSet(p, S) - p[c]) + q[c]
            BY <4>1, <2>5, SumShift
          <5> QED
            BY <5>1, <4>1
      <3>2. Supply(c) \in Nat
        BY MeshValues
      <3> QED
        BY <2>1, <2>2, <2>3, <2>4, <2>5, <3>1, <3>2
    <2>6. CASE c \notin S
      <3>1. \A e \in S : f[e] = g[e]
        BY <2>3, <2>6
      <3> QED
        BY <2>1, <2>2, <2>3, <2>6, <3>1, SumAgree
    <2> QED
      BY <2>5, <2>6
  <1> QED
    BY <1>1, <1>2, <1>4

\* A credit or a debit of one account.
LEMMA EntryEffect ==
    ASSUME TypeOK, NEW c \in Chains, NEW h \in Holders, NEW d \in Int,
           balances[c][h] + d >= 0,
           balances' = [balances EXCEPT ![c] =
                           [balances[c] EXCEPT ![h] = balances[c][h] + d]]
    PROVE  /\ balances' \in [Chains -> [Holders -> Nat]]
           /\ \A e \in Chains : Supply(e)' = IF e = c THEN Supply(e) + d
                                                      ELSE Supply(e)
           /\ \A S \in SUBSET Chains :
                 SupplyOf(S)' = IF c \in S THEN SupplyOf(S) + d
                                           ELSE SupplyOf(S)
           /\ \A e \in Chains, x \in Holders :
                 balances'[e][x] = IF e = c /\ x = h THEN balances[e][x] + d
                                                     ELSE balances[e][x]
  <1> DEFINE row == [balances[c] EXCEPT ![h] = balances[c][h] + d]
  <1>1. /\ balances[c] \in [Holders -> Nat] /\ balances[c][h] + d \in Nat
        /\ IsFiniteSet(Holders) /\ Supply(c) \in Nat /\ balances[c][h] \in Nat
    BY MeshValues
  <1>2. /\ row \in [Holders -> Nat]
        /\ \A x \in Holders : row[x] = IF x = h THEN balances[c][x] + d
                                                ELSE balances[c][x]
    BY <1>1
  <1>3. SumFunction(row) =
           (SumFunction(balances[c]) - balances[c][h]) + (balances[c][h] + d)
    BY <1>1, SumUpdate
  <1>4. Supply(c) = SumFunction(balances[c])
    BY DEF Supply
  <1>5. balances' = [balances EXCEPT ![c] = row]
    OBVIOUS
  <1> HIDE DEF row
  <1>6. SumFunction(row) = Supply(c) + d
    BY <1>1, <1>3, <1>4
  <1>7. \A e \in Chains, x \in Holders :
           balances'[e][x] = IF e = c /\ x = h THEN balances[e][x] + d
                                               ELSE balances[e][x]
    BY <1>2, <1>5 DEF TypeOK
  <1> QED
    BY <1>2, <1>5, <1>6, <1>7, RowChanges

\* A payment moves an amount on one chain, and no supply changes.
LEMMA MovedEffect ==
    ASSUME TypeOK, NEW c \in Chains, NEW from \in Holders, NEW to \in Holders,
           NEW amount \in Nat, balances[c][from] >= amount,
           balances' = Moved(c, from, to, amount)
    PROVE  /\ balances' \in [Chains -> [Holders -> Nat]]
           /\ \A e \in Chains : Supply(e)' = Supply(e)
           /\ \A S \in SUBSET Chains : SupplyOf(S)' = SupplyOf(S)
           /\ \A e \in Chains, x \in Holders :
                 balances'[e][x] =
                    IF e = c /\ from # to /\ x = from THEN balances[e][x] - amount
                    ELSE IF e = c /\ from # to /\ x = to THEN balances[e][x] + amount
                    ELSE balances[e][x]
  <1> DEFINE old == balances[c]
             half == [old EXCEPT ![from] = old[from] - amount]
             row == [half EXCEPT ![to] = half[to] + amount]
  <1>1. /\ old \in [Holders -> Nat] /\ old[from] \in Nat /\ old[from] >= amount
        /\ IsFiniteSet(Holders) /\ Supply(c) \in Nat
        /\ balances \in [Chains -> [Holders -> Nat]]
    BY MeshValues DEF TypeOK
  <1>2. balances' = [balances EXCEPT ![c] = row]
    BY DEF Moved
  <1>3. Supply(c) = SumFunction(old)
    BY DEF Supply
  <1> HIDE DEF old
  <1>4. /\ half \in [Holders -> Nat]
        /\ \A x \in Holders : half[x] = IF x = from THEN old[x] - amount
                                                    ELSE old[x]
    BY <1>1
  <1>5. /\ old[from] - amount \in Nat
        /\ SumFunction(half) = (SumFunction(old) - old[from])
                                  + (old[from] - amount)
    <2>1. old[from] - amount \in Nat
      BY <1>1
    <2> QED
      BY <1>1, <2>1, SumUpdate
  <1> HIDE DEF half
  <1>6. /\ row \in [Holders -> Nat]
        /\ \A x \in Holders : row[x] = IF x = to THEN half[x] + amount
                                                 ELSE half[x]
    BY <1>4
  <1>7. SumFunction(row) = (SumFunction(half) - half[to]) + (half[to] + amount)
    <2>1. half[to] + amount \in Nat
      BY <1>4
    <2> QED
      BY <1>1, <1>4, <2>1, SumUpdate
  <1> HIDE DEF row
  <1>8. SumFunction(row) = Supply(c) + 0
    BY <1>1, <1>3, <1>4, <1>5, <1>7
  <1>9. \A x \in Holders :
           row[x] = IF from # to /\ x = from THEN old[x] - amount
                    ELSE IF from # to /\ x = to THEN old[x] + amount
                    ELSE old[x]
    BY <1>1, <1>4, <1>6
  <1>10. \A e \in Chains, x \in Holders :
           balances'[e][x] = IF e = c THEN row[x] ELSE balances[e][x]
    BY <1>1, <1>2
  <1>11. /\ balances' \in [Chains -> [Holders -> Nat]]
         /\ \A e \in Chains : Supply(e)' = IF e = c THEN Supply(e) + 0
                                                    ELSE Supply(e)
         /\ \A S \in SUBSET Chains :
               SupplyOf(S)' = IF c \in S THEN SupplyOf(S) + 0 ELSE SupplyOf(S)
    <2>1. 0 \in Int
      OBVIOUS
    <2> QED
      BY <1>2, <1>6, <1>8, <2>1, RowChanges
  <1>12. /\ \A e \in Chains : Supply(e)' = Supply(e)
         /\ \A S \in SUBSET Chains : SupplyOf(S)' = SupplyOf(S)
    BY <1>11, MeshValues
  <1> QED
    BY <1>9, <1>10, <1>11, <1>12 DEF old

-----------------------------------------------------------------------------
(* Messages.                                                               *)

\* What is under way is finite, and adds up to a number.
LEMMA InFlightValues ==
    ASSUME TypeOK
    PROVE  /\ IsFiniteSet(InFlight) /\ InFlightAmount \in Nat
           /\ DOMAIN packets = 1..Len(packets) /\ Len(packets) \in Nat
           /\ \A i \in DOMAIN packets :
                 packets[i] \in Packet /\ packets[i].amount \in Nat
           /\ \A i \in InFlight : packets[i].amount <= InFlightAmount
  <1> DEFINE amounts == [i \in DOMAIN packets |-> packets[i].amount]
  <1>1. /\ packets \in Seq(Packet) /\ DOMAIN packets = 1..Len(packets)
        /\ Len(packets) \in Nat /\ MaxShared \in Nat
        /\ \A i \in DOMAIN packets : packets[i] \in Packet
    <2>1. packets \in Seq(Packet) /\ MaxShared \in Nat
      BY OFTMeshAssumption DEF TypeOK, Packet
    <2> QED
      BY <2>1
  <1>2. IsFiniteSet(InFlight)
    <2>1. IsFiniteSet(1..Len(packets))
      BY <1>1, FS_Interval
    <2>2. InFlight \in SUBSET (1..Len(packets))
      BY <1>1 DEF InFlight
    <2> QED
      BY <2>1, <2>2, FS_Subset
  <1>3. \A i \in DOMAIN packets : packets[i].amount \in Nat
    BY <1>1 DEF Packet
  <1>4. \A i \in InFlight : amounts[i] = packets[i].amount /\ amounts[i] \in Nat
    BY <1>3 DEF InFlight
  <1>5. InFlightAmount = SumFunctionOnSet(amounts, InFlight)
    BY DEF InFlightAmount
  <1> HIDE DEF amounts
  <1> QED
    BY <1>1, <1>2, <1>3, <1>4, <1>5, SumNat, SumBounds

\* A message that is sent is under way.
LEMMA SentIsInFlight ==
    ASSUME TypeOK, NEW p \in Packet, packets' = Append(packets, p),
           delivered' = delivered
    PROVE  /\ packets' \in Seq(Packet) /\ delivered' \subseteq DOMAIN packets'
           /\ Len(packets) + 1 \notin DOMAIN packets
           /\ packets'[Len(packets) + 1] = p
           /\ \A i \in DOMAIN packets : packets'[i] = packets[i]
           /\ InFlight' = InFlight \union {Len(packets) + 1}
           /\ InFlightAmount' = InFlightAmount + p.amount
  <1> DEFINE last == Len(packets) + 1
             f == [i \in DOMAIN packets |-> packets[i].amount]
             g == [i \in DOMAIN packets' |-> packets'[i].amount]
  <1>1. /\ packets \in Seq(Packet) /\ DOMAIN packets = 1..Len(packets)
        /\ Len(packets) \in Nat /\ delivered \subseteq DOMAIN packets
        /\ IsFiniteSet(InFlight) /\ InFlightAmount \in Nat
        /\ \A i \in DOMAIN packets : packets[i].amount \in Nat
    <2>1. packets \in Seq(Packet) /\ delivered \subseteq DOMAIN packets
      BY DEF TypeOK, Packet
    <2> QED
      BY <2>1, InFlightValues
  <1>2. /\ packets' \in Seq(Packet) /\ DOMAIN packets' = 1..last
        /\ packets'[last] = p /\ last \notin DOMAIN packets
        /\ \A i \in DOMAIN packets : packets'[i] = packets[i]
    BY <1>1
  <1>3. DOMAIN packets' = DOMAIN packets \union {last}
    BY <1>1, <1>2
  <1>4. InFlight' = InFlight \union {last} /\ last \notin InFlight
    BY <1>1, <1>2, <1>3 DEF InFlight
  <1>5. p.amount \in Nat
    BY OFTMeshAssumption DEF Packet
  <1>6. /\ InFlightAmount = SumFunctionOnSet(f, InFlight)
        /\ \A i \in InFlight : f[i] \in Nat /\ f[i] = packets[i].amount
    BY <1>1 DEF InFlightAmount, InFlight
  <1>7. InFlightAmount' = SumFunctionOnSet(g, InFlight \union {last})
    <2>1. InFlightAmount' = SumFunctionOnSet(g, InFlight')
      BY DEF InFlightAmount
    <2> QED
      BY <1>4, <2>1
  <1>8. g[last] = p.amount /\ \A i \in InFlight : g[i] = packets[i].amount
    BY <1>2, <1>3 DEF InFlight
  <1> HIDE DEF f, g, last
  <1>9. IsFiniteSet(InFlight \union {last})
        /\ (InFlight \union {last}) \ {last} = InFlight
        /\ \A i \in InFlight \union {last} : g[i] \in Nat
    BY <1>1, <1>4, <1>5, <1>6, <1>8, FS_AddElement
  <1>10. SumFunctionOnSet(g, InFlight \union {last})
           = g[last] + SumFunctionOnSet(g, InFlight)
    <2>1. \A S, q : (/\ IsFiniteSet(S) /\ last \in S
                     /\ \A i \in S : q[i] \in Nat)
             => SumFunctionOnSet(q, S) = q[last] + SumFunctionOnSet(q, S \ {last})
      BY SumRemove
    <2> QED
      BY <1>9, <2>1
  <1>11. SumFunctionOnSet(g, InFlight) = SumFunctionOnSet(f, InFlight)
    <2>1. \A S, q, r : (IsFiniteSet(S) /\ \A i \in S : q[i] = r[i])
             => SumFunctionOnSet(q, S) = SumFunctionOnSet(r, S)
      BY SumAgree
    <2> QED
      BY <1>1, <1>6, <1>8, <2>1
  <1>12. InFlightAmount' = InFlightAmount + p.amount
    BY <1>1, <1>5, <1>6, <1>7, <1>8, <1>10, <1>11
  <1>13. delivered' \subseteq DOMAIN packets'
    BY <1>1, <1>3
  <1> QED
    BY <1>2, <1>4, <1>12, <1>13 DEF last

\* A message that is executed no longer is.
LEMMA ReceivedIsNot ==
    ASSUME TypeOK, NEW i \in InFlight, packets' = packets,
           delivered' = delivered \union {i}
    PROVE  /\ delivered' \subseteq DOMAIN packets'
           /\ InFlight' = InFlight \ {i}
           /\ InFlightAmount' = InFlightAmount - packets[i].amount
  <1> DEFINE f == [j \in DOMAIN packets |-> packets[j].amount]
  <1>1. /\ delivered \subseteq DOMAIN packets /\ IsFiniteSet(InFlight)
        /\ InFlightAmount \in Nat
        /\ \A j \in DOMAIN packets : packets[j].amount \in Nat
    BY InFlightValues DEF TypeOK
  <1>2. InFlight' = InFlight \ {i} /\ delivered' \subseteq DOMAIN packets'
    BY <1>1 DEF InFlight
  <1>3. InFlightAmount = SumFunctionOnSet(f, InFlight)
    BY DEF InFlightAmount
  <1>4. InFlightAmount' = SumFunctionOnSet(f, InFlight')
    BY DEF InFlightAmount
  <1>5. f[i] = packets[i].amount /\ \A j \in InFlight : f[j] \in Nat
    BY <1>1 DEF InFlight
  <1> HIDE DEF f
  <1>6. SumFunctionOnSet(f, InFlight) = f[i] + SumFunctionOnSet(f, InFlight \ {i})
    BY <1>1, <1>5, SumRemove
  <1>7. SumFunctionOnSet(f, InFlight \ {i}) \in Nat
    BY <1>1, <1>5, SumNat, FS_RemoveElement
  <1>8. packets[i].amount \in Nat
    BY <1>1 DEF InFlight
  <1> QED
    BY <1>2, <1>3, <1>4, <1>5, <1>6, <1>7, <1>8

-----------------------------------------------------------------------------
(* What each call does to the two sides of the bridge.                     *)

\* The chains whose adapter mints and burns.
Spokes == Chains \ LockChains

\* There is one hub, or none.
LEMMA HubOrNone ==
    /\ LockChains = {} \/ \E hub \in Chains : LockChains = {hub}
    /\ LockChains = {} => Spokes = Chains
    /\ LockChains # {} => Issuers \subseteq LockChains
    /\ IsFiniteSet(LockChains) /\ LockChains \subseteq Chains
    /\ Issuers \subseteq Chains
  <1>1. IsFiniteSet(LockChains) /\ LockChains \in SUBSET Chains
    BY OFTMeshAssumption, FS_Subset
  <1>2. Cardinality(LockChains) = 0 \/ Cardinality(LockChains) = 1
    <2>1. Cardinality(LockChains) \in Nat /\ Cardinality(LockChains) <= 1
      BY <1>1, OFTMeshAssumption, FS_CardinalityType
    <2> QED
      BY <2>1
  <1>3. LockChains = {} \/ \E hub : LockChains = {hub}
    BY <1>1, <1>2, FS_EmptySet, FS_Singleton
  <1> QED
    BY <1>1, <1>3, OFTMeshAssumption DEF Spokes

\* An entry is changed in its row.
LEMMA EntryRow ==
    ASSUME TypeOK, NEW c \in Chains, NEW h \in Holders, NEW amount \in Nat
    PROVE  /\ [balances EXCEPT ![c][h] = @ + amount] =
                 [balances EXCEPT ![c] =
                     [balances[c] EXCEPT ![h] = balances[c][h] + amount]]
           /\ [balances EXCEPT ![c][h] = @ - amount] =
                 [balances EXCEPT ![c] =
                     [balances[c] EXCEPT ![h] = balances[c][h] + (-amount)]]
  <1>1. balances[c][h] - amount = balances[c][h] + (-amount)
    <2>1. balances[c][h] \in Nat
      BY MeshValues
    <2> QED
      BY <2>1
  <1> QED
    BY <1>1

\* The accounts and amounts that calls name.
LEMMA MeshArguments ==
    /\ Wallets \subseteq Holders /\ Adapter \in Holders /\ Adapter \notin Wallets
    /\ Amount \subseteq Nat /\ \A amount \in Amount : amount <= MaxIssued
    /\ {MaxShared, MaxIssued, MaxPackets, MaxOutages} \subseteq Nat
    /\ \A to \in Holders \union {Nobody} : Recipient(to) \in Holders
  BY OFTMeshAssumption DEF Holders, Amount, Recipient

\* The cast loses what does not fit, and no more.
LEMMA SharedAmount ==
    ASSUME NEW amount \in Amount
    PROVE  /\ ToShared(amount) \in 0..MaxShared /\ ToShared(amount) <= amount
           /\ MaxIssued <= MaxShared => ToShared(amount) = amount
  <1> DEFINE m == MaxShared + 1
  <1>1. /\ amount \in Nat /\ amount <= MaxIssued /\ m \in Nat \ {0}
        /\ MaxShared \in Nat /\ MaxIssued \in Nat /\ m = MaxShared + 1
    BY MeshArguments
  <1>0. ToShared(amount) = amount % m
    BY DEF ToShared
  <1> HIDE DEF m
  <1> DEFINE q == amount \div m
             r == amount % m
  <1>2. r \in Int /\ q \in Nat /\ amount = m * q + r /\ 0 <= r /\ r < m
    <2>1. q \in Nat
      BY <1>1, DivNat
    <2>2. r \in Int /\ amount = m * q + r /\ 0 <= r /\ r < m
      <3>1. amount \in Int
        BY <1>1
      <3> QED
        BY <1>1, <3>1, DivMod
    <2> QED
      BY <2>1, <2>2
  <1>3. ToShared(amount) = r
    BY <1>0
  <1>4. r <= MaxShared
    BY <1>1, <1>2
  <1> HIDE DEF q, r
  <1>5. m * q \in Nat /\ (q # 0 => m * q >= m)
    <2>1. q = 0 \/ q >= 1
      BY <1>2
    <2>2. q >= 1 => m * q >= m * 1
      BY <1>1, <1>2
    <2> QED
      BY <1>1, <1>2, <2>1, <2>2
  <1>6. m * 0 = 0
    BY <1>1
  <1>7. r <= amount
    BY <1>1, <1>2, <1>5
  <1>8. MaxIssued <= MaxShared => r = amount
    BY <1>1, <1>2, <1>5, <1>6
  <1> QED
    BY <1>2, <1>3, <1>4, <1>7, <1>8

\* A send takes the amount from its sender, or locks it, and what the message
\* can carry of it is under way.
LEMMA SendEffect ==
    ASSUME TypeOK, NEW c \in Chains, NEW wallet \in Wallets,
           NEW d \in Chains \ {c}, NEW to \in Holders \union {Nobody},
           NEW amount \in Amount, Send(c, wallet, d, to, amount)
    PROVE  /\ TypeOK' /\ issued' = issued
           /\ \A e \in LockChains : Supply(e)' = Supply(e)
           /\ Outstanding' = IF c \in LockChains
                             THEN Outstanding + ToShared(amount)
                             ELSE (Outstanding - amount) + ToShared(amount)
           /\ \A e \in Chains, x \in Holders :
                 balances'[e][x] =
                    IF e = c /\ x = wallet THEN balances[e][x] - amount
                    ELSE IF e = c /\ c \in LockChains /\ x = Adapter
                         THEN balances[e][x] + amount
                         ELSE balances[e][x]
  <1> DEFINE p == [src |-> c, dst |-> d, to |-> to, amount |-> ToShared(amount)]
  <1>1. /\ balances[c][wallet] >= amount /\ amount \in Nat /\ wallet \in Holders
        /\ wallet # Adapter /\ Adapter \in Holders
        /\ ToShared(amount) \in 0..MaxShared /\ MaxShared \in Nat
    BY MeshArguments, SharedAmount DEF Send
  <1>2. p \in Packet /\ p.amount = ToShared(amount)
    BY <1>1 DEF Packet
  <1>3. /\ packets' = Append(packets, p) /\ delivered' = delivered
        /\ issued' = issued
        /\ UNCHANGED <<frozen, paused, authorised, peers, outages>>
    BY DEF Send, configVars
  <1> HIDE DEF p
  <1>4. /\ packets' \in Seq(Packet) /\ delivered' \subseteq DOMAIN packets'
        /\ InFlightAmount' = InFlightAmount + ToShared(amount)
    BY <1>2, <1>3, SentIsInFlight
  <1>5. /\ balances' \in [Chains -> [Holders -> Nat]]
        /\ \A e \in LockChains : Supply(e)' = Supply(e)
        /\ SupplyOf(Spokes)' = IF c \in LockChains THEN SupplyOf(Spokes)
                               ELSE SupplyOf(Spokes) + (-amount)
        /\ \A e \in Chains, x \in Holders :
              balances'[e][x] =
                 IF e = c /\ x = wallet THEN balances[e][x] - amount
                 ELSE IF e = c /\ c \in LockChains /\ x = Adapter
                      THEN balances[e][x] + amount
                      ELSE balances[e][x]
    <2>1. CASE c \in LockChains
      <3>1. balances' = Moved(c, wallet, Adapter, amount)
        BY <2>1 DEF Send, BurnDebit, LockDebit
      <3> QED
        BY <1>1, <2>1, <3>1, MovedEffect, HubOrNone DEF Spokes
    <2>2. CASE c \notin LockChains
      <3>1. balances' = [balances EXCEPT ![c] =
               [balances[c] EXCEPT ![wallet] = balances[c][wallet] + (-amount)]]
        BY <1>1, <2>2, EntryRow DEF Send, BurnDebit, LockDebit
      <3>2. -amount \in Int /\ balances[c][wallet] + (-amount) >= 0
        BY <1>1, MeshValues
      <3> DEFINE less == -amount
      <3>3. /\ less \in Int /\ balances[c][wallet] + less >= 0
            /\ balances' = [balances EXCEPT ![c] =
                   [balances[c] EXCEPT ![wallet] = balances[c][wallet] + less]]
        BY <3>1, <3>2
      <3> HIDE DEF less
      <3>4. /\ balances' \in [Chains -> [Holders -> Nat]]
            /\ \A e \in Chains : Supply(e)' = IF e = c THEN Supply(e) + less
                                                       ELSE Supply(e)
            /\ \A S \in SUBSET Chains :
                  SupplyOf(S)' = IF c \in S THEN SupplyOf(S) + less
                                            ELSE SupplyOf(S)
            /\ \A e \in Chains, x \in Holders :
                  balances'[e][x] = IF e = c /\ x = wallet
                                    THEN balances[e][x] + less
                                    ELSE balances[e][x]
        BY <1>1, <3>3, EntryEffect
      <3>5. balances[c][wallet] + less = balances[c][wallet] - amount
        BY <1>1, MeshValues DEF less
      <3>6. /\ \A e \in LockChains : Supply(e)' = Supply(e)
            /\ SupplyOf(Spokes)' = SupplyOf(Spokes) + less
        BY <2>2, <3>4, HubOrNone DEF Spokes
      <3>7. \A e \in Chains, x \in Holders :
               balances'[e][x] = IF e = c /\ x = wallet
                                 THEN balances[e][x] - amount
                                 ELSE balances[e][x]
        BY <3>4, <3>5
      <3> QED
        BY <2>2, <3>4, <3>6, <3>7 DEF less
    <2> QED
      BY <2>1, <2>2
  <1>6. TypeOK'
    BY <1>3, <1>4, <1>5 DEF TypeOK, Packet
  <1>7. /\ Outstanding = SupplyOf(Spokes) + InFlightAmount
        /\ SupplyOf(Spokes) \in Nat /\ InFlightAmount \in Nat
    <2>1. Spokes \in SUBSET Chains
      BY DEF Spokes
    <2> QED
      BY <2>1, MeshValues, InFlightValues DEF Outstanding, Spokes
  <1>8. Outstanding' = SupplyOf(Spokes)' + InFlightAmount'
    BY DEF Outstanding, Spokes
  <1> DEFINE shared == ToShared(amount)
  <1>9. shared \in Nat
    BY <1>1
  <1> HIDE DEF shared
  <1>10. Outstanding' = IF c \in LockChains THEN Outstanding + shared
                        ELSE (Outstanding - amount) + shared
    BY <1>1, <1>4, <1>5, <1>7, <1>8, <1>9 DEF shared
  <1> QED
    BY <1>3, <1>5, <1>6, <1>10 DEF shared

\* What is outstanding is a number, and the sum of its two parts.
LEMMA OutstandingValue ==
    ASSUME TypeOK
    PROVE  /\ Outstanding = SupplyOf(Spokes) + InFlightAmount
           /\ SupplyOf(Spokes) \in Nat /\ InFlightAmount \in Nat
           /\ Outstanding \in Nat /\ Spokes \in SUBSET Chains
  <1>1. Spokes \in SUBSET Chains
    BY DEF Spokes
  <1> QED
    BY <1>1, MeshValues, InFlightValues DEF Outstanding, Spokes

\* A receipt credits what was under way: the spokes get what the messages
\* lose, and the hub pays it out of what it locks.
LEMMA ReceiveEffect ==
    ASSUME TypeOK, NEW i \in InFlight, Receive(i)
    PROVE  /\ TypeOK' /\ issued' = issued
           /\ \A e \in LockChains : Supply(e)' = Supply(e)
           /\ Outstanding' = IF packets[i].dst \in LockChains
                             THEN Outstanding - packets[i].amount
                             ELSE Outstanding
           /\ packets[i].dst \in LockChains =>
                 balances[packets[i].dst][Adapter] >= packets[i].amount
           /\ \A e \in Chains, x \in Holders :
                 balances'[e][x] =
                    IF /\ e = packets[i].dst /\ e \in LockChains
                       /\ Recipient(packets[i].to) # Adapter /\ x = Adapter
                    THEN balances[e][x] - packets[i].amount
                    ELSE IF /\ e = packets[i].dst /\ x = Recipient(packets[i].to)
                            /\ x # Adapter \/ e \notin LockChains
                         THEN balances[e][x] + packets[i].amount
                         ELSE balances[e][x]
  <1> DEFINE c == packets[i].dst
             to == Recipient(packets[i].to)
             amount == packets[i].amount
  <1>1. /\ c \in Chains /\ to \in Holders /\ amount \in Nat
        /\ Adapter \in Holders
    <2>1. packets[i] \in Packet /\ amount \in Nat
      BY InFlightValues DEF InFlight
    <2> QED
      BY <2>1, MeshArguments DEF Packet
  <1>2. /\ MintCredit(c, to, amount) \/ UnlockCredit(c, to, amount)
        /\ packets' = packets /\ delivered' = delivered \union {i}
        /\ issued' = issued
        /\ UNCHANGED <<frozen, paused, authorised, peers, outages>>
    BY DEF Receive, configVars
  <1>3. /\ delivered' \subseteq DOMAIN packets'
        /\ InFlightAmount' = InFlightAmount - amount
    BY <1>2, ReceivedIsNot
  <1> HIDE DEF c, to, amount
  <1>4. /\ balances' \in [Chains -> [Holders -> Nat]]
        /\ \A e \in LockChains : Supply(e)' = Supply(e)
        /\ SupplyOf(Spokes)' = IF c \in LockChains THEN SupplyOf(Spokes)
                               ELSE SupplyOf(Spokes) + amount
        /\ c \in LockChains => balances[c][Adapter] >= amount
        /\ \A e \in Chains, x \in Holders :
              balances'[e][x] =
                 IF e = c /\ e \in LockChains /\ to # Adapter /\ x = Adapter
                 THEN balances[e][x] - amount
                 ELSE IF e = c /\ x = to /\ (x # Adapter \/ e \notin LockChains)
                      THEN balances[e][x] + amount
                      ELSE balances[e][x]
    <2>1. CASE c \in LockChains
      <3>1. balances' = Moved(c, Adapter, to, amount)
            /\ balances[c][Adapter] >= amount
        BY <1>2, <2>1 DEF MintCredit, UnlockCredit
      <3> QED
        BY <1>1, <2>1, <3>1, MovedEffect, HubOrNone DEF Spokes
    <2>2. CASE c \notin LockChains
      <3>1. balances' = [balances EXCEPT ![c] =
               [balances[c] EXCEPT ![to] = balances[c][to] + amount]]
        BY <1>1, <1>2, <2>2, EntryRow DEF MintCredit, UnlockCredit
      <3>2. amount \in Int /\ balances[c][to] + amount >= 0
        BY <1>1, MeshValues
      <3>3. /\ balances' \in [Chains -> [Holders -> Nat]]
            /\ \A e \in Chains : Supply(e)' = IF e = c THEN Supply(e) + amount
                                                       ELSE Supply(e)
            /\ \A S \in SUBSET Chains :
                  SupplyOf(S)' = IF c \in S THEN SupplyOf(S) + amount
                                            ELSE SupplyOf(S)
            /\ \A e \in Chains, x \in Holders :
                  balances'[e][x] = IF e = c /\ x = to
                                    THEN balances[e][x] + amount
                                    ELSE balances[e][x]
        BY <1>1, <3>1, <3>2, EntryEffect
      <3> QED
        BY <1>1, <2>2, <3>3, HubOrNone DEF Spokes
    <2> QED
      BY <2>1, <2>2
  <1>5. TypeOK'
    BY <1>2, <1>3, <1>4 DEF TypeOK
  <1>6. Outstanding' = SupplyOf(Spokes)' + InFlightAmount'
    BY DEF Outstanding, Spokes
  <1>7. Outstanding' = IF c \in LockChains THEN Outstanding - amount
                                          ELSE Outstanding
    BY <1>1, <1>3, <1>4, <1>6, OutstandingValue
  <1> QED
    BY <1>2, <1>4, <1>5, <1>7 DEF c, to, amount

\* Where nothing is sent or received, what is outstanding is as much more as
\* the spokes have more.
LEMMA OutstandingBySupply ==
    ASSUME TypeOK, UNCHANGED <<packets, delivered>>, NEW d \in Int,
           SupplyOf(Spokes)' = SupplyOf(Spokes) + d
    PROVE  Outstanding' = Outstanding + d
  <1>1. InFlightAmount' = InFlightAmount
    BY DEF InFlightAmount, InFlight
  <1>2. Outstanding' = SupplyOf(Spokes)' + InFlightAmount'
    BY DEF Outstanding, Spokes
  <1> QED
    BY <1>1, <1>2, OutstandingValue

\* Issuers, on the hub if there is one, change the supply of their chain.
LEMMA IssueEffect ==
    ASSUME TypeOK, NEW c \in Chains, NEW wallet \in Wallets, NEW d \in Int,
           c \in Issuers, balances[c][wallet] + d >= 0,
           balances' = [balances EXCEPT ![c] =
                          [balances[c] EXCEPT ![wallet] = balances[c][wallet] + d]],
           UNCHANGED <<configVars, packets, delivered>>
    PROVE  /\ issued' \in 0..MaxIssued => TypeOK'
           /\ \A e \in Chains : Supply(e)' = IF e = c THEN Supply(e) + d
                                                      ELSE Supply(e)
           /\ Outstanding' = IF LockChains = {} THEN Outstanding + d
                                                ELSE Outstanding
           /\ \A e \in Chains, x \in Holders :
                 balances'[e][x] = IF e = c /\ x = wallet THEN balances[e][x] + d
                                                          ELSE balances[e][x]
  <1>1. wallet \in Holders
    BY MeshArguments
  <1>2. /\ balances' \in [Chains -> [Holders -> Nat]]
        /\ \A e \in Chains : Supply(e)' = IF e = c THEN Supply(e) + d
                                                   ELSE Supply(e)
        /\ \A S \in SUBSET Chains :
              SupplyOf(S)' = IF c \in S THEN SupplyOf(S) + d ELSE SupplyOf(S)
        /\ \A e \in Chains, x \in Holders :
              balances'[e][x] = IF e = c /\ x = wallet THEN balances[e][x] + d
                                                       ELSE balances[e][x]
    BY <1>1, EntryEffect
  <1>3. issued' \in 0..MaxIssued => TypeOK'
    BY <1>2 DEF TypeOK, configVars
  <1>4. CASE LockChains = {}
    <2>1. SupplyOf(Spokes)' = SupplyOf(Spokes) + d
      BY <1>2, <1>4, HubOrNone
    <2> QED
      BY <1>2, <1>3, <1>4, <2>1, OutstandingBySupply
  <1>5. CASE LockChains # {}
    <2>1. c \notin Spokes
      BY <1>5, HubOrNone DEF Spokes
    <2>2. SupplyOf(Spokes)' = SupplyOf(Spokes) + 0
      BY <1>2, <2>1, OutstandingValue
    <2>3. Outstanding' = Outstanding + 0
      <3>1. 0 \in Int
        OBVIOUS
      <3> QED
        BY <2>2, <3>1, OutstandingBySupply
    <2> QED
      BY <1>2, <1>3, <1>5, <2>3, OutstandingValue
  <1> QED
    BY <1>4, <1>5

\* Payments and recoveries leave every supply, and what is outstanding.
LEMMA PaymentEffect ==
    ASSUME TypeOK, NEW c \in Chains, NEW from \in Holders, NEW to \in Holders,
           NEW amount \in Nat, balances[c][from] >= amount,
           balances' = Moved(c, from, to, amount),
           UNCHANGED <<configVars, packets, delivered, issued>>
    PROVE  /\ TypeOK' /\ issued' = issued /\ Outstanding' = Outstanding
           /\ \A e \in LockChains : Supply(e)' = Supply(e)
           /\ \A e \in Chains, x \in Holders :
                 balances'[e][x] =
                    IF e = c /\ from # to /\ x = from THEN balances[e][x] - amount
                    ELSE IF e = c /\ from # to /\ x = to THEN balances[e][x] + amount
                    ELSE balances[e][x]
  <1>1. /\ balances' \in [Chains -> [Holders -> Nat]]
        /\ \A e \in Chains : Supply(e)' = Supply(e)
        /\ \A S \in SUBSET Chains : SupplyOf(S)' = SupplyOf(S)
        /\ \A e \in Chains, x \in Holders :
              balances'[e][x] =
                 IF e = c /\ from # to /\ x = from THEN balances[e][x] - amount
                 ELSE IF e = c /\ from # to /\ x = to THEN balances[e][x] + amount
                 ELSE balances[e][x]
    BY MovedEffect
  <1>2. TypeOK' /\ issued' = issued
    BY <1>1 DEF TypeOK, configVars
  <1>3. SupplyOf(Spokes)' = SupplyOf(Spokes) + 0
    BY <1>1, OutstandingValue
  <1>4. Outstanding' = Outstanding + 0
    <2>1. 0 \in Int
      OBVIOUS
    <2> QED
      BY <1>3, <2>1, OutstandingBySupply
  <1> QED
    BY <1>1, <1>2, <1>4, HubOrNone, OutstandingValue

\* Administrators change no amount.
LEMMA AdminEffect ==
    ASSUME TypeOK, FreezeStep \/ OutageStep
    PROVE  /\ TypeOK' /\ UNCHANGED <<tokenVars, packets, delivered>>
           /\ UNCHANGED <<balances, issued>>
  <1>1. ASSUME NEW pair \in Freezable,
               Freeze(pair[1], pair[2]) \/ Unfreeze(pair[1], pair[2])
        PROVE  TypeOK' /\ UNCHANGED <<tokenVars, packets, delivered>>
    <2>1. pair[1] \in Chains /\ pair[2] \in Holders
      BY OFTMeshAssumption
    <2>2. /\ UNCHANGED <<paused, authorised, peers, outages, balances, issued,
                         packets, delivered>>
          /\ \/ frozen' = [frozen EXCEPT ![pair[1]] = @ \union {pair[2]}]
             \/ frozen' = [frozen EXCEPT ![pair[1]] = @ \ {pair[2]}]
      BY <1>1 DEF Freeze, Unfreeze, UnchangedByAdmin, tokenVars
    <2>3. frozen' \in [Chains -> SUBSET Holders]
      <3>1. frozen \in [Chains -> SUBSET Holders]
        BY DEF TypeOK
      <3> QED
        BY <2>1, <2>2, <3>1
    <2> QED
      BY <2>2, <2>3 DEF TypeOK, tokenVars
  <1>2. ASSUME NEW c \in Chains, Pause(c) \/ Unpause(c) \/ RevokeAdapter(c)
                                 \/ GrantAdapter(c)
        PROVE  TypeOK' /\ UNCHANGED <<tokenVars, packets, delivered>>
    BY <1>2, MeshArguments DEF Pause, Unpause, RevokeAdapter, GrantAdapter,
       Interrupt, UnchangedByAdmin, TypeOK, tokenVars
  <1>3. ASSUME NEW c \in Chains, NEW d \in Chains,
               ClearPeer(c, d) \/ SetPeer(c, d)
        PROVE  TypeOK' /\ UNCHANGED <<tokenVars, packets, delivered>>
    <2>1. /\ UNCHANGED <<frozen, paused, authorised, balances, issued,
                         packets, delivered>>
          /\ \/ peers' = [peers EXCEPT ![c] = @ \union {d}]
             \/ peers' = [peers EXCEPT ![c] = @ \ {d}]
      BY <1>3 DEF ClearPeer, SetPeer, UnchangedByAdmin, tokenVars
    <2>2. peers' \in [Chains -> SUBSET Chains]
      <3>1. peers \in [Chains -> SUBSET Chains]
        BY DEF TypeOK
      <3> QED
        BY <2>1, <3>1
    <2>3. outages' \in 0..MaxOutages
      BY <1>3, MeshArguments DEF ClearPeer, SetPeer, Interrupt, TypeOK
    <2> QED
      BY <2>1, <2>2, <2>3 DEF TypeOK, tokenVars
  <1> QED
    BY <1>1, <1>2, <1>3 DEF FreezeStep, OutageStep, tokenVars

-----------------------------------------------------------------------------
(* Nothing is created or lost.                                             *)

\* What backs the tokens: without a hub what is outstanding was issued, and all
\* of it is there unless a message cut off a part; with a hub, everything that
\* was issued is on it.
Backed ==
    /\ LockChains = {} => /\ Outstanding <= issued
                          /\ MaxIssued <= MaxShared => Outstanding = issued
    /\ \A c \in LockChains : Supply(c) = issued

\* The inductive invariant.
MeshInv == TypeOK /\ Backed

\* A step that issues d, on the hub if there is one, keeps it.
LEMMA IssueBacked ==
    ASSUME MeshInv, NEW d \in Int, issued' = issued + d, TypeOK',
           LockChains = {} => Outstanding' = Outstanding + d,
           \A c \in LockChains : Supply(c)' = Supply(c) + d
    PROVE  MeshInv'
  <1>1. TypeOK /\ Backed /\ issued \in Nat
    BY MeshArguments DEF MeshInv, TypeOK
  <1>2. LockChains = {} => /\ Outstanding' <= issued'
                           /\ MaxIssued <= MaxShared => Outstanding' = issued'
    BY <1>1, OutstandingValue DEF Backed
  <1>3. \A c \in LockChains : Supply(c)' = issued'
    BY <1>1 DEF Backed
  <1> QED
    BY <1>2, <1>3 DEF MeshInv, Backed

\* No holder of an issuing chain holds more than was issued.
LEMMA HeldWasIssued ==
    ASSUME MeshInv, NEW c \in Issuers, NEW h \in Holders
    PROVE  balances[c][h] <= issued
  <1>1. TypeOK /\ Backed /\ issued \in Nat /\ c \in Chains
    BY MeshArguments, HubOrNone DEF MeshInv, TypeOK
  <1>2. balances[c][h] \in Nat /\ balances[c][h] <= Supply(c) /\ Supply(c) \in Nat
    BY <1>1, MeshValues
  <1>3. CASE LockChains = {}
    <2>1. c \in Spokes
      BY <1>1, <1>3, HubOrNone
    <2>2. Supply(c) <= SupplyOf(Spokes)
      BY <1>1, <2>1, MeshValues, OutstandingValue
    <2> QED
      BY <1>1, <1>2, <1>3, <2>2, OutstandingValue DEF Backed
  <1>4. CASE LockChains # {}
    BY <1>1, <1>2, <1>4, HubOrNone DEF Backed
  <1> QED
    BY <1>3, <1>4

\* What a call of a token comes down to: an issuer changes a wallet's balance,
Issuing(c, wallet, d) ==
    /\ c \in Issuers /\ balances[c][wallet] + d >= 0
    /\ issued' = issued + d /\ issued' \in 0..MaxIssued
    /\ balances' = [balances EXCEPT ![c] =
          [balances[c] EXCEPT ![wallet] = balances[c][wallet] + d]]
    /\ UNCHANGED <<configVars, packets, delivered>>

\* or an amount moves, from a wallet or from an account that is frozen.
Paying(c, from, to, amount) ==
    /\ from \in Wallets \/ from \in frozen[c]
    /\ balances[c][from] >= amount
    /\ balances' = Moved(c, from, to, amount)
    /\ UNCHANGED <<configVars, packets, delivered, issued>>

\* Every call is one or the other.
LEMMA TokenStepEffect ==
    ASSUME MeshInv, TokenStep
    PROVE  \E c \in Chains :
              \/ \E wallet \in Wallets, d \in Int : Issuing(c, wallet, d)
              \/ \E from, to \in Holders, amount \in Nat :
                    Paying(c, from, to, amount)
  <1>1. PICK c \in Chains, wallet \in Wallets, amount \in Amount :
            \/ Mint(c, wallet, amount)
            \/ Burn(c, wallet, amount)
            \/ \E to \in Holders : Transfer(c, wallet, to, amount)
            \/ \E account \in Holders : Recover(c, account, wallet, amount)
    BY DEF TokenStep
  <1>2. /\ TypeOK /\ wallet \in Holders /\ amount \in Nat /\ issued \in Nat
        /\ balances[c][wallet] \in Nat /\ MaxIssued \in Nat
        /\ issued <= MaxIssued
    <2>1. TypeOK /\ wallet \in Holders /\ amount \in Nat /\ MaxIssued \in Nat
      BY MeshArguments DEF MeshInv
    <2>2. issued \in 0..MaxIssued
      BY <2>1 DEF TypeOK
    <2>3. balances[c][wallet] \in Nat
      BY <2>1, MeshValues
    <2> QED
      BY <2>1, <2>2, <2>3
  <1>3. CASE Mint(c, wallet, amount)
    <2>1. /\ c \in Issuers /\ issued + amount <= MaxIssued
          /\ issued' = issued + amount
          /\ UNCHANGED <<configVars, packets, delivered>>
          /\ balances' = [balances EXCEPT ![c] =
                [balances[c] EXCEPT ![wallet] = balances[c][wallet] + amount]]
      BY <1>2, <1>3, EntryRow DEF Mint
    <2>2. amount \in Int /\ balances[c][wallet] + amount >= 0
          /\ issued' \in 0..MaxIssued
      BY <1>2, <2>1
    <2> QED
      BY <2>1, <2>2 DEF Issuing
  <1>4. CASE Burn(c, wallet, amount)
    <2>1. /\ c \in Issuers /\ balances[c][wallet] >= amount
          /\ issued' = issued - amount
          /\ UNCHANGED <<configVars, packets, delivered>>
          /\ balances' = [balances EXCEPT ![c] =
                [balances[c] EXCEPT ![wallet] = balances[c][wallet] + (-amount)]]
      BY <1>2, <1>4, EntryRow DEF Burn
    <2>2. balances[c][wallet] <= issued
      BY <1>2, <2>1, HeldWasIssued
    <2> DEFINE less == -amount
    <2>3. /\ less \in Int /\ balances[c][wallet] + less >= 0
          /\ issued' = issued + less /\ issued' \in 0..MaxIssued
      BY <1>2, <2>1, <2>2
    <2>4. balances' = [balances EXCEPT ![c] =
             [balances[c] EXCEPT ![wallet] = balances[c][wallet] + less]]
      BY <2>1
    <2> HIDE DEF less
    <2> QED
      BY <2>1, <2>3, <2>4 DEF Issuing
  <1>5. ASSUME NEW to \in Holders, Transfer(c, wallet, to, amount)
        PROVE  Paying(c, wallet, to, amount)
    BY <1>5 DEF Transfer, Paying
  <1>6. ASSUME NEW account \in Holders, Recover(c, account, wallet, amount)
        PROVE  Paying(c, account, wallet, amount)
    BY <1>6 DEF Recover, Paying
  <1> QED
    BY <1>1, <1>2, <1>3, <1>4, <1>5, <1>6

\* The calls of a token.
LEMMA TokenStepKeeps ==
    ASSUME MeshInv, TokenStep
    PROVE  MeshInv'
  <1>1. TypeOK
    BY DEF MeshInv
  <1>2. ASSUME NEW c \in Chains, NEW wallet \in Wallets, NEW d \in Int,
               Issuing(c, wallet, d)
        PROVE  MeshInv'
    <2>1. /\ TypeOK' /\ issued' = issued + d
          /\ \A e \in Chains : Supply(e)' = IF e = c THEN Supply(e) + d
                                                     ELSE Supply(e)
          /\ Outstanding' = IF LockChains = {} THEN Outstanding + d
                                               ELSE Outstanding
      BY <1>1, <1>2, IssueEffect DEF Issuing
    <2>2. \A e \in LockChains : Supply(e)' = Supply(e) + d
      BY <1>2, <2>1, HubOrNone DEF Issuing
    <2> QED
      BY <2>1, <2>2, IssueBacked
  <1>3. ASSUME NEW c \in Chains, NEW from \in Holders, NEW to \in Holders,
               NEW amount \in Nat, Paying(c, from, to, amount)
        PROVE  MeshInv'
    <2>1. /\ TypeOK' /\ issued' = issued /\ Outstanding' = Outstanding
          /\ \A e \in LockChains : Supply(e)' = Supply(e)
      BY <1>1, <1>3, PaymentEffect DEF Paying
    <2> QED
      BY <2>1 DEF MeshInv, Backed
  <1> QED
    BY <1>2, <1>3, TokenStepEffect

\* The steps of the bridge.
LEMMA BridgeStepKeeps ==
    ASSUME MeshInv, BridgeStep
    PROVE  MeshInv'
  <1>1. TypeOK /\ Backed /\ issued \in Nat
    BY MeshArguments DEF MeshInv, TypeOK
  <1>2. ASSUME NEW c \in Chains, NEW wallet \in Wallets,
               NEW to \in Holders \union {Nobody}, NEW amount \in Amount,
               NEW d \in Chains \ {c}, Send(c, wallet, d, to, amount)
        PROVE  MeshInv'
    <2>1. /\ TypeOK' /\ issued' = issued
          /\ \A e \in LockChains : Supply(e)' = Supply(e)
          /\ Outstanding' = IF c \in LockChains
                            THEN Outstanding + ToShared(amount)
                            ELSE (Outstanding - amount) + ToShared(amount)
      BY <1>1, <1>2, SendEffect
    <2>2. /\ ToShared(amount) \in Nat /\ ToShared(amount) <= amount
          /\ MaxIssued <= MaxShared => ToShared(amount) = amount
          /\ amount \in Nat
      BY MeshArguments, SharedAmount
    <2>3. LockChains = {} => Outstanding' = (Outstanding - amount) + ToShared(amount)
      BY <2>1
    <2> DEFINE shared == ToShared(amount)
    <2> HIDE DEF shared
    <2>4. LockChains = {} => /\ Outstanding' <= issued
                             /\ MaxIssued <= MaxShared => Outstanding' = issued
      <3>1. Outstanding \in Nat /\ shared \in Nat /\ shared <= amount
            /\ (MaxIssued <= MaxShared => shared = amount)
            /\ (LockChains = {} => Outstanding' = (Outstanding - amount) + shared)
        BY <1>1, <2>2, <2>3, OutstandingValue DEF shared
      <3> QED
        BY <1>1, <2>2, <3>1 DEF Backed
    <2> QED
      BY <1>1, <2>1, <2>4 DEF MeshInv, Backed
  <1>3. ASSUME NEW i \in 1..MaxPackets, Receive(i)
        PROVE  MeshInv'
    <2>1. i \in InFlight
      BY <1>3 DEF Receive, InFlight
    <2>2. /\ TypeOK' /\ issued' = issued
          /\ \A e \in LockChains : Supply(e)' = Supply(e)
          /\ LockChains = {} => Outstanding' = Outstanding
      BY <1>1, <1>3, <2>1, ReceiveEffect
    <2> QED
      BY <1>1, <2>2 DEF MeshInv, Backed
  <1> QED
    BY <1>2, <1>3 DEF BridgeStep

\* Every step.
LEMMA MeshNextKeeps ==
    ASSUME MeshInv, Next
    PROVE  MeshInv'
  <1>1. CASE FreezeStep \/ OutageStep
    <2>1. /\ TypeOK' /\ UNCHANGED <<balances, issued, packets, delivered>>
      BY <1>1, AdminEffect DEF MeshInv, tokenVars
    <2>2. Outstanding' = Outstanding /\ \A c \in LockChains : Supply(c)' = Supply(c)
      BY <2>1 DEF Outstanding, SupplyOf, Supply, InFlightAmount, InFlight
    <2> QED
      BY <2>1, <2>2 DEF MeshInv, Backed
  <1> QED
    BY <1>1, TokenStepKeeps, BridgeStepKeeps DEF Next

\* Nothing is outstanding at first.
LEMMA MeshInit ==
    ASSUME Init
    PROVE  MeshInv /\ Outstanding = 0 /\ \A c \in Chains : frozen[c] = {}
  <1>1. TypeOK
    <2>1. << >> \in Seq(Packet)
      OBVIOUS
    <2> QED
      BY <2>1, MeshArguments DEF Init, TypeOK, Packet
  <1>2. \A c \in Chains : Supply(c) = 0
    <2> SUFFICES ASSUME NEW c \in Chains PROVE Supply(c) = 0
      OBVIOUS
    <2>1. DOMAIN balances[c] = Holders /\ \A h \in Holders : balances[c][h] = 0
      BY DEF Init
    <2>2. Supply(c) = SumFunctionOnSet(balances[c], Holders)
      BY <2>1 DEF Supply, SumFunction
    <2> QED
      BY <1>1, <2>1, <2>2, MeshValues, SumZero
  <1>3. SupplyOf(Spokes) = 0
    <2> DEFINE f == [c \in Chains |-> Supply(c)]
    <2>1. SupplyOf(Spokes) = SumFunctionOnSet(f, Spokes)
      BY DEF SupplyOf
    <2>2. IsFiniteSet(Spokes) /\ \A c \in Spokes : f[c] = 0
      BY <1>1, <1>2, MeshValues, OutstandingValue
    <2> HIDE DEF f
    <2> QED
      BY <2>1, <2>2, SumZero
  <1>4. InFlightAmount = 0
    <2> DEFINE f == [i \in DOMAIN packets |-> packets[i].amount]
    <2>1. InFlight = {}
      BY DEF Init, InFlight
    <2>2. InFlightAmount = SumFunctionOnSet(f, {})
      BY <2>1 DEF InFlightAmount
    <2> HIDE DEF f
    <2>3. IsFiniteSet({})
      BY FS_EmptySet
    <2> QED
      BY <2>2, <2>3, SumZero
  <1>5. Outstanding = 0
    BY <1>1, <1>3, <1>4, OutstandingValue
  <1>6. issued = 0 /\ \A c \in Chains : frozen[c] = {}
    BY DEF Init
  <1> QED
    BY <1>1, <1>2, <1>5, <1>6, HubOrNone DEF MeshInv, Backed

\* And the invariant is never lost.
LEMMA MeshInvariant == Spec => []MeshInv
  <1>1. Init => MeshInv
    BY MeshInit
  <1>2. MeshInv /\ [Next]_vars => MeshInv'
    <2>1. ASSUME MeshInv, UNCHANGED vars PROVE MeshInv'
      BY <2>1 DEF vars, MeshInv, TypeOK, Backed, Outstanding, SupplyOf, Supply,
         InFlightAmount, InFlight
    <2> QED
      BY <2>1, MeshNextKeeps
  <1> QED
    BY <1>1, <1>2, PTL DEF Spec

\* The mesh stays well formed: no balance is negative, and no more is ever
\* burned by issuers than they issued.
THEOREM MeshTypeCorrect == Spec => []TypeOK
  <1>1. MeshInv => TypeOK
    BY DEF MeshInv
  <1> QED
    BY <1>1, MeshInvariant, PTL

\* Between any number of mint-and-burn chains nothing is created or lost,
\* whatever the order of sends and receipts, as long as a message carries
\* every amount there is.
THEOREM MeshConserves ==
    ASSUME MaxIssued <= MaxShared
    PROVE  Spec => []ConservedAcrossChains
  <1>1. MeshInv => ConservedAcrossChains
    BY DEF MeshInv, Backed, ConservedAcrossChains
  <1> QED
    BY <1>1, MeshInvariant, PTL

-----------------------------------------------------------------------------
(* The hub.                                                                *)

\* What is locked is what the hub's adapter has.
LEMMA LockedAtHub ==
    ASSUME NEW hub \in Chains, LockChains = {hub},
           NEW b \in [Chains -> [Holders -> Nat]]
    PROVE  SumFunctionOnSet([c \in Chains |-> b[c][Adapter]], LockChains)
              = b[hub][Adapter]
  <1> DEFINE f == [c \in Chains |-> b[c][Adapter]]
  <1>1. f[hub] = b[hub][Adapter] /\ f[hub] \in Nat
    BY MeshArguments
  <1> HIDE DEF f
  <1>2. IsFiniteSet({hub}) /\ IsFiniteSet({}) /\ {hub} \ {hub} = {}
    BY FS_EmptySet, FS_Singleton
  <1>3. SumFunctionOnSet(f, {hub}) = f[hub] + SumFunctionOnSet(f, {hub} \ {hub})
    BY <1>1, <1>2, SumRemove
  <1>4. SumFunctionOnSet(f, {}) = 0
    BY <1>2, SumZero
  <1>5. SumFunctionOnSet(f, {hub}) = f[hub] + 0
    BY <1>2, <1>3, <1>4
  <1>6. SumFunctionOnSet(f, {hub}) = b[hub][Adapter]
    BY <1>1, <1>5
  <1>7. SumFunctionOnSet(f, LockChains) = b[hub][Adapter]
    BY <1>6
  <1> QED
    BY <1>7 DEF f

\* What is outstanding is a number after a step as it was before.
LEMMA OutstandingNext == TypeOK' => Outstanding' \in Nat
  <1>1. TypeOK => Outstanding \in Nat
    BY OutstandingValue
  <1>2. (TypeOK => Outstanding \in Nat)'
    BY <1>1, PTL
  <1> QED
    BY <1>2

\* No call of anybody lowers the cover of what is outstanding, unless the hub's
\* adapter is frozen.
LEMMA CoverKept ==
    ASSUME MeshInv, Next, NEW hub \in Chains, LockChains = {hub},
           Adapter \notin frozen[hub]
    PROVE  Locked' - Outstanding' >= Locked - Outstanding
  <1> DEFINE old == balances[hub][Adapter]
             new == balances'[hub][Adapter]
  <1>1. TypeOK /\ MeshInv'
    BY MeshNextKeeps DEF MeshInv
  <1>2. /\ balances \in [Chains -> [Holders -> Nat]]
        /\ balances' \in [Chains -> [Holders -> Nat]]
        /\ Adapter \in Holders /\ Adapter \notin Wallets
    BY <1>1, MeshArguments DEF MeshInv, TypeOK
  <1>3. Locked = old /\ old \in Nat
    BY <1>2, LockedAtHub DEF Locked
  <1>4. Locked' = new /\ new \in Nat
    <2>1. Locked' = SumFunctionOnSet([c \in Chains |-> balances'[c][Adapter]],
                                     LockChains)
      BY DEF Locked
    <2> QED
      BY <1>2, <2>1, LockedAtHub
  <1>5. Outstanding \in Nat /\ Outstanding' \in Nat
    BY <1>1, OutstandingValue, OutstandingNext DEF MeshInv
  <1> SUFFICES new - Outstanding' >= old - Outstanding
    BY <1>3, <1>4
  <1>6. CASE FreezeStep \/ OutageStep
    <2>1. UNCHANGED <<balances, packets, delivered>>
      BY <1>1, <1>6, AdminEffect
    <2>2. Outstanding' = Outstanding
      BY <2>1 DEF Outstanding, SupplyOf, Supply, InFlightAmount, InFlight
    <2> QED
      BY <1>3, <1>5, <2>1, <2>2
  <1>7. CASE TokenStep
    <2>1. ASSUME NEW c \in Chains, NEW wallet \in Wallets, NEW d \in Int,
                 Issuing(c, wallet, d)
          PROVE  new = old /\ Outstanding' = Outstanding
      <3>1. wallet # Adapter /\ c = hub
        BY <1>2, <2>1, OFTMeshAssumption DEF Issuing
      <3>2. balances'[hub][Adapter] = balances[hub][Adapter]
        BY <1>1, <1>2, <2>1, <3>1, IssueEffect DEF Issuing
      <3>3. Outstanding' = Outstanding
        BY <1>1, <2>1, IssueEffect DEF Issuing
      <3> QED
        BY <3>2, <3>3
    <2>2. ASSUME NEW c \in Chains, NEW from \in Holders, NEW to \in Holders,
                 NEW amount \in Nat, Paying(c, from, to, amount)
          PROVE  new >= old /\ Outstanding' = Outstanding
      <3>1. /\ Outstanding' = Outstanding
            /\ new = IF hub = c /\ from # to /\ Adapter = from THEN old - amount
                     ELSE IF hub = c /\ from # to /\ Adapter = to
                          THEN old + amount
                          ELSE old
        BY <1>1, <1>2, <2>2, PaymentEffect DEF Paying
      <3>2. ~(hub = c /\ Adapter = from)
        BY <1>2, <2>2 DEF Paying
      <3> QED
        BY <1>3, <3>1, <3>2
    <2>3. new >= old /\ Outstanding' = Outstanding
      BY <1>1, <1>3, <1>7, <2>1, <2>2, TokenStepEffect
    <2> QED
      BY <1>3, <1>4, <1>5, <2>3
  <1>8. ASSUME NEW c \in Chains, NEW wallet \in Wallets,
               NEW to \in Holders \union {Nobody}, NEW amount \in Amount,
               NEW d \in Chains \ {c}, Send(c, wallet, d, to, amount)
        PROVE  new - Outstanding' >= old - Outstanding
    <2> DEFINE shared == ToShared(amount)
    <2>1. /\ Outstanding' = IF c \in LockChains THEN Outstanding + shared
                            ELSE (Outstanding - amount) + shared
          /\ new = IF hub = c THEN old + amount ELSE old
      <3>1. wallet # Adapter /\ (c \in LockChains <=> c = hub)
        BY <1>2
      <3> QED
        BY <1>1, <1>2, <1>8, <3>1, SendEffect
    <2>2. shared \in Nat /\ shared <= amount /\ amount \in Nat
      BY MeshArguments, SharedAmount
    <2> HIDE DEF shared
    <2> QED
      BY <1>3, <1>5, <2>1, <2>2
  <1>9. ASSUME NEW i \in 1..MaxPackets, Receive(i)
        PROVE  new - Outstanding' >= old - Outstanding
    <2> DEFINE amount == packets[i].amount
    <2>1. i \in InFlight
      BY <1>9 DEF Receive, InFlight
    <2>2. /\ Outstanding' = IF packets[i].dst \in LockChains
                            THEN Outstanding - amount ELSE Outstanding
          /\ new = IF /\ hub = packets[i].dst
                      /\ Recipient(packets[i].to) # Adapter
                   THEN old - amount ELSE old
      BY <1>1, <1>2, <1>9, <2>1, ReceiveEffect
    <2>3. amount \in Nat
      BY <1>1, <2>1, InFlightValues DEF InFlight
    <2> HIDE DEF amount
    <2> QED
      BY <1>3, <1>5, <2>2, <2>3
  <1> QED
    BY <1>6, <1>7, <1>8, <1>9 DEF Next, BridgeStep

\* Where the hub's registry cannot deny its own adapter, it never does.
Sealed == \A c \in LockChains : <<c, Adapter>> \notin Freezable

\* The hub's adapter is not denied.
AdapterActive == \A c \in LockChains : Adapter \notin frozen[c]

\* Then no step denies it.
LEMMA ActiveKept ==
    ASSUME Sealed, TypeOK, AdapterActive, Next
    PROVE  AdapterActive'
  <1>1. ASSUME NEW pair \in Freezable,
               Freeze(pair[1], pair[2]) \/ Unfreeze(pair[1], pair[2])
        PROVE  AdapterActive'
    <2>1. /\ pair[1] \in Chains /\ pair[2] \in Holders
          /\ pair = <<pair[1], pair[2]>>
      BY OFTMeshAssumption
    <2>2. /\ frozen \in [Chains -> SUBSET Holders]
          /\ \/ frozen' = [frozen EXCEPT ![pair[1]] = @ \union {pair[2]}]
             \/ frozen' = [frozen EXCEPT ![pair[1]] = @ \ {pair[2]}]
      BY <1>1 DEF Freeze, Unfreeze, TypeOK
    <2>3. ASSUME NEW c \in LockChains PROVE Adapter \notin frozen'[c]
      <3>1. c \in Chains /\ Adapter \notin frozen[c]
        BY HubOrNone DEF AdapterActive
      <3>2. ~(c = pair[1] /\ Adapter = pair[2])
        BY <2>1 DEF Sealed
      <3> QED
        BY <2>2, <3>1, <3>2
    <2> QED
      BY <2>3 DEF AdapterActive
  <1>2. CASE ~FreezeStep
    <2>1. frozen' = frozen
      BY <1>2 DEF Next, BridgeStep, TokenStep, OutageStep, Send, Receive, Mint,
         Burn, Transfer, Recover, Pause, Unpause, RevokeAdapter, GrantAdapter,
         ClearPeer, SetPeer, configVars
    <2> QED
      BY <2>1 DEF AdapterActive
  <1> QED
    BY <1>1, <1>2 DEF FreezeStep

\* The invariant of a hub.
HubInv == AdapterActive /\ HubCoversSpokes

\* Together with that, the cover is inductive.
LEMMA HubInvariant == ASSUME Sealed PROVE Spec => []HubInv
  <1>1. Init => HubInv
    <2> SUFFICES ASSUME Init PROVE HubInv
      OBVIOUS
    <2>1. MeshInv /\ Outstanding = 0 /\ AdapterActive
      BY MeshInit, HubOrNone DEF AdapterActive
    <2>2. ASSUME NEW hub \in Chains, LockChains = {hub}
          PROVE  Locked >= Outstanding
      <3>1. balances \in [Chains -> [Holders -> Nat]]
        BY <2>1 DEF MeshInv, TypeOK
      <3>2. Locked = balances[hub][Adapter]
        BY <2>2, <3>1, LockedAtHub DEF Locked
      <3>3. balances[hub][Adapter] \in Nat
        BY <3>1, MeshArguments
      <3> QED
        BY <2>1, <3>2, <3>3
    <2> QED
      BY <2>1, <2>2, HubOrNone DEF HubInv, HubCoversSpokes
  <1>2. MeshInv /\ HubInv /\ [Next]_vars => HubInv'
    <2>1. ASSUME MeshInv, HubInv, Next PROVE HubInv'
      <3>1. AdapterActive'
        BY <2>1, ActiveKept DEF MeshInv, HubInv
      <3>2. ASSUME NEW hub \in Chains, LockChains = {hub}
            PROVE  Locked' >= Outstanding'
        <4>1. Locked' - Outstanding' >= Locked - Outstanding
          BY <2>1, <3>2, CoverKept DEF HubInv, AdapterActive
        <4>2. /\ balances \in [Chains -> [Holders -> Nat]] /\ TypeOK
              /\ balances' \in [Chains -> [Holders -> Nat]]
          BY <2>1, MeshNextKeeps DEF MeshInv, TypeOK
        <4>3. Locked = balances[hub][Adapter] /\ Adapter \in Holders
          BY <3>2, <4>2, LockedAtHub, MeshArguments DEF Locked
        <4>4. Locked' = balances'[hub][Adapter]
          <5>1. Locked' = SumFunctionOnSet(
                   [c \in Chains |-> balances'[c][Adapter]], LockChains)
            BY DEF Locked
          <5> QED
            BY <3>2, <4>2, <5>1, LockedAtHub
        <4>5. Locked >= Outstanding /\ Outstanding \in Nat
          BY <2>1, <3>2, <4>2, OutstandingValue DEF HubInv, HubCoversSpokes
        <4>6. Outstanding' \in Nat
          BY <2>1, MeshNextKeeps, OutstandingNext DEF MeshInv
        <4>7. Locked \in Nat /\ Locked' \in Nat
          BY <3>2, <4>2, <4>3, <4>4
        <4>8. \A l, o, m, p \in Nat : m - p >= l - o /\ l >= o => m >= p
          OBVIOUS
        <4> QED
          BY <4>1, <4>5, <4>6, <4>7, <4>8
      <3> QED
        BY <3>1, <3>2, HubOrNone DEF HubInv, HubCoversSpokes
    <2>2. ASSUME HubInv, UNCHANGED vars PROVE HubInv'
      BY <2>2 DEF vars, HubInv, AdapterActive, HubCoversSpokes, Locked,
         Outstanding, SupplyOf, Supply, InFlightAmount, InFlight
    <2> QED
      BY <2>1, <2>2
  <1> QED
    BY <1>1, <1>2, MeshInvariant, PTL DEF Spec

\* Unless its registry can deny its own adapter, the hub always covers what is
\* outstanding on the other chains and on the way to any chain.
THEOREM MeshHubCovers ==
    ASSUME Sealed
    PROVE  Spec => []HubCoversSpokes
  <1>1. HubInv => HubCoversSpokes
    BY DEF HubInv
  <1> QED
    BY <1>1, HubInvariant, PTL

\* Around a hub, the cover falls in no step but while the adapter is denied.
THEOREM MeshCoverFalls ==
    ASSUME LockChains # {}
    PROVE  Spec => CoverFallsOnlyByRecovery
  <1>1. MeshInv /\ [Next]_vars =>
           [Locked' - Outstanding' < Locked - Outstanding =>
               \E c \in LockChains : Adapter \in frozen[c]]_vars
    <2> SUFFICES ASSUME MeshInv, Next,
                        Locked' - Outstanding' < Locked - Outstanding
                 PROVE  \E c \in LockChains : Adapter \in frozen[c]
      OBVIOUS
    <2> SUFFICES ASSUME \A c \in LockChains : Adapter \notin frozen[c]
                 PROVE  FALSE
      OBVIOUS
    <2>1. PICK hub \in Chains : LockChains = {hub}
      BY HubOrNone
    <2>2. Locked' - Outstanding' >= Locked - Outstanding
      BY <2>1, CoverKept
    <2>3. Locked \in Int /\ Locked' \in Int
      <3>1. /\ balances \in [Chains -> [Holders -> Nat]]
            /\ balances' \in [Chains -> [Holders -> Nat]] /\ Adapter \in Holders
        BY MeshNextKeeps, MeshArguments DEF MeshInv, TypeOK
      <3>2. Locked = balances[hub][Adapter]
        BY <2>1, <3>1, LockedAtHub DEF Locked
      <3>3. Locked' = SumFunctionOnSet(
               [c \in Chains |-> balances'[c][Adapter]], LockChains)
        BY DEF Locked
      <3>4. Locked' = balances'[hub][Adapter]
        BY <2>1, <3>1, <3>3, LockedAtHub
      <3> QED
        BY <3>1, <3>2, <3>4
    <2>4. Outstanding \in Int /\ Outstanding' \in Int
      BY MeshNextKeeps, OutstandingValue, OutstandingNext DEF MeshInv
    <2>5. \A l, o, m, p \in Int : ~(m - p >= l - o /\ m - p < l - o)
      OBVIOUS
    <2> QED
      BY <2>2, <2>3, <2>4, <2>5
  <1> QED
    BY <1>1, MeshInvariant, PTL DEF Spec, CoverFallsOnlyByRecovery

-----------------------------------------------------------------------------
(* The one ledger.                                                         *)

\* What the refinement mapping gives the ledger for holdings and transit.
Holdings == [c \in Chains |-> [h \in Holders |-> Held(c, h)]]

Transit == {[id |-> i, dst |-> packets[i].dst, to |-> packets[i].to,
             amount |-> packets[i].amount] : i \in InFlight}

\* A step of the mesh that takes an amount from one account and adds one
\* transfer of it is a departure;
LEMMA LedgerDepart ==
    ASSUME NEW c \in Chains, NEW h \in Holders, NEW t \in Transit' \ Transit,
           Holdings[c][h] >= t.amount, \A s \in Transit : s.id # t.id,
           Holdings' = [Holdings EXCEPT ![c][h] = @ + (-t.amount)],
           Transit' = Transit \union {t}, issued' = issued
    PROVE  Ledger!Next
  <1>1. Ledger!Depart(c, h, t)
    BY DEF Ledger!Depart, Ledger!Add, Holdings, Transit
  <1> QED
    BY <1>1 DEF Ledger!Next, Transit

\* one that adds a transfer's amount to its recipient and removes it, an arrival;
LEMMA LedgerArrive ==
    ASSUME NEW t \in Transit,
           Holdings' = [Holdings EXCEPT ![t.dst][Recipient(t.to)] = @ + t.amount],
           Transit' = Transit \ {t}, issued' = issued
    PROVE  Ledger!Next
  <1>1. Ledger!Arrive(t)
    BY DEF Ledger!Arrive, Ledger!Add, Ledger!Recipient, Recipient, Holdings,
       Transit
  <1> QED
    BY <1>1 DEF Ledger!Next, Transit

\* one that moves an amount between two accounts of a chain, a payment;
LEMMA LedgerPay ==
    ASSUME NEW c \in Chains, NEW from \in Holders, NEW to \in Holders, NEW amount,
           amount = Holdings'[c][to] - Holdings[c][to], amount > 0,
           Holdings[c][from] >= amount,
           Holdings' = [Holdings EXCEPT ![c] =
              [[Holdings[c] EXCEPT ![from] = @ - amount] EXCEPT ![to] = @ + amount]],
           Transit' = Transit, issued' = issued
    PROVE  Ledger!Next
  <1>1. Ledger!Pay(c, from, to, amount)
    BY DEF Ledger!Pay, Holdings, Transit
  <1> QED
    BY <1>1 DEF Ledger!Next, Holdings

\* one that adds to one account and to what was issued, an issue;
LEMMA LedgerIssue ==
    ASSUME NEW c \in Chains, NEW h \in Holders, NEW amount,
           amount = Holdings'[c][h] - Holdings[c][h], amount > 0,
           Holdings' = [Holdings EXCEPT ![c][h] = @ + amount],
           Transit' = Transit, issued' = issued + amount
    PROVE  Ledger!Next
  <1>1. Ledger!Issue(c, h, amount)
    BY DEF Ledger!Issue, Ledger!Add, Holdings, Transit
  <1> QED
    BY <1>1 DEF Ledger!Next, Holdings

\* and one that takes from both, a retirement.
LEMMA LedgerRetire ==
    ASSUME NEW c \in Chains, NEW h \in Holders, NEW amount,
           amount = Holdings[c][h] - Holdings'[c][h], amount > 0,
           Holdings[c][h] >= amount,
           Holdings' = [Holdings EXCEPT ![c][h] = @ + (-amount)],
           Transit' = Transit, issued' = issued - amount
    PROVE  Ledger!Next
  <1>1. Ledger!Retire(c, h, amount)
    BY DEF Ledger!Retire, Ledger!Add, Holdings, Transit
  <1> QED
    BY <1>1 DEF Ledger!Next, Holdings

\* What each account holds, as a number.
LEMMA HoldingValue ==
    ASSUME NEW c \in Chains, NEW h \in Holders
    PROVE  /\ Holdings[c][h] = IF c \in LockChains /\ h = Adapter
                               THEN balances[c][h] - Outstanding
                               ELSE balances[c][h]
           /\ Holdings'[c][h] = IF c \in LockChains /\ h = Adapter
                                THEN balances'[c][h] - Outstanding'
                                ELSE balances'[c][h]
  BY DEF Holdings, Held

\* Two tables of holdings are equal where their entries are.
LEMMA HoldingsAgree ==
    ASSUME NEW f \in [Chains -> [Holders -> Int]],
           NEW g \in [Chains -> [Holders -> Int]],
           \A e \in Chains, x \in Holders : g[e][x] = f[e][x]
    PROVE  g = f
  <1>1. \A e \in Chains : g[e] = f[e]
    <2> SUFFICES ASSUME NEW e \in Chains PROVE g[e] = f[e]
      OBVIOUS
    <2>1. g[e] \in [Holders -> Int] /\ f[e] \in [Holders -> Int]
      OBVIOUS
    <2> QED
      BY <2>1
  <1> QED
    BY <1>1

\* An entry of them changes,
LEMMA HoldingsAdd ==
    ASSUME NEW f \in [Chains -> [Holders -> Int]],
           NEW g \in [Chains -> [Holders -> Int]],
           NEW c \in Chains, NEW h \in Holders, NEW d \in Int,
           \A e \in Chains, x \in Holders :
              g[e][x] = IF e = c /\ x = h THEN f[e][x] + d ELSE f[e][x]
    PROVE  g = [f EXCEPT ![c][h] = @ + d]
  <1> DEFINE row == [f[c] EXCEPT ![h] = f[c][h] + d]
  <1>1. row \in [Holders -> Int] /\ g[c] \in [Holders -> Int]
    OBVIOUS
  <1>2. \A x \in Holders : g[c][x] = row[x]
    OBVIOUS
  <1>3. g[c] = row
    BY <1>1, <1>2
  <1>4. \A e \in Chains \ {c} : g[e] = f[e]
    <2> SUFFICES ASSUME NEW e \in Chains \ {c} PROVE g[e] = f[e]
      OBVIOUS
    <2>1. g[e] \in [Holders -> Int] /\ f[e] \in [Holders -> Int]
      OBVIOUS
    <2>2. \A x \in Holders : g[e][x] = f[e][x]
      OBVIOUS
    <2> QED
      BY <2>1, <2>2
  <1> HIDE DEF row
  <1>5. g = [f EXCEPT ![c] = row]
    BY <1>3, <1>4
  <1> QED
    BY <1>5 DEF row

\* or an amount moves from one to another of the same chain.
LEMMA HoldingsMove ==
    ASSUME NEW f \in [Chains -> [Holders -> Int]],
           NEW g \in [Chains -> [Holders -> Int]],
           NEW c \in Chains, NEW from \in Holders, NEW to \in Holders,
           NEW d \in Int, from # to,
           \A e \in Chains, x \in Holders :
              g[e][x] = IF e = c /\ x = from THEN f[e][x] - d
                        ELSE IF e = c /\ x = to THEN f[e][x] + d ELSE f[e][x]
    PROVE  g = [f EXCEPT ![c] =
                  [[f[c] EXCEPT ![from] = @ - d] EXCEPT ![to] = @ + d]]
  <1> DEFINE row == [[f[c] EXCEPT ![from] = @ - d] EXCEPT ![to] = @ + d]
  <1>1. row \in [Holders -> Int] /\ g[c] \in [Holders -> Int]
    OBVIOUS
  <1>2. \A x \in Holders : g[c][x] = row[x]
    OBVIOUS
  <1>3. g[c] = row
    BY <1>1, <1>2
  <1>4. \A e \in Chains \ {c} : g[e] = f[e]
    <2> SUFFICES ASSUME NEW e \in Chains \ {c} PROVE g[e] = f[e]
      OBVIOUS
    <2>1. g[e] \in [Holders -> Int] /\ f[e] \in [Holders -> Int]
      OBVIOUS
    <2>2. \A x \in Holders : g[e][x] = f[e][x]
      OBVIOUS
    <2> QED
      BY <2>1, <2>2
  <1> HIDE DEF row
  <1> QED
    BY <1>3, <1>4

\* All holdings are numbers, before a step and after.
LEMMA HoldingsTable ==
    ASSUME TypeOK, TypeOK'
    PROVE  /\ Holdings \in [Chains -> [Holders -> Int]]
           /\ Holdings' \in [Chains -> [Holders -> Int]]
  <1>1. /\ balances \in [Chains -> [Holders -> Nat]] /\ Outstanding \in Nat
        /\ balances' \in [Chains -> [Holders -> Nat]] /\ Outstanding' \in Nat
    BY OutstandingValue, OutstandingNext DEF TypeOK
  <1>2. \A c \in Chains, h \in Holders : Held(c, h) \in Int
    BY <1>1 DEF Held
  <1>3. \A c \in Chains, h \in Holders : Held(c, h)' \in Int
    BY <1>1 DEF Held
  <1>4. Holdings' = [c \in Chains |-> [h \in Holders |-> Held(c, h)']]
    BY DEF Holdings
  <1> QED
    BY <1>2, <1>3, <1>4 DEF Holdings

\* A send sets one transfer out.
LEMMA SendDeparts ==
    ASSUME MaxIssued <= MaxShared, TypeOK,
           NEW c \in Chains, NEW wallet \in Wallets,
           NEW d \in Chains \ {c}, NEW to \in Holders \union {Nobody},
           NEW amount \in Amount, Send(c, wallet, d, to, amount)
    PROVE  Ledger!Next
  <1> DEFINE n == Len(packets) + 1
             t == [id |-> n, dst |-> d, to |-> to, amount |-> amount]
             p == [src |-> c, dst |-> d, to |-> to, amount |-> amount]
  <1>1. /\ ToShared(amount) = amount /\ amount \in Nat /\ (-amount) \in Int
        /\ wallet \in Holders /\ wallet # Adapter /\ Adapter \in Holders
        /\ balances[c][wallet] \in Nat /\ balances[c][wallet] >= amount
    BY SharedAmount, MeshArguments, MeshValues DEF Send
  <1>2. /\ packets' = Append(packets, p) /\ delivered' = delivered
        /\ packets \in Seq(Packet) /\ delivered \subseteq DOMAIN packets
    BY <1>1 DEF Send, TypeOK, Packet
  <1>3. /\ n \notin InFlight /\ InFlight' = InFlight \union {n}
        /\ packets'[n] = p
        /\ \A i \in InFlight : packets'[i] = packets[i]
    BY <1>2 DEF InFlight
  <1>4. /\ Transit' = Transit \union {t} /\ t \notin Transit
        /\ \A s \in Transit : s.id # t.id
    <2>1. Transit' = {[id |-> i, dst |-> packets'[i].dst, to |-> packets'[i].to,
                       amount |-> packets'[i].amount] : i \in InFlight'}
      BY DEF Transit
    <2>2. \A s \in Transit : s.id # t.id
      BY <1>3 DEF Transit
    <2>3. t = [id |-> n, dst |-> packets'[n].dst, to |-> packets'[n].to,
               amount |-> packets'[n].amount]
      BY <1>3
    <2> HIDE DEF t, n, p
    <2> QED
      BY <1>3, <2>1, <2>2, <2>3 DEF Transit
  <1>5. /\ TypeOK' /\ issued' = issued
        /\ Outstanding' = IF c \in LockChains THEN Outstanding + amount
                          ELSE (Outstanding - amount) + amount
        /\ \A e \in Chains, x \in Holders :
              balances'[e][x] =
                 IF e = c /\ x = wallet THEN balances[e][x] - amount
                 ELSE IF e = c /\ c \in LockChains /\ x = Adapter
                      THEN balances[e][x] + amount
                      ELSE balances[e][x]
    BY <1>1, SendEffect
  <1>6. /\ Outstanding \in Nat /\ Holdings \in [Chains -> [Holders -> Int]]
        /\ Holdings' \in [Chains -> [Holders -> Int]]
        /\ \A e \in Chains, x \in Holders : balances[e][x] \in Nat
    BY <1>5, OutstandingValue, HoldingsTable, MeshValues
  <1> DEFINE less == -amount
  <1>7. \A e \in Chains, x \in Holders :
           Holdings'[e][x] = IF e = c /\ x = wallet THEN Holdings[e][x] + less
                                                    ELSE Holdings[e][x]
    <2> SUFFICES ASSUME NEW e \in Chains, NEW x \in Holders
                 PROVE  Holdings'[e][x] =
                          IF e = c /\ x = wallet THEN Holdings[e][x] + less
                                                 ELSE Holdings[e][x]
      OBVIOUS
    <2>1. CASE e \in LockChains /\ x = Adapter
      <3>1. /\ Holdings[e][x] = balances[e][x] - Outstanding
            /\ Holdings'[e][x] = balances'[e][x] - Outstanding'
        BY <2>1, HoldingValue
      <3>2. c \in LockChains <=> e = c
        BY <2>1, HubOrNone
      <3> QED
        BY <1>1, <1>5, <1>6, <2>1, <3>1, <3>2
    <2>2. CASE ~(e \in LockChains /\ x = Adapter)
      <3>1. Holdings[e][x] = balances[e][x] /\ Holdings'[e][x] = balances'[e][x]
        BY <2>2, HoldingValue
      <3> QED
        BY <1>1, <1>5, <1>6, <2>2, <3>1
    <2> QED
      BY <2>1, <2>2
  <1>8. less \in Int /\ t.amount = amount /\ less = -t.amount
    BY <1>1
  <1>9. Holdings[c][wallet] >= t.amount
    BY <1>1, HoldingValue
  <1> HIDE DEF less, t
  <1>10. Holdings' = [Holdings EXCEPT ![c][wallet] = @ + less]
    BY <1>1, <1>6, <1>7, <1>8, HoldingsAdd
  <1>11. Holdings' = [Holdings EXCEPT ![c][wallet] = @ + (-t.amount)]
    BY <1>8, <1>10
  <1>12. t \in Transit' \ Transit
    BY <1>4
  <1> QED
    BY <1>1, <1>4, <1>5, <1>9, <1>11, <1>12, LedgerDepart

\* A receipt is the arrival of one that was under way.
LEMMA ReceiveArrives ==
    ASSUME TypeOK, NEW i \in InFlight, Receive(i)
    PROVE  Ledger!Next
  <1> DEFINE c == packets[i].dst
             to == packets[i].to
             amount == packets[i].amount
             h == Recipient(to)
             t == [id |-> i, dst |-> c, to |-> to, amount |-> amount]
  <1>1. c \in Chains /\ h \in Holders /\ amount \in Nat /\ Adapter \in Holders
    <2>1. packets[i] \in Packet /\ amount \in Nat
      BY InFlightValues DEF InFlight
    <2> QED
      BY <2>1, MeshArguments DEF Packet
  <1>2. /\ TypeOK' /\ issued' = issued
        /\ Outstanding' = IF c \in LockChains THEN Outstanding - amount
                                              ELSE Outstanding
        /\ \A e \in Chains, x \in Holders :
              balances'[e][x] =
                 IF e = c /\ e \in LockChains /\ h # Adapter /\ x = Adapter
                 THEN balances[e][x] - amount
                 ELSE IF e = c /\ x = h /\ (x # Adapter \/ e \notin LockChains)
                      THEN balances[e][x] + amount
                      ELSE balances[e][x]
    BY ReceiveEffect
  <1>3. t \in Transit /\ Transit' = Transit \ {t}
    <2>1. packets' = packets /\ delivered' = delivered \union {i}
      BY DEF Receive
    <2>2. InFlight' = InFlight \ {i}
      BY <2>1, ReceivedIsNot
    <2>3. Transit' = {[id |-> j, dst |-> packets[j].dst, to |-> packets[j].to,
                       amount |-> packets[j].amount] : j \in InFlight \ {i}}
      BY <2>1, <2>2 DEF Transit
    <2>4. t \in Transit
      BY DEF Transit
    <2>5. \A s \in Transit : s.id = i => s = t
      BY DEF Transit
    <2>6. \A s \in Transit' : s \in Transit /\ s.id # i
      BY <2>3 DEF Transit
    <2>7. \A s \in Transit : s.id # i => s \in Transit'
      BY <2>3 DEF Transit
    <2>8. t.id = i
      OBVIOUS
    <2> HIDE DEF t
    <2> QED
      BY <2>4, <2>5, <2>6, <2>7, <2>8
  <1>4. /\ Outstanding \in Nat /\ Holdings \in [Chains -> [Holders -> Int]]
        /\ Holdings' \in [Chains -> [Holders -> Int]]
        /\ \A e \in Chains, x \in Holders : balances[e][x] \in Nat
    BY <1>2, OutstandingValue, HoldingsTable, MeshValues
  <1>5. t.dst = c /\ t.to = to /\ t.amount = amount
    OBVIOUS
  <1> HIDE DEF c, h, amount, t
  <1>6. \A e \in Chains, x \in Holders :
           Holdings'[e][x] = IF e = c /\ x = h THEN Holdings[e][x] + amount
                                               ELSE Holdings[e][x]
    <2> SUFFICES ASSUME NEW e \in Chains, NEW x \in Holders
                 PROVE  Holdings'[e][x] =
                          IF e = c /\ x = h THEN Holdings[e][x] + amount
                                            ELSE Holdings[e][x]
      OBVIOUS
    <2>1. CASE e \in LockChains /\ x = Adapter
      <3>1. /\ Holdings[e][x] = balances[e][x] - Outstanding
            /\ Holdings'[e][x] = balances'[e][x] - Outstanding'
        BY <2>1, HoldingValue
      <3>2. c \in LockChains <=> e = c
        BY <2>1, HubOrNone
      <3> QED
        BY <1>1, <1>2, <1>4, <2>1, <3>1, <3>2
    <2>2. CASE ~(e \in LockChains /\ x = Adapter)
      <3>1. Holdings[e][x] = balances[e][x] /\ Holdings'[e][x] = balances'[e][x]
        BY <2>2, HoldingValue
      <3> QED
        BY <1>1, <1>2, <1>4, <2>2, <3>1
    <2> QED
      BY <2>1, <2>2
  <1>7. Holdings' = [Holdings EXCEPT ![c][h] = @ + amount]
    BY <1>1, <1>4, <1>6, HoldingsAdd
  <1>8. Holdings' = [Holdings EXCEPT ![t.dst][Recipient(t.to)] = @ + t.amount]
    BY <1>5, <1>7 DEF h
  <1> QED
    BY <1>2, <1>3, <1>8, LedgerArrive

\* An issuer issues or retires, or changes nothing.
LEMMA IssuingMaps ==
    ASSUME TypeOK, TypeOK', NEW c \in Chains, NEW wallet \in Wallets,
           NEW d \in Int, Issuing(c, wallet, d)
    PROVE  Ledger!Next \/ UNCHANGED <<Holdings, Transit, issued>>
  <1>1. /\ wallet \in Holders /\ wallet # Adapter
        /\ issued \in Int /\ issued' = issued + d
        /\ balances[c][wallet] \in Nat /\ balances[c][wallet] + d >= 0
        /\ LockChains # {} => Outstanding' = Outstanding
        /\ \A e \in Chains, x \in Holders :
              balances'[e][x] = IF e = c /\ x = wallet THEN balances[e][x] + d
                                                       ELSE balances[e][x]
    <2>1. wallet \in Holders /\ wallet # Adapter
      BY MeshArguments
    <2>2. issued \in Int
      BY MeshArguments DEF TypeOK
    <2> QED
      BY <2>1, <2>2, IssueEffect, MeshValues DEF Issuing
  <1>2. Transit' = Transit
    BY DEF Issuing, Transit, InFlight
  <1>3. /\ Holdings \in [Chains -> [Holders -> Int]]
        /\ Holdings' \in [Chains -> [Holders -> Int]]
    BY HoldingsTable
  <1>4. \A e \in Chains, x \in Holders :
           Holdings'[e][x] = IF e = c /\ x = wallet THEN Holdings[e][x] + d
                                                    ELSE Holdings[e][x]
    BY <1>1, HoldingValue
  <1>5. /\ Holdings[c][wallet] = balances[c][wallet]
        /\ Holdings'[c][wallet] = Holdings[c][wallet] + d
        /\ Holdings' = [Holdings EXCEPT ![c][wallet] = @ + d]
    BY <1>1, <1>3, <1>4, HoldingValue, HoldingsAdd
  <1>6. CASE d > 0
    <2>1. d = Holdings'[c][wallet] - Holdings[c][wallet]
      BY <1>1, <1>5
    <2> QED
      BY <1>1, <1>2, <1>5, <1>6, <2>1, LedgerIssue
  <1>7. CASE d < 0
    <2> DEFINE amount == -d
    <2>1. /\ amount = Holdings[c][wallet] - Holdings'[c][wallet] /\ amount > 0
          /\ Holdings[c][wallet] >= amount /\ issued' = issued - amount
          /\ -amount = d
      BY <1>1, <1>5, <1>7
    <2> HIDE DEF amount
    <2>2. Holdings' = [Holdings EXCEPT ![c][wallet] = @ + (-amount)]
      BY <1>5, <2>1
    <2> QED
      BY <1>1, <1>2, <2>1, <2>2, LedgerRetire
  <1>8. CASE d = 0
    <2>1. \A e \in Chains, x \in Holders : Holdings'[e][x] = Holdings[e][x]
      BY <1>1, <1>4, <1>5, <1>8
    <2>2. Holdings' = Holdings
      BY <1>3, <2>1, HoldingsAgree
    <2> QED
      BY <1>1, <1>2, <1>8, <2>2
  <1> QED
    BY <1>6, <1>7, <1>8

\* A payment or a recovery, not of what the hub locks, pays or changes nothing.
LEMMA PayingMaps ==
    ASSUME TypeOK, AdapterActive, NEW c \in Chains, NEW from \in Holders,
           NEW to \in Holders, NEW amount \in Nat, Paying(c, from, to, amount)
    PROVE  Ledger!Next \/ UNCHANGED <<Holdings, Transit, issued>>
  <1>1. /\ TypeOK' /\ issued' = issued /\ Outstanding' = Outstanding
        /\ \A e \in Chains, x \in Holders :
              balances'[e][x] =
                 IF e = c /\ from # to /\ x = from THEN balances[e][x] - amount
                 ELSE IF e = c /\ from # to /\ x = to THEN balances[e][x] + amount
                 ELSE balances[e][x]
    BY PaymentEffect DEF Paying
  <1>2. ~(c \in LockChains /\ from = Adapter) /\ balances[c][from] >= amount
    BY MeshArguments DEF Paying, AdapterActive
  <1>3. Transit' = Transit
    BY DEF Paying, Transit, InFlight
  <1>4. /\ Holdings \in [Chains -> [Holders -> Int]]
        /\ Holdings' \in [Chains -> [Holders -> Int]]
        /\ Outstanding \in Nat
        /\ \A e \in Chains, x \in Holders : balances[e][x] \in Nat
    BY <1>1, HoldingsTable, OutstandingValue, MeshValues
  <1>5. \A e \in Chains, x \in Holders :
           Holdings'[e][x] =
              IF e = c /\ from # to /\ x = from THEN Holdings[e][x] - amount
              ELSE IF e = c /\ from # to /\ x = to THEN Holdings[e][x] + amount
              ELSE Holdings[e][x]
    <2> SUFFICES ASSUME NEW e \in Chains, NEW x \in Holders
                 PROVE  Holdings'[e][x] =
              IF e = c /\ from # to /\ x = from THEN Holdings[e][x] - amount
              ELSE IF e = c /\ from # to /\ x = to THEN Holdings[e][x] + amount
              ELSE Holdings[e][x]
      OBVIOUS
    <2>1. CASE e \in LockChains /\ x = Adapter
      <3>1. /\ Holdings[e][x] = balances[e][x] - Outstanding
            /\ Holdings'[e][x] = balances'[e][x] - Outstanding
        BY <1>1, <2>1, HoldingValue
      <3> QED
        BY <1>1, <1>2, <1>4, <2>1, <3>1
    <2>2. CASE ~(e \in LockChains /\ x = Adapter)
      <3>1. Holdings[e][x] = balances[e][x] /\ Holdings'[e][x] = balances'[e][x]
        BY <2>2, HoldingValue
      <3> QED
        BY <1>1, <3>1
    <2> QED
      BY <2>1, <2>2
  <1>6. CASE from # to /\ amount > 0
    <2>1. /\ Holdings[c][from] = balances[c][from]
          /\ Holdings[c][from] >= amount
          /\ Holdings[c][to] \in Int
          /\ Holdings'[c][to] = Holdings[c][to] + amount
      BY <1>2, <1>4, <1>5, <1>6, HoldingValue
    <2>2. amount = Holdings'[c][to] - Holdings[c][to]
      BY <2>1
    <2>3. Holdings' = [Holdings EXCEPT ![c] =
              [[Holdings[c] EXCEPT ![from] = @ - amount] EXCEPT ![to] = @ + amount]]
      <3>1. \A e \in Chains, x \in Holders :
               Holdings'[e][x] =
                  IF e = c /\ x = from THEN Holdings[e][x] - amount
                  ELSE IF e = c /\ x = to THEN Holdings[e][x] + amount
                  ELSE Holdings[e][x]
        BY <1>5, <1>6
      <3>2. amount \in Int
        OBVIOUS
      <3> QED
        BY <1>4, <1>6, <3>1, <3>2, HoldingsMove
    <2>4. Transit' = Transit /\ issued' = issued
      BY <1>1, <1>3
    <2>5. Ledger!Next
      BY <1>6, <2>1, <2>2, <2>3, <2>4, LedgerPay
    <2> QED
      BY <2>5
  <1>7. CASE from = to \/ amount = 0
    <2>1. \A e \in Chains, x \in Holders : Holdings'[e][x] = Holdings[e][x]
      BY <1>4, <1>5, <1>7
    <2>2. Holdings' = Holdings
      BY <1>4, <2>1, HoldingsAgree
    <2> QED
      BY <1>1, <1>3, <2>2
  <1> QED
    BY <1>6, <1>7

\* Every step of the mesh is a step of the ledger, or leaves it.
LEMMA MeshStepMaps ==
    ASSUME MaxIssued <= MaxShared, MeshInv, AdapterActive, Next
    PROVE  Ledger!Next \/ UNCHANGED <<Holdings, Transit, issued>>
  <1>1. TypeOK /\ TypeOK'
    BY MeshNextKeeps DEF MeshInv
  <1>2. CASE FreezeStep \/ OutageStep
    <2>1. UNCHANGED <<balances, issued, packets, delivered>>
      BY <1>1, <1>2, AdminEffect, Zenon DEF tokenVars
    <2>2. Outstanding' = Outstanding
      BY <2>1 DEF Outstanding, SupplyOf, Supply, InFlightAmount, InFlight
    <2>3. Transit' = Transit
      BY <2>1 DEF Transit, InFlight
    <2>4. \A e \in Chains, x \in Holders : Holdings'[e][x] = Holdings[e][x]
      BY <2>1, <2>2, HoldingValue
    <2>5. Holdings' = Holdings
      BY <1>1, <2>4, HoldingsTable, HoldingsAgree
    <2> QED
      BY <2>1, <2>3, <2>5
  <1>3. CASE TokenStep
    <2>1. PICK c \in Chains :
             \/ \E wallet \in Wallets, d \in Int : Issuing(c, wallet, d)
             \/ \E from, to \in Holders, amount \in Nat :
                   Paying(c, from, to, amount)
      BY <1>3, TokenStepEffect
    <2>2. CASE \E wallet \in Wallets, d \in Int : Issuing(c, wallet, d)
      BY <1>1, <2>2, IssuingMaps
    <2>3. CASE \E from, to \in Holders, amount \in Nat :
                  Paying(c, from, to, amount)
      BY <1>1, <2>3, PayingMaps
    <2> QED
      BY <2>1, <2>2, <2>3
  <1>4. ASSUME NEW c \in Chains, NEW wallet \in Wallets,
               NEW to \in Holders \union {Nobody}, NEW amount \in Amount,
               NEW d \in Chains \ {c}, Send(c, wallet, d, to, amount)
        PROVE  Ledger!Next
    BY <1>1, <1>4, SendDeparts
  <1>5. ASSUME NEW i \in 1..MaxPackets, Receive(i)
        PROVE  Ledger!Next
    <2>1. i \in InFlight
      BY <1>5 DEF Receive, InFlight
    <2> QED
      BY <1>1, <1>5, <2>1, ReceiveArrives
  <1> QED
    BY <1>2, <1>3, <1>4, <1>5 DEF Next, BridgeStep

\* The mesh implements the one ledger: with amounts that fit a message and a
\* hub whose registry cannot deny its own adapter, every send is one transfer
\* setting out, every receipt its only arrival, and nothing else moves tokens
\* between chains.
THEOREM MeshImplementsLedger ==
    ASSUME Sealed, MaxIssued <= MaxShared
    PROVE  Spec => ImplementsLedger
  <1>1. Init => Ledger!Init
    <2> SUFFICES ASSUME Init PROVE Ledger!Init
      OBVIOUS
    <2>1. TypeOK /\ Outstanding = 0
      BY MeshInit DEF MeshInv
    <2>2. \A c \in Chains, h \in Holders : Held(c, h) = 0
      BY <2>1 DEF Init, Held
    <2>3. Holdings = [c \in Chains |-> [h \in Holders |-> 0]]
      BY <2>2 DEF Holdings
    <2>4. Transit = {} /\ issued = 0
      BY DEF Init, Transit, InFlight
    <2> QED
      BY <2>3, <2>4 DEF Ledger!Init, Holdings, Transit
  <1>2. MeshInv /\ HubInv /\ [Next]_vars => [Ledger!Next]_(Ledger!ledger)
    <2>1. ASSUME MeshInv, HubInv, Next
          PROVE  Ledger!Next \/ UNCHANGED <<Holdings, Transit, issued>>
      BY <2>1, MeshStepMaps DEF HubInv
    <2>2. ASSUME UNCHANGED vars
          PROVE  UNCHANGED <<Holdings, Transit, issued>>
      BY <2>2 DEF vars, Holdings, Held, Outstanding, SupplyOf, Supply,
         InFlightAmount, InFlight, Transit
    <2>3. UNCHANGED <<Holdings, Transit, issued>> => UNCHANGED Ledger!ledger
      BY DEF Ledger!ledger, Holdings, Transit
    <2> QED
      BY <2>1, <2>2, <2>3
  <1> QED
    BY <1>1, <1>2, MeshInvariant, HubInvariant, PTL
       DEF Spec, ImplementsLedger, Ledger!Spec
=============================================================================

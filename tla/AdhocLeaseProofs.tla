--------------------------- MODULE AdhocLeaseProofs ---------------------------
(***************************************************************************)
(* The pool of a gateway keeps every address in one place, and no terminal *)
(* uses an address that its gateway does not lease to it: for any numbers  *)
(* of domains, terminals and addresses, any retry limit and any bound on   *)
(* the TXIDs.                                                              *)
(***************************************************************************)
EXTENDS AdhocLease, FunctionTheorems, FiniteSetTheorems, TLAPS

(* A free list of n addresses that all differ, its head taken off. *)
LEMMA TailOfPool ==
    ASSUME NEW S, NEW q \in Seq(S), q # <<>>
    PROVE  /\ Head(q) \in S /\ Head(q) = q[1] /\ 1 \in DOMAIN q
           /\ Tail(q) \in Seq(S)
           /\ \A i \in DOMAIN Tail(q) : i + 1 \in DOMAIN q /\ Tail(q)[i] = q[i + 1]
           /\ \A j \in DOMAIN q : j = 1 \/ (j - 1 \in DOMAIN Tail(q) /\ Tail(q)[j - 1] = q[j])
           /\ DOMAIN q \subseteq Nat /\ DOMAIN Tail(q) \subseteq Nat
  OBVIOUS

LEMMA AppendToPool ==
    ASSUME NEW S, NEW q \in Seq(S), NEW a \in S
    PROVE  /\ Append(q, a) \in Seq(S)
           /\ DOMAIN Append(q, a) = DOMAIN q \union {Len(q) + 1}
           /\ \A i \in DOMAIN q : Append(q, a)[i] = q[i]
           /\ Append(q, a)[Len(q) + 1] = a
           /\ Len(q) + 1 \notin DOMAIN q
  OBVIOUS

(* One entry of a table of tables is set. *)
LEMMA SetEntry ==
    ASSUME NEW D, NEW M, NEW S, NEW f \in [D -> [M -> S]],
           NEW d \in D, NEW m \in M, NEW a \in S
    PROVE  /\ [f EXCEPT ![d][m] = a] \in [D -> [M -> S]]
           /\ \A e \in D, n \in M :
                 [f EXCEPT ![d][m] = a][e][n] = IF e = d /\ n = m THEN a ELSE f[e][n]
  OBVIOUS

-----------------------------------------------------------------------------
(* Types. *)

PoolTypes ==
    /\ available \in [Domains -> Seq(Addresses)]
    /\ macToIp \in [Domains -> [Macs -> Addresses \union {NoIp}]]

LEMMA AllocateTypes ==
    ASSUME PoolTypes, NEW d \in Domains, NEW m \in Macs, AllocateIp(d, m)
    PROVE  PoolTypes' /\ Granted(d, m) \in Addresses \union {NoIp}
  <1>1. CASE macToIp[d][m] = NoIp /\ available[d] # <<>>
    <2>1. Head(available[d]) \in Addresses /\ Tail(available[d]) \in Seq(Addresses)
      BY <1>1, TailOfPool DEF PoolTypes
    <2>2. available' \in [Domains -> Seq(Addresses)]
      BY <1>1, <2>1 DEF PoolTypes, AllocateIp
    <2>3. macToIp' \in [Domains -> [Macs -> Addresses \union {NoIp}]]
      <3> DEFINE a == Head(available[d])
      <3>1. macToIp' = [macToIp EXCEPT ![d][m] = a]
        BY <1>1 DEF AllocateIp
      <3>2. a \in Addresses \union {NoIp}
        BY <2>1
      <3> HIDE DEF a
      <3> QED
        BY <3>1, <3>2, SetEntry DEF PoolTypes
    <2> QED
      BY <1>1, <2>1, <2>2, <2>3 DEF PoolTypes, Granted
  <1>2. CASE ~(macToIp[d][m] = NoIp /\ available[d] # <<>>)
    BY <1>2 DEF PoolTypes, AllocateIp, Granted, poolVars
  <1> QED
    BY <1>1, <1>2

LEMMA ReleaseTypes ==
    ASSUME PoolTypes, NEW d \in Domains, NEW m \in Macs, ReleaseIp(d, m)
    PROVE  PoolTypes'
  <1>1. CASE macToIp[d][m] # NoIp
    <2>1. Append(available[d], macToIp[d][m]) \in Seq(Addresses)
      BY <1>1, AppendToPool DEF PoolTypes
    <2>2. available' \in [Domains -> Seq(Addresses)]
      BY <1>1, <2>1 DEF PoolTypes, ReleaseIp
    <2>3. macToIp' \in [Domains -> [Macs -> Addresses \union {NoIp}]]
      <3>1. macToIp' = [macToIp EXCEPT ![d][m] = NoIp]
        BY <1>1 DEF ReleaseIp
      <3>2. NoIp \in Addresses \union {NoIp}
        OBVIOUS
      <3> QED
        BY <3>1, <3>2, SetEntry DEF PoolTypes
    <2> QED
      BY <2>2, <2>3 DEF PoolTypes
  <1>2. CASE macToIp[d][m] = NoIp
    BY <1>2 DEF PoolTypes, ReleaseIp, poolVars
  <1> QED
    BY <1>1, <1>2

LEMMA SendRequestTypes ==
    ASSUME TypeOK, NEW c \in Clients, NEW n \in Nat, SendRequest(c, n)
    PROVE  /\ pending' \in [Clients -> Nat]
           /\ nextTx' \in [Clients -> Nat]
           /\ requests' \in [Clients -> SUBSET Nat]
  BY DEF TypeOK, SendRequest

(* The variables of every reachable state hold values of their types. *)
LEMMA TypeInit == Init => TypeOK
  BY PoolAssumption, NamesAssumption DEF Init, TypeOK

LEMMA TypeStep == TypeOK /\ [Next]_vars => TypeOK'
  <1> SUFFICES ASSUME TypeOK, [Next]_vars PROVE TypeOK'
    OBVIOUS
  <1> USE DEF TypeOK
  <1>p. PoolTypes
    BY DEF PoolTypes
  <1>0. \A c \in Clients : c \in Macs /\ (dom[c] # Away => dom[c] \in Domains)
    BY DEF Macs
  <1>1. ASSUME NEW c \in Clients, NEW d \in Domains, Access(c, d) PROVE TypeOK'
    <2>1. (holds[c] # NoIp) \in BOOLEAN /\ 0 \in 0..MaxRetries /\ 0 \in Nat
      BY NamesAssumption
    <2>2. CASE d = dom[c]
      BY <1>1, <2>1, <2>2 DEF Access, poolVars
    <2>3. CASE d # dom[c]
      <3>1. /\ releasing' \in [Clients -> BOOLEAN]
            /\ requests' \in [Clients -> SUBSET Nat]
            /\ pending' \in [Clients -> Nat]
        BY <1>1, <2>1, <2>3 DEF Access
      <3>2. /\ dom' \in [Clients -> Domains \union {Away}]
            /\ holds' \in [Clients -> Addresses \union {NoIp}]
            /\ retries' \in [Clients -> 0..MaxRetries]
        BY <1>1, <2>1, <2>3 DEF Access
      <3> QED
        BY <1>1, <3>1, <3>2 DEF Access, poolVars
    <2> QED
      BY <2>2, <2>3
  <1>2. ASSUME NEW c \in Clients, Leave(c) PROVE TypeOK'
    <2>1. leaving' \in [Clients -> Domains \union {Away}]
      BY <1>2, <1>0 DEF Leave
    <2> QED
      BY <1>2, <2>1, NamesAssumption DEF Leave, poolVars
  <1>2a. ASSUME NEW c \in Clients, CommitHandover(c) PROVE TypeOK'
    BY <1>2a DEF CommitHandover, poolVars, timerVars, frameVars
  <1>2b. ASSUME NEW c \in Clients, AbortHandover(c) PROVE TypeOK'
    BY <1>2b DEF AbortHandover, poolVars, timerVars, frameVars
  <1>3. ASSUME NEW c \in Clients, RequestAdhocIp(c) PROVE TypeOK'
    <2>1. CASE holds[c] = NoIp
      <3>1. SendRequest(c, retries[c]) /\ retries[c] \in Nat
        BY <1>3, <2>1, NamesAssumption DEF RequestAdhocIp
      <3> QED
        BY <1>3, <3>1, SendRequestTypes DEF RequestAdhocIp, poolVars
    <2>2. CASE holds[c] # NoIp
      BY <1>3, <2>2 DEF RequestAdhocIp, poolVars
    <2> QED
      BY <2>1, <2>2
  <1>4. ASSUME NEW c \in Clients, RetryAdhocIp(c) PROVE TypeOK'
    <2>1. CASE holds[c] = NoIp /\ ~RetriesExhausted(c)
      <3>1. retries[c] + 1 \in 0..MaxRetries
        BY <2>1, NamesAssumption DEF RetriesExhausted
      <3>2. SendRequest(c, retries[c] + 1) /\ retries[c] + 1 \in Nat
        BY <1>4, <2>1, <3>1 DEF RetryAdhocIp
      <3> QED
        BY <1>4, <2>1, <3>1, <3>2, SendRequestTypes DEF RetryAdhocIp, poolVars
    <2>2. CASE ~(holds[c] = NoIp /\ ~RetriesExhausted(c))
      <3>1. 0 \in 0..MaxRetries /\ 0 \in Nat
        BY NamesAssumption
      <3>2. retries' = retries \/ retries' = [retries EXCEPT ![c] = 0]
        BY <1>4, <2>2 DEF RetryAdhocIp
      <3>3. retries' \in [Clients -> 0..MaxRetries]
        BY <3>1, <3>2
      <3>4. pending' \in [Clients -> Nat] /\ UNCHANGED <<nextTx, requests>>
        BY <1>4, <2>2, <3>1 DEF RetryAdhocIp
      <3>5. retryTimer' \in [Clients -> BOOLEAN]
        BY <1>4, <2>2 DEF RetryAdhocIp
      <3> QED
        BY <1>4, <3>3, <3>4, <3>5 DEF RetryAdhocIp, poolVars
    <2> QED
      BY <2>1, <2>2
  <1>5. ASSUME NEW c \in Clients, NEW tx \in requests[c], HearRequest(c, tx) PROVE TypeOK'
    <2> DEFINE d == dom[c]
    <2>1. d \in Domains /\ AllocateIp(d, c)
      BY <1>0, <1>5 DEF HearRequest
    <2>2. PoolTypes' /\ Granted(d, c) \in Addresses \union {NoIp}
      BY <1>0, <1>p, <2>1, AllocateTypes
    <2>3. secret' \in [Domains -> Macs \union {NoMac}]
      <3>1. secret' = secret \/ secret' = [secret EXCEPT ![d] = c]
        BY <1>5 DEF HearRequest, DeriveSecret
      <3> QED
        BY <1>0, <2>1, <3>1
    <2>4. tx \in Nat
      BY <1>5
    <2>5. offers' \in [Clients -> SUBSET Offers]
      <3> DEFINE ip == Granted(d, c)
                 offer == [dom |-> d, ip |-> ip, tx |-> tx, signer |-> secret'[d]]
      <3>1. CASE ip = NoIp
        BY <1>5, <3>1 DEF HearRequest
      <3>2. CASE ip # NoIp
        <4>1. offer \in Offers
          BY <2>1, <2>2, <2>3, <2>4, <3>2 DEF Offers
        <4>2. offers' = [offers EXCEPT ![c] = @ \union {offer}]
          BY <1>5, <3>2 DEF HearRequest
        <4> QED
          BY <4>1, <4>2
      <3> QED
        BY <3>1, <3>2
    <2>6. requests' \in [Clients -> SUBSET Nat]
      BY <1>5 DEF HearRequest
    <2> QED
      BY <1>5, <2>2, <2>3, <2>5, <2>6 DEF HearRequest, PoolTypes, clientVars, timerVars
  <1>6. ASSUME NEW c \in Clients, HearRelease(c) PROVE TypeOK'
    <2>1. PoolTypes'
      BY <1>0, <1>6, <1>p, ReleaseTypes DEF HearRelease
    <2> QED
      BY <1>6, <2>1 DEF HearRelease, PoolTypes, clientVars, timerVars
  <1>7. ASSUME NEW c \in Clients, NEW o \in offers[c], HearOffer(c, o) PROVE TypeOK'
    <2>1. o.ip \in Addresses
      BY <1>7 DEF Offers
    <2> QED
      <3>1. 0 \in 0..MaxRetries /\ 0 \in Nat
        BY NamesAssumption
      <3>2. /\ holds' \in [Clients -> Addresses \union {NoIp}]
            /\ retries' \in [Clients -> 0..MaxRetries]
            /\ retryTimer' \in [Clients -> BOOLEAN]
        BY <1>7, <2>1, <3>1 DEF HearOffer
      <3>3. pending' \in [Clients -> Nat] /\ offers' \in [Clients -> SUBSET Offers]
        BY <1>7, <3>1 DEF HearOffer
      <3> QED
        BY <1>7, <3>2, <3>3 DEF HearOffer, poolVars
  <1>8. ASSUME NEW c \in Clients, LoseFrame(c) PROVE TypeOK'
    BY <1>8 DEF LoseFrame, poolVars, clientVars, timerVars
  <1>9. ASSUME NEW d \in Domains, NEW m \in StaMacs, OverhearStaRequest(d, m) PROVE TypeOK'
    <2>1. PoolTypes'
      BY <1>9, <1>p, AllocateTypes DEF OverhearStaRequest, Macs
    <2>2. secret' \in [Domains -> Macs \union {NoMac}]
      BY <1>9 DEF OverhearStaRequest, DeriveSecret, Macs
    <2> QED
      BY <1>9, <2>1, <2>2
         DEF OverhearStaRequest, PoolTypes, clientVars, timerVars, frameVars
  <1>10. CASE UNCHANGED vars
    BY <1>10 DEF vars, poolVars, clientVars, timerVars, frameVars
  <1> QED
    BY <1>1, <1>2, <1>2a, <1>2b, <1>3, <1>4, <1>5, <1>6, <1>7, <1>8, <1>9, <1>10 DEF Next

THEOREM TypeCorrect == Spec => []TypeOK
  BY TypeInit, TypeStep, PTL DEF Spec

-----------------------------------------------------------------------------
(* The pool. *)

(* PoolPartition for one gateway, with free list q and map f. *)
Partition(q, f) ==
    /\ \A i, j \in DOMAIN q : q[i] = q[j] => i = j
    /\ \A m, n \in Macs : f[m] = f[n] => m = n \/ f[m] = NoIp
    /\ {q[i] : i \in DOMAIN q} \intersect ({f[m] : m \in Macs} \ {NoIp}) = {}
    /\ {q[i] : i \in DOMAIN q} \union ({f[m] : m \in Macs} \ {NoIp}) = Addresses

LEMMA PartitionOfEach == PoolPartition <=> \A d \in Domains : Partition(available[d], macToIp[d])
  BY DEF PoolPartition, Partition, Free, Leased

LEMMA PartitionTake ==
    ASSUME NEW q \in Seq(Addresses), q # <<>>,
           NEW f \in [Macs -> Addresses \union {NoIp}],
           NEW m \in Macs, f[m] = NoIp, Partition(q, f)
    PROVE  Partition(Tail(q), [f EXCEPT ![m] = Head(q)])
  <1> DEFINE t == Tail(q)
             a == Head(q)
             g == [f EXCEPT ![m] = a]
             F == {q[i] : i \in DOMAIN q}
             L == {f[n] : n \in Macs} \ {NoIp}
  <1>1. /\ a \in Addresses /\ a = q[1] /\ 1 \in DOMAIN q
        /\ \A i \in DOMAIN t : i \in Nat /\ i + 1 \in DOMAIN q /\ t[i] = q[i + 1]
        /\ \A j \in DOMAIN q : j \in Nat /\ (j = 1 \/ (j - 1 \in DOMAIN t /\ t[j - 1] = q[j]))
    BY TailOfPool, Zenon
  <1>1a. \A i \in DOMAIN t : i >= 1
    OBVIOUS
  <1>2. a # NoIp /\ a \in F /\ a \notin L
    <2>1. a \in F
      BY <1>1
    <2>2. a # NoIp
      BY <1>1, PoolAssumption
    <2> QED
      BY <2>1, <2>2 DEF Partition
  <1>3. \A n \in Macs : g[n] = IF n = m THEN a ELSE f[n]
    OBVIOUS
  <1>4. {g[n] : n \in Macs} \ {NoIp} = L \union {a}
    BY <1>2, <1>3
  <1>5. {t[i] : i \in DOMAIN t} = F \ {a}
    <2>1. ASSUME NEW i \in DOMAIN t PROVE t[i] \in F \ {a}
      <3>1. t[i] = q[i + 1] /\ i + 1 \in DOMAIN q /\ i + 1 # 1
        BY <1>1, <1>1a
      <3> QED
        BY <1>1, <3>1 DEF Partition
    <2>2. ASSUME NEW j \in DOMAIN q, q[j] # a PROVE \E i \in DOMAIN t : t[i] = q[j]
      BY <1>1, <2>2
    <2> QED
      BY <2>1, <2>2
  <1>6. \A i, j \in DOMAIN t : t[i] = t[j] => i = j
    <2> SUFFICES ASSUME NEW i \in DOMAIN t, NEW j \in DOMAIN t, t[i] = t[j] PROVE i = j
      OBVIOUS
    <2>1. i + 1 = j + 1
      BY <1>1 DEF Partition
    <2> QED
      BY <1>1, <2>1
  <1>7. \A n, p \in Macs : g[n] = g[p] => n = p \/ g[n] = NoIp
    BY <1>2, <1>3 DEF Partition
  <1>8. (F \ {a}) \intersect (L \union {a}) = {} /\ (F \ {a}) \union (L \union {a}) = Addresses
    BY <1>1, <1>2 DEF Partition
  <1> QED
    BY <1>4, <1>5, <1>6, <1>7, <1>8 DEF Partition

LEMMA PartitionReturn ==
    ASSUME NEW q \in Seq(Addresses),
           NEW f \in [Macs -> Addresses \union {NoIp}],
           NEW m \in Macs, f[m] # NoIp, Partition(q, f)
    PROVE  Partition(Append(q, f[m]), [f EXCEPT ![m] = NoIp])
  <1> DEFINE a == f[m]
             t == Append(q, a)
             g == [f EXCEPT ![m] = NoIp]
             F == {q[i] : i \in DOMAIN q}
             L == {f[n] : n \in Macs} \ {NoIp}
  <1>1. a \in Addresses /\ a \in L /\ a \notin F
    BY DEF Partition
  <1>2. /\ DOMAIN t = DOMAIN q \union {Len(q) + 1}
        /\ \A i \in DOMAIN q : t[i] = q[i]
        /\ t[Len(q) + 1] = a
    BY <1>1, AppendToPool
  <1>3. \A n \in Macs : g[n] = IF n = m THEN NoIp ELSE f[n]
    OBVIOUS
  <1>4. {g[n] : n \in Macs} \ {NoIp} = L \ {a}
    <2>1. \A n \in Macs : n # m => f[n] # a
      BY DEF Partition
    <2> QED
      BY <1>3, <2>1
  <1>5. {t[i] : i \in DOMAIN t} = F \union {a}
    BY <1>2
  <1>6. \A i, j \in DOMAIN t : t[i] = t[j] => i = j
    BY <1>1, <1>2 DEF Partition
  <1>7. \A n, p \in Macs : g[n] = g[p] => n = p \/ g[n] = NoIp
    BY <1>3 DEF Partition
  <1>8. (F \union {a}) \intersect (L \ {a}) = {} /\ (F \union {a}) \union (L \ {a}) = Addresses
    BY <1>1 DEF Partition
  <1> QED
    BY <1>4, <1>5, <1>6, <1>7, <1>8 DEF Partition

LEMMA AllocateKeepsPartition ==
    ASSUME PoolTypes, PoolPartition, NEW d \in Domains, NEW m \in Macs, AllocateIp(d, m)
    PROVE  PoolPartition'
  <1>1. CASE macToIp[d][m] = NoIp /\ available[d] # <<>>
    <2>1. \A e \in Domains :
             /\ available'[e] = IF e = d THEN Tail(available[e]) ELSE available[e]
             /\ macToIp'[e] = IF e = d THEN [macToIp[e] EXCEPT ![m] = Head(available[e])]
                              ELSE macToIp[e]
      BY <1>1 DEF AllocateIp, PoolTypes
    <2>2. \A e \in Domains : Partition(available[e], macToIp[e])
      BY PartitionOfEach
    <2>3. Partition(Tail(available[d]), [macToIp[d] EXCEPT ![m] = Head(available[d])])
      BY <1>1, <2>2, PartitionTake DEF PoolTypes
    <2>4. \A e \in Domains : Partition(available'[e], macToIp'[e])
      BY <2>1, <2>2, <2>3
    <2> QED
      BY <2>4 DEF PoolPartition, Partition, Free, Leased
  <1>2. CASE ~(macToIp[d][m] = NoIp /\ available[d] # <<>>)
    <2>1. available' = available /\ macToIp' = macToIp
      BY <1>2 DEF AllocateIp, poolVars
    <2> QED
      BY <2>1 DEF PoolPartition, Free, Leased
  <1> QED
    BY <1>1, <1>2

LEMMA ReleaseKeepsPartition ==
    ASSUME PoolTypes, PoolPartition, NEW d \in Domains, NEW m \in Macs, ReleaseIp(d, m)
    PROVE  PoolPartition'
  <1>1. CASE macToIp[d][m] # NoIp
    <2>1. \A e \in Domains :
             /\ available'[e] = IF e = d THEN Append(available[e], macToIp[e][m])
                                ELSE available[e]
             /\ macToIp'[e] = IF e = d THEN [macToIp[e] EXCEPT ![m] = NoIp] ELSE macToIp[e]
      BY <1>1 DEF ReleaseIp, PoolTypes
    <2>2. \A e \in Domains : Partition(available[e], macToIp[e])
      BY PartitionOfEach
    <2>3. Partition(Append(available[d], macToIp[d][m]), [macToIp[d] EXCEPT ![m] = NoIp])
      BY <1>1, <2>2, PartitionReturn DEF PoolTypes
    <2>4. \A e \in Domains : Partition(available'[e], macToIp'[e])
      BY <2>1, <2>2, <2>3
    <2> QED
      BY <2>4 DEF PoolPartition, Partition, Free, Leased
  <1>2. CASE macToIp[d][m] = NoIp
    BY <1>2 DEF ReleaseIp, poolVars, PoolPartition, Free, Leased
  <1> QED
    BY <1>1, <1>2

LEMMA PartitionInit == Init => PoolPartition
  BY PoolAssumption DEF Init, PoolPartition, Free, Leased, Addresses

LEMMA PartitionStep == TypeOK /\ PoolPartition /\ [Next]_vars => PoolPartition'
  <1> SUFFICES ASSUME TypeOK, PoolPartition, [Next]_vars PROVE PoolPartition'
    OBVIOUS
  <1>1. PoolTypes /\ \A c \in Clients : c \in Macs /\ (dom[c] # Away => dom[c] \in Domains)
    BY DEF TypeOK, PoolTypes, Macs
  <1>2. ASSUME NEW c \in Clients, NEW tx \in requests[c], HearRequest(c, tx) PROVE PoolPartition'
    BY <1>1, <1>2, AllocateKeepsPartition DEF HearRequest
  <1>3. ASSUME NEW d \in Domains, NEW m \in StaMacs, OverhearStaRequest(d, m) PROVE PoolPartition'
    BY <1>1, <1>3, AllocateKeepsPartition DEF OverhearStaRequest, Macs
  <1>4. ASSUME NEW c \in Clients, HearRelease(c) PROVE PoolPartition'
    BY <1>1, <1>4, ReleaseKeepsPartition DEF HearRelease
  <1>5. CASE UNCHANGED poolVars
    BY <1>5 DEF poolVars, PoolPartition, Free, Leased
  <1>6. ASSUME NEW c \in Clients,
               \/ \E d \in Domains : Access(c, d)
               \/ Leave(c) \/ CommitHandover(c) \/ AbortHandover(c) \/ RequestAdhocIp(c) \/ RetryAdhocIp(c)
               \/ \E o \in offers[c] : HearOffer(c, o)
               \/ LoseFrame(c)
        PROVE  UNCHANGED poolVars
    BY <1>6, Zenon DEF Access, Leave, CommitHandover, AbortHandover, RequestAdhocIp, RetryAdhocIp, HearOffer, LoseFrame
  <1>7. CASE UNCHANGED vars
    BY <1>7, <1>5 DEF vars
  <1> QED
    BY <1>2, <1>3, <1>4, <1>5, <1>6, <1>7 DEF Next

(* Every address of a gateway's pool is once in its free list or leased to *)
(* exactly one MAC (AllocateIp, ReleaseIp).                                *)
THEOREM PoolStaysPartitioned == Spec => []PoolPartition
  BY TypeInit, TypeStep, PartitionInit, PartitionStep, PTL DEF Spec

(* A pool has as many addresses as its range is long.                      *)
LEMMA PoolSize == IsFiniteSet(Addresses) /\ Cardinality(Addresses) = Len(Pool)
  <1> DEFINE R == 1..Len(Pool)
  <1>1. Len(Pool) \in Nat /\ DOMAIN Pool = R /\ Pool \in [R -> Addresses]
    BY PoolAssumption
  <1>2. Pool \in Bijection(R, Addresses)
    <2>1. \A i, j \in R : Pool[i] = Pool[j] => i = j
      BY <1>1, PoolAssumption
    <2>2. \A a \in Addresses : \E i \in R : Pool[i] = a
      BY <1>1 DEF Addresses
    <2> HIDE DEF R
    <2> QED
      BY <1>1, <2>1, <2>2, Fun_IsBij
  <1>3. IsFiniteSet(R) /\ Cardinality(R) = Len(Pool)
    <2>1. IsFiniteSet(R) /\ Cardinality(R) = IF 1 > Len(Pool) THEN 0 ELSE Len(Pool) - 1 + 1
      BY <1>1, FS_Interval
    <2> QED
      BY <1>1, <2>1
  <1> HIDE DEF R
  <1> QED
    BY <1>2, <1>3, Fun_ExistsBij, FS_Bijection

Holders(d) == {n \in Macs : macToIp[d][n] # NoIp}

(* With an empty free list, every address of the pool has its holder.      *)
LEMMA EmptyPoolIsLeased ==
    ASSUME TypeOK, PoolPartition, NEW d \in Domains, available[d] = <<>>
    PROVE  IsFiniteSet(Holders(d)) /\ Cardinality(Holders(d)) = Len(Pool)
  <1> DEFINE H == Holders(d)
             f == [n \in H |-> macToIp[d][n]]
  <1>1. Leased(d) = Addresses
    <2>1. Free(d) = {}
      BY DEF Free
    <2> QED
      BY <2>1 DEF PoolPartition
  <1>2. f \in [H -> Addresses]
    BY DEF Holders, TypeOK
  <1>3. \A m, n \in H : f[m] = f[n] => m = n
    BY DEF Holders, PoolPartition
  <1>4. \A a \in Addresses : \E n \in H : f[n] = a
    BY <1>1 DEF Holders, Leased
  <1>5. f \in Bijection(H, Addresses)
    <2> HIDE DEF H, f
    <2> QED
      BY <1>2, <1>3, <1>4, Fun_IsBij
  <1>6. ExistsBijection(Addresses, H)
    <2> HIDE DEF H, f
    <2> QED
      BY <1>5, Fun_ExistsBij, Fun_ExistsBijSymmetric
  <1> HIDE DEF H
  <1>7. IsFiniteSet(H) /\ Cardinality(H) = Len(Pool)
    BY <1>6, PoolSize, FS_Bijection
  <1> QED
    BY <1>7 DEF H

LEMMA RefusalMeansFull ==
    ASSUME TypeOK, PoolPartition, NEW d \in Domains, NEW m \in Macs, Granted(d, m) = NoIp
    PROVE  /\ m \notin Holders(d)
           /\ IsFiniteSet(Holders(d)) /\ Cardinality(Holders(d)) = Len(Pool)
  <1>1. macToIp[d][m] = NoIp
    BY DEF Granted
  <1>2. available[d] = <<>>
    <2>1. available[d] # <<>> => Head(available[d]) \in Addresses
      BY TailOfPool DEF TypeOK
    <2> QED
      BY <1>1, <2>1, PoolAssumption DEF Granted
  <1> QED
    BY <1>1, <1>2, EmptyPoolIsLeased DEF Holders

(* A MAC is refused an address only when the whole pool is leased to       *)
(* others, so no address is ever lost between free list and map            *)
(* (AllocateIp, ReleaseIp).                                                *)
THEOREM RefusalNeedsFullPool == Spec => []RefusedOnlyWhenFull
  <1>1. ASSUME TypeOK, PoolPartition PROVE RefusedOnlyWhenFull
    <2> SUFFICES ASSUME NEW d \in Domains, NEW m \in Macs, Granted(d, m) = NoIp
                 PROVE  Cardinality({n \in Macs \ {m} : macToIp[d][n] # NoIp}) = Len(Pool)
      BY DEF RefusedOnlyWhenFull
    <2>1. {n \in Macs \ {m} : macToIp[d][n] # NoIp} = Holders(d)
      BY <1>1, RefusalMeansFull DEF Holders
    <2> QED
      BY <1>1, <2>1, RefusalMeansFull
  <1> QED
    BY <1>1, TypeCorrect, PoolStaysPartitioned, PTL

(* A pool with an address for each MAC around refuses nobody, whatever     *)
(* leases are never released (AllocateIp).                                 *)
EveryoneGetsAnAddress == \A d \in Domains, m \in Macs : Granted(d, m) # NoIp

THEOREM LargePoolServesAll ==
    ASSUME IsFiniteSet(Macs), Cardinality(Macs) <= Len(Pool)
    PROVE  Spec => []EveryoneGetsAnAddress
  <1>1. ASSUME TypeOK, PoolPartition PROVE EveryoneGetsAnAddress
    <2> SUFFICES ASSUME NEW d \in Domains, NEW m \in Macs, Granted(d, m) = NoIp PROVE FALSE
      BY DEF EveryoneGetsAnAddress
    <2>1. m \notin Holders(d) /\ Cardinality(Holders(d)) = Len(Pool)
      BY <1>1, RefusalMeansFull
    <2>2. Holders(d) \in SUBSET Macs /\ Cardinality(Macs) \in Nat /\ Len(Pool) \in Nat
      BY FS_CardinalityType, PoolAssumption DEF Holders
    <2>3. Cardinality(Holders(d)) <= Cardinality(Macs)
      BY <2>2, FS_Subset
    <2>4. Macs = Holders(d)
      BY <2>1, <2>2, <2>3, FS_Subset
    <2> QED
      BY <2>1, <2>4
  <1> QED
    BY <1>1, TypeCorrect, PoolStaysPartitioned, PTL

-----------------------------------------------------------------------------
(* The lease of an address in use. *)

(* LeaseInv for one terminal. *)
LeaseOf(c) ==
    /\ holds[c] # NoIp => Granter(c) # Away /\ macToIp[Granter(c)][c] = holds[c]
    /\ leaving[c] # Away => dom[c] = Away /\ holds[c] # NoIp /\ pending[c] = 0
    /\ releasing[c] => holds[c] = NoIp
    /\ \A o \in offers[c] :
          pending[c] # 0 /\ o.tx = pending[c] =>
              o.dom = dom[c] /\ ~releasing[c] /\ macToIp[o.dom][c] = o.ip
    /\ pending[c] < nextTx[c]
    /\ \A tx \in requests[c] : tx < nextTx[c]
    /\ \A o \in offers[c] : o.tx < nextTx[c]

LEMMA LeaseOfEach == LeaseInv <=> \A c \in Clients : LeaseOf(c)
  BY DEF LeaseInv, HolderIsLeased, ReleaseComesFirst, AcceptableOfferIsLeased,
         LeavingKeepsTheLease, TxIdsAreUsedOnce, IsExpectedAdhocOffer, LeaseOf

(* What a gateway does for a MAC never changes a lease that exists. *)
LEMMA AllocateKeepsLeases ==
    ASSUME PoolTypes, NEW d \in Domains, NEW m \in Macs, AllocateIp(d, m)
    PROVE  /\ \A e \in Domains, n \in Macs :
                 macToIp[e][n] # NoIp => macToIp'[e][n] = macToIp[e][n]
           /\ macToIp'[d][m] = Granted(d, m)
  <1>1. CASE macToIp[d][m] = NoIp /\ available[d] # <<>>
    <2> DEFINE a == Head(available[d])
    <2>1. macToIp' = [macToIp EXCEPT ![d][m] = a] /\ Granted(d, m) = a
      BY <1>1 DEF AllocateIp, Granted
    <2>2. a \in Addresses \union {NoIp}
      BY <1>1, TailOfPool DEF PoolTypes
    <2> HIDE DEF a
    <2>3. \A e \in Domains, n \in Macs :
             macToIp'[e][n] = IF e = d /\ n = m THEN a ELSE macToIp[e][n]
      BY <2>1, <2>2, SetEntry DEF PoolTypes
    <2> QED
      BY <1>1, <2>1, <2>3
  <1>2. CASE ~(macToIp[d][m] = NoIp /\ available[d] # <<>>)
    BY <1>2 DEF AllocateIp, Granted, poolVars
  <1> QED
    BY <1>1, <1>2

LEMMA ReleaseKeepsOthers ==
    ASSUME PoolTypes, NEW d \in Domains, NEW m \in Macs, ReleaseIp(d, m)
    PROVE  \A e \in Domains, n \in Macs : n # m => macToIp'[e][n] = macToIp[e][n]
  <1>1. CASE macToIp[d][m] # NoIp
    <2>1. macToIp' = [macToIp EXCEPT ![d][m] = NoIp] /\ NoIp \in Addresses \union {NoIp}
      BY <1>1 DEF ReleaseIp
    <2> QED
      BY <2>1, SetEntry DEF PoolTypes
  <1>2. CASE macToIp[d][m] = NoIp
    BY <1>2 DEF ReleaseIp, poolVars
  <1> QED
    BY <1>1, <1>2

(* A terminal whose own state does not change, and whose leases do not. *)
LEMMA LeaseOfBystander ==
    ASSUME TypeOK, NEW e \in Clients, LeaseOf(e),
           dom'[e] = dom[e], leaving'[e] = leaving[e], holds'[e] = holds[e], pending'[e] = pending[e],
           nextTx'[e] = nextTx[e], releasing'[e] = releasing[e],
           requests'[e] \subseteq requests[e], offers'[e] \subseteq offers[e],
           \A d \in Domains : macToIp[d][e] # NoIp => macToIp'[d][e] = macToIp[d][e]
    PROVE  LeaseOf(e)'
  <1>1. /\ Granter(e)' = Granter(e)
        /\ holds[e] # NoIp => Granter(e) \in Domains /\ macToIp'[Granter(e)][e] = holds[e]
    BY DEF TypeOK, LeaseOf, Granter
  <1>2. \A o \in offers[e] : o.dom \in Domains /\ o.ip \in Addresses /\ o.ip # NoIp
    BY PoolAssumption DEF TypeOK, Offers
  <1> QED
    BY <1>1, <1>2 DEF LeaseOf

LEMMA LeaseInit == Init => LeaseInv
  BY LeaseOfEach DEF Init, LeaseOf, Granter

(* Each action disturbs the lease of one terminal only. *)
LEMMA LeaseStep == TypeOK /\ LeaseInv /\ [Next]_vars => LeaseInv'
  <1> SUFFICES ASSUME TypeOK, LeaseInv, [Next]_vars,
                      NEW e \in Clients
               PROVE  LeaseOf(e)'
    BY LeaseOfEach DEF LeaseInv, HolderIsLeased, ReleaseComesFirst, AcceptableOfferIsLeased,
         LeavingKeepsTheLease, TxIdsAreUsedOnce, IsExpectedAdhocOffer, LeaseOf
  <1>0. LeaseOf(e)
    BY LeaseOfEach
  <1>t. TypeOK'
    BY TypeStep
  <1>g. holds[e] # NoIp => Granter(e) \in Domains /\ macToIp[Granter(e)][e] = holds[e]
    BY <1>0 DEF LeaseOf, Granter, TypeOK
  <1>p. PoolTypes /\ \A c \in Clients : c \in Macs /\ (dom[c] # Away => dom[c] \in Domains)
    BY DEF TypeOK, PoolTypes, Macs
  <1>1. ASSUME NEW c \in Clients, NEW d \in Domains, Access(c, d) PROVE LeaseOf(e)'
    <2>1. CASE c # e
      BY <1>0, <1>1, <2>1, LeaseOfBystander DEF Access, TypeOK, poolVars
    <2>2. CASE c = e /\ d = dom[c]
      BY <1>0, <1>1, <2>2 DEF Access, TypeOK, poolVars, LeaseOf, Granter
    <2>3. CASE c = e /\ d # dom[c]
      <3>1. /\ holds'[e] = NoIp /\ pending'[e] = 0 /\ requests'[e] = {}
            /\ offers' = offers /\ nextTx' = nextTx /\ leaving'[e] = Away
        BY <1>1, <2>3 DEF Access, TypeOK
      <3>2. 0 < nextTx[e]
        BY <1>0 DEF LeaseOf, TypeOK
      <3> QED
        BY <1>0, <3>1, <3>2 DEF LeaseOf
    <2> QED
      BY <2>1, <2>2, <2>3
  <1>2. ASSUME NEW c \in Clients, Leave(c) PROVE LeaseOf(e)'
    <2>1. CASE c # e
      BY <1>0, <1>2, <2>1, LeaseOfBystander DEF Leave, TypeOK, poolVars
    <2>2. CASE c = e
      <3>1. /\ pending'[e] = 0 /\ requests'[e] = {} /\ dom'[e] = Away /\ ~releasing'[e]
            /\ leaving'[e] = IF holds[e] # NoIp THEN dom[e] ELSE Away
            /\ UNCHANGED <<holds, offers, nextTx, macToIp>>
        BY <1>2, <2>2 DEF Leave, TypeOK, poolVars
      <3>2. 0 < nextTx[e]
        BY <1>0 DEF LeaseOf, TypeOK
      <3>3. holds[e] # NoIp => Granter(e) = dom[e]
        BY <1>0, <1>2, <2>2 DEF Leave, LeaseOf, Granter
      <3>4. holds[e] # NoIp => Granter(e)' = Granter(e)
        BY <1>2, <2>2, <3>1, <3>3 DEF Leave, Granter
      <3> QED
        BY <1>0, <3>1, <3>2, <3>4 DEF LeaseOf
    <2> QED
      BY <2>1, <2>2
  <1>2a. ASSUME NEW c \in Clients, CommitHandover(c) PROVE LeaseOf(e)'
    <2>1. CASE c # e
      BY <1>0, <1>2a, <2>1, LeaseOfBystander
         DEF CommitHandover, TypeOK, poolVars, frameVars
    <2>2. CASE c = e
      <3>1. /\ holds'[e] = NoIp /\ leaving'[e] = Away
            /\ UNCHANGED <<pending, requests, offers, nextTx, macToIp, releasing>>
            /\ pending[e] = 0
        BY <1>0, <1>2a, <2>2 DEF CommitHandover, TypeOK, poolVars, frameVars, LeaseOf
      <3> QED
        BY <1>0, <3>1 DEF LeaseOf
    <2> QED
      BY <2>1, <2>2
  <1>2b. ASSUME NEW c \in Clients, AbortHandover(c) PROVE LeaseOf(e)'
    <2>1. CASE c # e
      BY <1>0, <1>2b, <2>1, LeaseOfBystander
         DEF AbortHandover, TypeOK, poolVars, frameVars
    <2>2. CASE c = e
      <3>1. /\ dom'[e] = leaving[e] /\ leaving[e] # Away /\ leaving'[e] = Away
            /\ UNCHANGED <<holds, pending, requests, offers, nextTx, macToIp, releasing>>
            /\ pending[e] = 0
        BY <1>0, <1>2b, <2>2 DEF AbortHandover, TypeOK, poolVars, frameVars, LeaseOf
      <3>2. Granter(e)' = Granter(e)
        BY <3>1 DEF Granter
      <3> QED
        BY <1>0, <3>1, <3>2 DEF LeaseOf
    <2> QED
      BY <2>1, <2>2
  <1>3. ASSUME NEW c \in Clients, NEW n \in Nat, SendRequest(c, n), holds[c] = NoIp,
               UNCHANGED <<macToIp, dom, leaving, holds, releasing, offers>>
        PROVE  LeaseOf(e)'
    <2>1. CASE c # e
      BY <1>0, <1>3, <2>1, LeaseOfBystander DEF SendRequest, TypeOK
    <2>2. CASE c = e /\ (n = 0 \/ pending[c] = 0)
      <3>1. /\ pending'[e] = nextTx[e] /\ nextTx'[e] = nextTx[e] + 1
            /\ requests'[e] = requests[e] \union {nextTx[e]}
        BY <1>3, <2>2 DEF SendRequest, TypeOK
      <3>2. nextTx[e] \in Nat /\ pending[e] \in Nat /\ requests[e] \subseteq Nat
            /\ \A o \in offers[e] : o.tx \in Nat
        BY DEF TypeOK, Offers
      <3>3. \A o \in offers[e] : o.tx # pending'[e] /\ o.tx < nextTx'[e]
        BY <1>0, <3>1, <3>2 DEF LeaseOf
      <3>4. pending'[e] < nextTx'[e] /\ \A tx \in requests'[e] : tx < nextTx'[e]
        BY <1>0, <3>1, <3>2 DEF LeaseOf
      <3> QED
        BY <1>0, <1>3, <2>2, <3>3, <3>4 DEF LeaseOf
    <2>3. CASE c = e /\ ~(n = 0 \/ pending[c] = 0)
      <3>1. /\ pending'[e] = pending[e] /\ nextTx' = nextTx
            /\ requests'[e] = requests[e] \union {pending[e]}
        BY <1>3, <2>3 DEF SendRequest, TypeOK
      <3> QED
        BY <1>0, <1>3, <2>3, <3>1 DEF LeaseOf
    <2> QED
      BY <2>1, <2>2, <2>3
  <1>4. ASSUME NEW c \in Clients, RequestAdhocIp(c) PROVE LeaseOf(e)'
    <2>1. CASE holds[c] = NoIp
      <3>1. retries[c] \in Nat
        BY NamesAssumption DEF TypeOK
      <3> QED
        BY <1>3, <1>4, <2>1, <3>1 DEF RequestAdhocIp, poolVars
    <2>2. CASE holds[c] # NoIp
      BY <1>0, <1>4, <2>2, LeaseOfBystander DEF RequestAdhocIp, poolVars
    <2> QED
      BY <2>1, <2>2
  <1>5. ASSUME NEW c \in Clients, RetryAdhocIp(c) PROVE LeaseOf(e)'
    <2>1. CASE holds[c] = NoIp /\ ~RetriesExhausted(c)
      <3>1. retries[c] + 1 \in Nat
        BY NamesAssumption DEF TypeOK
      <3> QED
        BY <1>3, <1>5, <2>1, <3>1 DEF RetryAdhocIp, poolVars
    <2>2. CASE holds[c] = NoIp /\ RetriesExhausted(c)
      <3>1. /\ pending'[e] = IF c = e THEN 0 ELSE pending[e]
            /\ UNCHANGED <<macToIp, dom, leaving, holds, nextTx, releasing, requests, offers>>
        BY <1>5, <2>2 DEF RetryAdhocIp, TypeOK, poolVars
      <3>2. pending'[e] < nextTx[e]
        BY <1>0, <3>1 DEF LeaseOf, TypeOK
      <3>3. Granter(e)' = Granter(e)
        BY <3>1 DEF Granter
      <3> QED
        BY <1>0, <3>1, <3>2, <3>3 DEF LeaseOf
    <2>3. CASE holds[c] # NoIp
      BY <1>0, <1>5, <2>3, LeaseOfBystander DEF RetryAdhocIp, poolVars
    <2> QED
      BY <2>1, <2>2, <2>3
  <1>6. ASSUME NEW c \in Clients, NEW tx \in requests[c], HearRequest(c, tx) PROVE LeaseOf(e)'
    <2> DEFINE d == dom[c]
               ip == Granted(d, c)
               offer == [dom |-> d, ip |-> ip, tx |-> tx, signer |-> secret'[d]]
    <2>1. d \in Domains /\ c \in Macs /\ ~releasing[c] /\ AllocateIp(d, c)
      BY <1>6, <1>p DEF HearRequest
    <2>2. /\ \A f \in Domains, n \in Macs :
                macToIp[f][n] # NoIp => macToIp'[f][n] = macToIp[f][n]
          /\ macToIp'[d][c] = ip
      BY <1>p, <2>1, AllocateKeepsLeases
    <2>3. UNCHANGED <<dom, leaving, holds, pending, nextTx, releasing>>
      BY <1>6 DEF HearRequest, clientVars
    <2>4. requests'[e] \subseteq requests[e]
      BY <1>6 DEF HearRequest, TypeOK
    <2>5. CASE c # e \/ ip = NoIp
      <3>1. offers'[e] = offers[e]
        BY <1>6, <2>5 DEF HearRequest, TypeOK
      <3> QED
        BY <1>0, <1>p, <2>2, <2>3, <2>4, <3>1, LeaseOfBystander
    <2>6. CASE c = e /\ ip # NoIp
      <3>1. offers'[e] = offers[e] \union {offer}
        BY <1>6, <2>6 DEF HearRequest, TypeOK
      <3>2. offer.tx < nextTx[e]
        BY <1>0, <1>6, <2>6 DEF LeaseOf
      <3>3. offer.dom = dom[e] /\ ~releasing[e] /\ macToIp'[offer.dom][e] = offer.ip
        BY <2>1, <2>2, <2>6
      <3>4. Granter(e)' = Granter(e) /\ (holds[e] # NoIp => macToIp'[Granter(e)][e] = holds[e])
        BY <1>g, <1>p, <2>2, <2>3, PoolAssumption DEF Granter
      <3>5. \A o \in offers[e] : o.dom \in Domains /\ o.ip # NoIp
        BY PoolAssumption DEF TypeOK, Offers
      <3>6. \A o \in offers[e] :
               pending[e] # 0 /\ o.tx = pending[e] =>
                   o.dom = dom[e] /\ ~releasing[e] /\ macToIp'[o.dom][e] = o.ip
        BY <1>0, <1>p, <2>2, <3>5 DEF LeaseOf
      <3> HIDE DEF offer
      <3> QED
        BY <1>0, <2>3, <2>4, <3>1, <3>2, <3>3, <3>4, <3>6 DEF LeaseOf
    <2> QED
      BY <2>5, <2>6
  <1>7. ASSUME NEW c \in Clients, HearRelease(c) PROVE LeaseOf(e)'
    <2>1. dom[c] \in Domains /\ c \in Macs /\ releasing[c] /\ ReleaseIp(dom[c], c)
      BY <1>7, <1>p DEF HearRelease
    <2>2. \A f \in Domains, n \in Macs : n # c => macToIp'[f][n] = macToIp[f][n]
      BY <1>p, <2>1, ReleaseKeepsOthers
    <2>3. UNCHANGED <<dom, leaving, holds, pending, nextTx, requests, offers>>
      BY <1>7 DEF HearRelease, clientVars
    <2>4. CASE c # e
      <3>1. releasing'[e] = releasing[e]
        BY <1>7, <2>4 DEF HearRelease, TypeOK
      <3> QED
        BY <1>0, <1>p, <2>2, <2>3, <2>4, <3>1, LeaseOfBystander
    <2>5. CASE c = e
      <3>1. holds[e] = NoIp /\ \A o \in offers[e] : ~(pending[e] # 0 /\ o.tx = pending[e])
        BY <1>0, <2>1, <2>5 DEF LeaseOf
      <3> QED
        BY <1>0, <2>3, <3>1 DEF LeaseOf
    <2> QED
      BY <2>4, <2>5
  <1>8. ASSUME NEW c \in Clients, NEW o \in offers[c], HearOffer(c, o) PROVE LeaseOf(e)'
    <2>1. UNCHANGED <<macToIp, dom, leaving, nextTx, releasing, requests>> /\ offers'[e] \subseteq offers[e]
      BY <1>8 DEF HearOffer, TypeOK, poolVars
    <2>2. CASE c # e
      <3>1. holds'[e] = holds[e] /\ pending'[e] = pending[e]
        BY <1>8, <2>2 DEF HearOffer, TypeOK
      <3> QED
        BY <1>0, <2>1, <3>1, LeaseOfBystander
    <2>3. CASE c = e
      <3>1. pending'[e] = 0 /\ holds'[e] \in {holds[e], o.ip} /\ o.dom = dom[e]
        BY <1>8, <2>3 DEF HearOffer, TypeOK
      <3>2. ~releasing[e] /\ macToIp[dom[e]][e] = o.ip
        BY <1>0, <1>8, <2>3, <3>1 DEF LeaseOf, HearOffer, IsExpectedAdhocOffer
      <3>3. dom[e] # Away
        BY <1>8, <2>3, <3>1, NamesAssumption DEF TypeOK, Offers
      <3>4. 0 < nextTx[e] /\ leaving[e] = Away
        BY <1>0, <3>3 DEF LeaseOf, TypeOK
      <3>5. Granter(e)' = dom[e] /\ Granter(e) = dom[e]
        BY <2>1, <3>4 DEF Granter
      <3> QED
        BY <1>0, <2>1, <3>1, <3>2, <3>3, <3>4, <3>5 DEF LeaseOf
    <2> QED
      BY <2>2, <2>3
  <1>9. ASSUME NEW c \in Clients, LoseFrame(c) PROVE LeaseOf(e)'
    <2>1. /\ UNCHANGED <<macToIp, dom, leaving, holds, pending, nextTx>>
          /\ requests'[e] \subseteq requests[e] /\ offers'[e] \subseteq offers[e]
          /\ releasing'[e] => releasing[e]
      BY <1>9 DEF LoseFrame, TypeOK, poolVars, clientVars
    <2>2. Granter(e)' = Granter(e)
      BY <2>1 DEF Granter
    <2> QED
      BY <1>0, <2>1, <2>2 DEF LeaseOf
  <1>10. ASSUME NEW d \in Domains, NEW m \in StaMacs, OverhearStaRequest(d, m) PROVE LeaseOf(e)'
    <2>1. \A f \in Domains, n \in Macs : macToIp[f][n] # NoIp => macToIp'[f][n] = macToIp[f][n]
      BY <1>10, <1>p, AllocateKeepsLeases DEF OverhearStaRequest, Macs
    <2> QED
      BY <1>0, <1>10, <1>p, <2>1, LeaseOfBystander
         DEF OverhearStaRequest, clientVars, frameVars
  <1>11. CASE UNCHANGED vars
    BY <1>0, <1>11, LeaseOfBystander DEF vars, poolVars, clientVars, frameVars
  <1> QED
    BY <1>1, <1>2, <1>2a, <1>2b, <1>4, <1>5, <1>6, <1>7, <1>8, <1>9, <1>10, <1>11 DEF Next

(* An address is in use, or its IP_RELEASE waits, but never both; an offer *)
(* that a terminal would accept is its lease; TXIDs are never drawn twice. *)
THEOREM LeaseInvHolds == Spec => []LeaseInv
  BY TypeInit, TypeStep, LeaseInit, LeaseStep, PTL DEF Spec

(* An address in use is leased to its user, whatever frames were lost,     *)
(* heard twice or heard late (IsExpectedAdhocOffer, ExecuteSwitch).        *)
THEOREM HolderStaysLeased == Spec => []HolderIsLeased
  <1>1. LeaseInv => HolderIsLeased
    BY DEF LeaseInv
  <1> QED
    BY <1>1, LeaseInvHolds, PTL

(* Two terminals of one domain never use the same address: the holder's    *)
(* lease and the partition of the pool together.                           *)
THEOREM NoAddressIsShared == Spec => []NoTwoHolders
  <1>1. TypeOK /\ PoolPartition /\ HolderIsLeased => NoTwoHolders
    BY DEF TypeOK, PoolPartition, HolderIsLeased, NoTwoHolders, Granter, Macs
  <1> QED
    BY <1>1, TypeCorrect, PoolStaysPartitioned, HolderStaysLeased, PTL

-----------------------------------------------------------------------------
(* The refinement of AddressContract. *)

(* A step that keeps what each terminal uses keeps the use of the contract.*)
LEMMA UseKept ==
    ASSUME \A c \in Clients : InUse(c)' = InUse(c)
    PROVE  UNCHANGED [c \in Clients |-> InUse(c)]
  OBVIOUS

LEMMA UseKeptOutside ==
    ASSUME UNCHANGED <<holds, dom, leaving>>
    PROVE  UNCHANGED [c \in Clients |-> InUse(c)]
  BY DEF InUse, Granter

(* One terminal stops to use its address.                                  *)
LEMMA DropRefines ==
    ASSUME NEW c \in Clients, holds'[c] = NoIp, UNCHANGED macToIp,
           \A e \in Clients \ {c} :
              holds'[e] = holds[e] /\ dom'[e] = dom[e] /\ leaving'[e] = leaving[e]
    PROVE  Contract!Drop(c)
  <1>1. \A e \in Clients : InUse(e)' = IF e = c THEN NoUse ELSE InUse(e)
    BY DEF InUse, Granter
  <1>2. [e \in Clients |-> InUse(e)]' = [[e \in Clients |-> InUse(e)] EXCEPT ![c] = NoUse]
    BY <1>1
  <1> QED
    BY <1>2 DEF Contract!Drop

(* An address is leased that nobody has, or nothing is leased.             *)
LEMMA AllocateRefines ==
    ASSUME PoolTypes, PoolPartition, NEW d \in Domains, NEW m \in Macs, AllocateIp(d, m),
           UNCHANGED <<holds, dom, leaving>>
    PROVE  \/ UNCHANGED <<macToIp, [c \in Clients |-> InUse(c)]>>
           \/ \E a \in Addresses : Contract!Lease(d, m, a)
  <1>u. UNCHANGED [c \in Clients |-> InUse(c)]
    BY UseKeptOutside
  <1>1. CASE macToIp[d][m] = NoIp /\ available[d] # <<>>
    <2> DEFINE a == Head(available[d])
    <2>1. macToIp' = [macToIp EXCEPT ![d][m] = a]
      BY <1>1 DEF AllocateIp
    <2>2. a \in Addresses /\ a = available[d][1] /\ 1 \in DOMAIN available[d]
      BY <1>1, TailOfPool DEF PoolTypes
    <2>3. \A n \in Macs : macToIp[d][n] # a
      <3>1. a \in Free(d) /\ a # NoIp
        BY <2>2, PoolAssumption DEF Free
      <3>2. a \notin Leased(d)
        BY <3>1 DEF PoolPartition
      <3> QED
        BY <3>1, <3>2 DEF Leased
    <2> HIDE DEF a
    <2>4. Contract!Lease(d, m, a)
      BY <1>1, <1>u, <2>1, <2>3 DEF Contract!Lease
    <2> QED
      BY <2>2, <2>4
  <1>2. CASE ~(macToIp[d][m] = NoIp /\ available[d] # <<>>)
    BY <1>2, <1>u DEF AllocateIp, poolVars
  <1> QED
    BY <1>1, <1>2

(* An IP_RELEASE takes a lease that its terminal does not use: while one   *)
(* is in its queue the terminal has no address.                            *)
LEMMA ReleaseRefines ==
    ASSUME TypeOK, LeaseInv, NEW c \in Clients, HearRelease(c)
    PROVE  \/ UNCHANGED <<macToIp, [e \in Clients |-> InUse(e)]>>
           \/ Contract!TakeBack(dom[c], c)
  <1>1. /\ dom[c] \in Domains /\ releasing[c] /\ ReleaseIp(dom[c], c)
        /\ UNCHANGED <<holds, dom, leaving>>
    BY DEF HearRelease, clientVars, TypeOK
  <1>u. UNCHANGED [e \in Clients |-> InUse(e)]
    BY <1>1, UseKeptOutside
  <1>2. InUse(c) = NoUse
    BY <1>1 DEF LeaseInv, ReleaseComesFirst, InUse
  <1>3. CASE macToIp[dom[c]][c] = NoIp
    BY <1>1, <1>3, <1>u DEF ReleaseIp, poolVars
  <1>4. CASE macToIp[dom[c]][c] # NoIp
    <2>1. macToIp' = [macToIp EXCEPT ![dom[c]][c] = NoIp]
      BY <1>1, <1>4 DEF ReleaseIp
    <2>2. \A a : NoUse # [dom |-> dom[c], ip |-> a]
      BY <1>1, NamesAssumption DEF NoUse
    <2> QED
      BY <1>2, <1>u, <2>1, <2>2 DEF Contract!TakeBack
  <1> QED
    BY <1>3, <1>4

(* An offer that is accepted names the address that the terminal is leased *)
(* where it is; with an address already, it is that one.                   *)
LEMMA OfferRefines ==
    ASSUME TypeOK, LeaseInv, NEW c \in Clients, NEW o \in offers[c], HearOffer(c, o)
    PROVE  \/ UNCHANGED <<macToIp, [e \in Clients |-> InUse(e)]>>
           \/ Contract!Use(c, dom[c])
  <1>1. /\ o.dom = dom[c] /\ IsExpectedAdhocOffer(c, o)
        /\ UNCHANGED <<macToIp, dom, leaving>>
        /\ UNCHANGED holds \/ holds' = [holds EXCEPT ![c] = o.ip]
    BY DEF HearOffer, poolVars
  <1>2. dom[c] \in Domains /\ dom[c] # Away /\ o.ip \in Addresses /\ o.ip # NoIp
    BY <1>1, PoolAssumption, NamesAssumption DEF TypeOK, Offers
  <1>3. macToIp[dom[c]][c] = o.ip
    BY <1>1 DEF LeaseInv, AcceptableOfferIsLeased
  <1>4. Granter(c) = dom[c] /\ Granter(c)' = dom[c]
    BY <1>1, <1>2 DEF LeaseInv, LeavingKeepsTheLease, Granter
  <1>5. CASE UNCHANGED holds
    BY <1>1, <1>5, UseKeptOutside
  <1>6. CASE holds' = [holds EXCEPT ![c] = o.ip] /\ holds[c] # NoIp
    <2>1. holds[c] = o.ip
      BY <1>3, <1>4, <1>6 DEF LeaseInv, HolderIsLeased
    <2>2. UNCHANGED holds
      BY <1>6, <2>1 DEF TypeOK
    <2> QED
      BY <1>1, <2>2, UseKeptOutside
  <1>7. CASE holds' = [holds EXCEPT ![c] = o.ip] /\ holds[c] = NoIp
    <2> DEFINE u == [dom |-> dom[c], ip |-> o.ip]
    <2>1. InUse(c) = NoUse /\ InUse(c)' = u
      BY <1>2, <1>4, <1>7 DEF InUse, TypeOK
    <2>2. \A e \in Clients \ {c} : InUse(e)' = InUse(e)
      BY <1>1, <1>7 DEF InUse, Granter, TypeOK
    <2> HIDE DEF u
    <2>3. [e \in Clients |-> InUse(e)]' = [[e \in Clients |-> InUse(e)] EXCEPT ![c] = u]
      BY <2>1, <2>2
    <2> QED
      BY <1>1, <1>2, <1>3, <2>1, <2>3 DEF Contract!Use, u
  <1> QED
    BY <1>1, <1>5, <1>6, <1>7

LEMMA AccessRefines ==
    ASSUME TypeOK, NEW c \in Clients, NEW d \in Domains, Access(c, d)
    PROVE  \/ UNCHANGED <<macToIp, [e \in Clients |-> InUse(e)]>>
           \/ Contract!Drop(c)
  <1>1. UNCHANGED <<macToIp, leaving>>
    BY DEF Access, poolVars
  <1>2. CASE d = dom[c]
    BY <1>1, <1>2, UseKeptOutside DEF Access
  <1>3. CASE d # dom[c]
    <2>1. /\ holds'[c] = NoIp
          /\ \A e \in Clients \ {c} : holds'[e] = holds[e] /\ dom'[e] = dom[e]
      BY <1>3 DEF Access, TypeOK
    <2> QED
      BY <1>1, <2>1, DropRefines
  <1> QED
    BY <1>2, <1>3

(* Leaving and coming back keep the address and its granter.               *)
LEMMA HandoverKeepsUse ==
    ASSUME TypeOK, LeaseInv, NEW c \in Clients, Leave(c) \/ AbortHandover(c)
    PROVE  UNCHANGED <<macToIp, [e \in Clients |-> InUse(e)]>>
  <1>1. UNCHANGED <<macToIp, holds>>
    BY DEF Leave, AbortHandover, poolVars
  <1>2. \A e \in Clients \ {c} : Granter(e)' = Granter(e)
    BY DEF Leave, AbortHandover, TypeOK, Granter
  <1>3. holds[c] # NoIp => Granter(c)' = Granter(c)
    BY DEF Leave, AbortHandover, TypeOK, Granter, LeaseInv, LeavingKeepsTheLease
  <1>4. \A e \in Clients : InUse(e)' = InUse(e)
    BY <1>1, <1>2, <1>3 DEF InUse
  <1> QED
    BY <1>1, <1>4

LEMMA ContractInit == Init => Contract!Init
  BY DEF Init, Contract!Init, InUse

LEMMA ContractStep ==
    TypeOK /\ PoolPartition /\ LeaseInv /\ [Next]_vars
        => [Contract!Next]_<<macToIp, [c \in Clients |-> InUse(c)]>>
  <1> SUFFICES ASSUME TypeOK, PoolPartition, LeaseInv, [Next]_vars
               PROVE  \/ Contract!Next
                      \/ UNCHANGED <<macToIp, [c \in Clients |-> InUse(c)]>>
    OBVIOUS
  <1>0. PoolTypes /\ \A c \in Clients : c \in Macs /\ (dom[c] # Away => dom[c] \in Domains)
    BY DEF TypeOK, PoolTypes, Macs
  <1>1. ASSUME NEW c \in Clients, NEW d \in Domains, Access(c, d)
        PROVE  \/ UNCHANGED <<macToIp, [e \in Clients |-> InUse(e)]>>
               \/ Contract!Drop(c)
    BY <1>1, AccessRefines
  <1>2. ASSUME NEW c \in Clients, Leave(c) \/ AbortHandover(c)
        PROVE  UNCHANGED <<macToIp, [e \in Clients |-> InUse(e)]>>
    BY <1>2, HandoverKeepsUse
  <1>3. ASSUME NEW c \in Clients, CommitHandover(c) PROVE Contract!Drop(c)
    BY <1>3, DropRefines DEF CommitHandover, TypeOK, poolVars
  <1>4. ASSUME NEW c \in Clients, RequestAdhocIp(c) \/ RetryAdhocIp(c) \/ LoseFrame(c)
        PROVE  UNCHANGED <<macToIp, [e \in Clients |-> InUse(e)]>>
    BY <1>4, UseKeptOutside DEF RequestAdhocIp, RetryAdhocIp, LoseFrame, poolVars, clientVars
  <1>5. ASSUME NEW c \in Clients, NEW tx \in requests[c], HearRequest(c, tx)
        PROVE  \/ UNCHANGED <<macToIp, [e \in Clients |-> InUse(e)]>>
               \/ \E a \in Addresses : Contract!Lease(dom[c], c, a)
    BY <1>0, <1>5, AllocateRefines DEF HearRequest, clientVars
  <1>6. ASSUME NEW c \in Clients, HearRelease(c)
        PROVE  \/ UNCHANGED <<macToIp, [e \in Clients |-> InUse(e)]>>
               \/ Contract!TakeBack(dom[c], c)
    BY <1>6, ReleaseRefines
  <1>7. ASSUME NEW c \in Clients, NEW o \in offers[c], HearOffer(c, o)
        PROVE  \/ UNCHANGED <<macToIp, [e \in Clients |-> InUse(e)]>>
               \/ dom[c] \in Domains /\ Contract!Use(c, dom[c])
    <2>1. dom[c] \in Domains
      BY <1>7 DEF HearOffer, TypeOK, Offers
    <2> QED
      BY <1>7, <2>1, OfferRefines
  <1>8. ASSUME NEW d \in Domains, NEW m \in StaMacs, OverhearStaRequest(d, m)
        PROVE  \/ UNCHANGED <<macToIp, [e \in Clients |-> InUse(e)]>>
               \/ \E a \in Addresses : Contract!Lease(d, m, a)
    BY <1>0, <1>8, AllocateRefines DEF OverhearStaRequest, clientVars, Macs
  <1>9. CASE UNCHANGED vars
    BY <1>9, UseKeptOutside DEF vars, poolVars, clientVars
  <1> QED
    <2>1. CASE \E c \in Clients : HearRelease(c) \/ \E tx \in requests[c] : HearRequest(c, tx)
      <3>1. \A c \in Clients : HearRelease(c) => dom[c] \in Domains
        BY <1>0 DEF HearRelease
      <3>2. \A c \in Clients : \A tx \in requests[c] : HearRequest(c, tx) => dom[c] \in Domains
        BY <1>0 DEF HearRequest
      <3> QED
        BY <1>0, <1>5, <1>6, <2>1, <3>1, <3>2 DEF Contract!Next
    <2>2. CASE \E d \in Domains, m \in StaMacs : OverhearStaRequest(d, m)
      BY <1>8, <2>2 DEF Contract!Next, Macs
    <2>3. CASE \E c \in Clients :
                  \/ \E d \in Domains : Access(c, d)
                  \/ Leave(c) \/ AbortHandover(c) \/ CommitHandover(c)
                  \/ RequestAdhocIp(c) \/ RetryAdhocIp(c) \/ LoseFrame(c)
                  \/ \E o \in offers[c] : HearOffer(c, o)
      BY <1>1, <1>2, <1>3, <1>4, <1>7, <2>3 DEF Contract!Next
    <2> QED
      BY <1>9, <2>1, <2>2, <2>3 DEF Next

(* Gateways and terminals keep the contract of an address service: an      *)
(* address is leased to one MAC, used only while it is leased to its user, *)
(* and neither taken back nor replaced in use - through lost, repeated and *)
(* late frames and handovers that abort (AllocateIp, ReleaseIp,            *)
(* HandleAdhocIpMessage, ExecuteSwitch).                                   *)
THEOREM LeasesKeepContract == Spec => ContractKept
  <1> QED
    BY ContractInit, ContractStep, TypeCorrect, PoolStaysPartitioned, LeaseInvHolds, PTL
       DEF Spec, ContractKept, Contract!Spec
===============================================================================

------------------------- MODULE Addresses_proofs --------------------------
(***************************************************************************)
(* Proofs about the two components that decide which peer an address leads *)
(* to: PeerRegistry, which entry holds a virtual address, for any devices, *)
(* addresses, keys, names and table size, and ExitRouting, which route the *)
(* packets to an exit node take, for every set of peers, every number of   *)
(* requests served at once and every limit of failures.                    *)
(*                                                                         *)
(* Upsert meets the other entries one by one, in any order. Sound and      *)
(* Owners say what holds of that loop after any number of them, by         *)
(* induction over the number met; Outcome is what is left for the steps of *)
(* the specification.                                                      *)
(*                                                                         *)
(* The inductive invariant of ExitRouting is Inv: the types, which caller  *)
(* may be at which command, the state of the watchdog that has given up,   *)
(* and where a host route into the tunnel, or a gateway that will make     *)
(* one, can come from. OneRequestInv is about requests that do not         *)
(* overlap: it accounts for each of the tunnel's two routes by the command *)
(* that is still to add or to delete it, so that the watchdog's commands   *)
(* and the request's may fall between each other in any way.               *)
(***************************************************************************)
EXTENDS PeerRegistry, ExitRouting, Integers, FiniteSetTheorems,
        FunctionTheorems, WellFoundedInduction, TLAPS

-----------------------------------------------------------------------------
(* Induction over the naturals, for a set of numbers instead of a predicate *)

(* A set of naturals that is not empty has a least element.                *)
LEMMA LeastNatural ==
  ASSUME NEW T, T \subseteq Nat, T # {}
  PROVE  \E n \in T : \A m \in T : n <= m
<1>1. IsWellFoundedOn(OpToRel(<, Nat), Nat)
  BY NatLessThanWellFounded
<1>2. PICK x \in T : \A y \in T : ~(<<y, x>> \in OpToRel(<, Nat))
  BY <1>1, WFMin
<1>3. \A y \in T : <<y, x>> \in OpToRel(<, Nat) <=> y < x
  BY DEF OpToRel
<1>4. \A y \in T : y \in Nat /\ x \in Nat
  OBVIOUS
<1>5. \A y \in T : ~(y < x)
  BY <1>2, <1>3
<1>6. \A y \in T : x <= y
  BY <1>4, <1>5
<1> QED BY <1>6

(* A set that holds 0 and the successor of each of its elements is Nat.    *)
LEMMA NaturalsByInduction ==
  ASSUME NEW T, T \subseteq Nat, 0 \in T, \A n \in T : n + 1 \in T
  PROVE  T = Nat
<1>1. SUFFICES ASSUME Nat \ T # {} PROVE FALSE
  OBVIOUS
<1>2. PICK n \in Nat \ T : \A m \in Nat \ T : n <= m
  BY <1>1, LeastNatural
<1>3. n - 1 \in Nat /\ n - 1 \in T
  BY <1>2
<1> QED BY <1>2, <1>3

(* The recursion of Rounds defines a function: each round is the step from *)
(* the one before it.                                                      *)
LEMMA RoundsUnfold ==
  ASSUME NEW p, NEW d, NEW order, NEW n \in Nat
  PROVE  LET w == Rounds(p, d, order, n)
         IN  /\ w[0] = Start(p)
             /\ \A i \in 1 .. n : w[i] = Meet(w[i - 1], d, order[i])
<1> DEFINE F(w, k) == [i \in 0 .. k |-> IF i = 0 THEN Start(p)
                                        ELSE Meet(w[i - 1], d, order[i])]
           T == {k \in Nat : \E w : w = F(w, k)}
<1>1. 0 \in T
  <2> DEFINE w == [i \in 0 .. 0 |-> Start(p)]
  <2>1. w = F(w, 0)
    OBVIOUS
  <2> QED BY <2>1
<1>2. \A k \in T : k + 1 \in T
  <2> SUFFICES ASSUME NEW k \in T PROVE k + 1 \in T
    OBVIOUS
  <2>1. PICK w : w = F(w, k)
    OBVIOUS
  <2> DEFINE v == [i \in 0 .. k + 1 |-> IF i = k + 1 THEN Meet(w[k], d, order[k + 1])
                                        ELSE w[i]]
  <2>2. \A i \in 0 .. k : w[i] = IF i = 0 THEN Start(p) ELSE Meet(w[i - 1], d, order[i])
    BY <2>1
  <2>3. \A i \in 0 .. k + 1 : v[i] = IF i = 0 THEN Start(p)
                                     ELSE Meet(v[i - 1], d, order[i])
    <3> SUFFICES ASSUME NEW i \in 0 .. k + 1
                 PROVE  v[i] = IF i = 0 THEN Start(p) ELSE Meet(v[i - 1], d, order[i])
      OBVIOUS
    <3>1. CASE i = k + 1
      BY <3>1
    <3>2. CASE i \in 0 .. k
      <4>1. v[i] = w[i]
        BY <3>2
      <4>2. CASE i = 0
        BY <4>1, <4>2, <2>2
      <4>3. CASE i # 0
        <5>1. v[i - 1] = w[i - 1]
          BY <3>2, <4>3
        <5> QED BY <4>1, <4>3, <5>1, <2>2, <3>2
      <4> QED BY <4>2, <4>3
    <3> QED BY <3>1, <3>2
  <2>4. v = F(v, k + 1)
    BY <2>3
  <2> HIDE DEF F
  <2> QED BY <2>4
<1>3. T = Nat
  BY <1>1, <1>2, NaturalsByInduction
<1>4. PICK w : w = F(w, n)
  BY <1>3
<1>5. Rounds(p, d, order, n) = CHOOSE v : v = F(v, n)
  BY DEF Rounds
<1>6. Rounds(p, d, order, n) = F(Rounds(p, d, order, n), n)
  <2> HIDE DEF F
  <2> QED BY <1>4, <1>5
<1> QED BY <1>6

-----------------------------------------------------------------------------
(* One round of Upsert's loop                                              *)

(* The invariant of the specification: the types, and that the table is a  *)
(* function with finitely many entries.                                    *)
RegistryInv ==
  /\ RegistryTypeOK
  /\ peers \in [Known -> Peer]
  /\ IsFiniteSet(Known)

Work == [p : Peer, vip : VIPs \union {NoVIP}, table : [Known -> Peer],
         evict : SUBSET Known, drop : BOOLEAN]

(* What holds of the loop for d once it has met the entries met: only they *)
(* were touched, only entries of d's identity were changed, and what it    *)
(* removes beside those was not active.                                    *)
Sound(w, d, met) ==
  /\ w \in Work
  /\ w.evict \subseteq met
  /\ \A e \in Known : e \notin met \/ ~SameIdentity(d, e) => w.table[e] = peers[e]
  /\ \A e \in w.evict : SameIdentity(d, e) \/ ~IsActive(peers[e])

LEMMA MergeType ==
  ASSUME NEW old \in Peer, NEW new \in Peer
  PROVE  MergeFrom(old, new) \in Peer
<1>1. 0 \in Ages
  BY RegistryAssumption DEF Ages
<1> QED BY <1>1 DEF MergeFrom, Peer

LEMMA MeetSound ==
  ASSUME RegistryInv, NEW d \in Devices, NEW met \in SUBSET Others(d),
         NEW w, Sound(w, d, met), NEW e \in Others(d) \ met
  PROVE  Sound(Meet(w, d, e), d, met \union {e})
<1>1. /\ w \in Work /\ e \in Known /\ e \in Devices /\ w.table[e] = peers[e]
      /\ w.table[e] \in Peer /\ w.p \in Peer
  BY DEF Sound, Work, Others, RegistryInv, RegistryTypeOK
<1>2. CASE Meet(w, d, e) = w
  BY <1>2 DEF Sound
<1>3. CASE Meet(w, d, e) = Drop(w)
  BY <1>1, <1>3 DEF Sound, Drop, Work
<1>4. CASE Meet(w, d, e) = Evict(w, e) /\ (SameIdentity(d, e) \/ ~IsActive(peers[e]))
  BY <1>1, <1>4 DEF Sound, Evict, Work
<1>5. CASE Meet(w, d, e) = Migrate(w, e) /\ SameIdentity(d, e)
  <2>1. MergeFrom(w.p, w.table[e]) \in Peer
    BY <1>1, MergeType
  <2>2. Migrate(w, e) \in Work
    BY <1>1, <2>1 DEF Migrate, Work
  <2>3. Migrate(w, e).evict = w.evict \union {e}
    BY <1>1 DEF Migrate, Work
  <2>4. \A f \in Known : f # e => Migrate(w, e).table[f] = w.table[f]
    BY <1>1 DEF Migrate, Work
  <2> QED BY <1>5, <2>2, <2>3, <2>4 DEF Sound
<1>6. CASE Meet(w, d, e) = Reassign(w, d)
  <2>1. Assigned[d] \in VIPs
    BY RegistryAssumption
  <2>2. Reassign(w, d) \in Work
    BY <1>1, <2>1 DEF Reassign, Work, Peer
  <2> QED BY <1>1, <1>6, <2>2 DEF Sound, Reassign, Work
<1>7. CASE Meet(w, d, e) = Strip(w, e)
  <2>1. Strip(w, e) \in Work
    BY <1>1 DEF Strip, Work, Peer
  <2> QED BY <1>1, <1>7, <2>1 DEF Sound, Strip, Work
<1>8. \/ Meet(w, d, e) = w
      \/ Meet(w, d, e) = Drop(w)
      \/ Meet(w, d, e) = Evict(w, e) /\ (SameIdentity(d, e) \/ ~IsActive(peers[e]))
      \/ Meet(w, d, e) = Migrate(w, e) /\ SameIdentity(d, e)
      \/ Meet(w, d, e) = Reassign(w, d)
      \/ Meet(w, d, e) = Strip(w, e)
  BY <1>1 DEF Meet, SameAddress, SameKeyOnly, SameIdentity
<1> QED BY <1>2, <1>3, <1>4, <1>5, <1>6, <1>7, <1>8

-----------------------------------------------------------------------------
(* Who owns which address                                                  *)

(* Devices of one key have different names: Upsert tells the entries of a  *)
(* cloned key apart by them.                                               *)
NamesTellApart == \A d, e \in Devices : d # e /\ SameKey(d, e) => ~SameName(d, e)

(* The addresses Upsert may draw for a device that came with a default one *)
(* another owns.  It does not look whether they are taken.                 *)
Drawn == IF Default = {} THEN {} ELSE {Assigned[d] : d \in Devices}

(* What holds of the loop for the entry p once it has met the entries met: *)
(* no address moved between entries, and an entry it leaves in the table   *)
(* has another address than p, unless that was drawn.                      *)
Owners(w, p, met) ==
  /\ w.p.vip \in {w.vip, NoVIP}
  /\ w.vip \in {p.vip} \union Drawn
  /\ \A e \in Known : w.table[e].vip = peers[e].vip
  /\ ~w.drop => \A e \in met \ w.evict :
                   w.p.vip # NoVIP /\ w.p.vip \notin Drawn => peers[e].vip # w.p.vip

LEMMA MeetOwners ==
  ASSUME RegistryInv, NamesTellApart, NEW d \in Devices, NEW p \in Peer,
         NEW met \in SUBSET Others(d), NEW w, Sound(w, d, met), Owners(w, p, met),
         NEW e \in Others(d) \ met
  PROVE  Owners(Meet(w, d, e), p, met \union {e})
<1>1. /\ w \in Work /\ e \in Known /\ e \in Devices /\ e # d
      /\ w.table[e] = peers[e] /\ w.table[e] \in Peer /\ w.p \in Peer
  BY DEF Sound, Work, Others, RegistryInv, RegistryTypeOK
<1>2. CASE w.drop
  BY <1>1, <1>2 DEF Meet, Owners
<1>3. CASE ~w.drop /\ w.vip # NoVIP /\ w.table[e].vip = w.vip
  <2>1. Meet(w, d, e) = SameAddress(w, d, e)
    BY <1>3 DEF Meet
  <2>2. CASE SameAddress(w, d, e) = Drop(w)
    BY <1>1, <2>1, <2>2 DEF Owners, Drop, Work
  <2>3. CASE SameAddress(w, d, e) = Evict(w, e)
    BY <1>1, <2>1, <2>3 DEF Owners, Evict, Work
  <2>4. CASE SameAddress(w, d, e) = Migrate(w, e)
    <3>1. MergeFrom(w.p, w.table[e]).vip = w.table[e].vip
      BY <1>1, <1>3 DEF MergeFrom, KeepsVIP, Peer, Owners
    <3>2. \A f \in Known : Migrate(w, e).table[f].vip = w.table[f].vip
      BY <1>1, <3>1 DEF Migrate, Work
    <3>3. /\ Migrate(w, e).evict = w.evict \union {e} /\ Migrate(w, e).drop = w.drop
          /\ Migrate(w, e).p = w.p /\ Migrate(w, e).vip = w.vip
      BY <1>1 DEF Migrate, Work
    <3> QED BY <2>1, <2>4, <3>2, <3>3 DEF Owners
  <2>5. CASE SameAddress(w, d, e) = Reassign(w, d) /\ w.vip \in Default
    <3>1. Assigned[d] \in Drawn
      BY <2>5 DEF Drawn
    <3>2. /\ Reassign(w, d).p.vip = Assigned[d] /\ Reassign(w, d).vip = Assigned[d]
          /\ Reassign(w, d).table = w.table /\ Reassign(w, d).evict = w.evict
      BY <1>1 DEF Reassign, Work, Peer
    <3> QED BY <2>1, <2>5, <3>1, <3>2 DEF Owners
  <2>6. CASE SameAddress(w, d, e) = Strip(w, e)
    <3>1. /\ Strip(w, e).p.vip = NoVIP /\ Strip(w, e).vip = w.vip
          /\ Strip(w, e).table = w.table /\ Strip(w, e).evict = w.evict
      BY <1>1 DEF Strip, Work, Peer
    <3> QED BY <2>1, <2>6, <3>1 DEF Owners
  <2> QED BY <2>2, <2>3, <2>4, <2>5, <2>6 DEF SameAddress
<1>4. CASE ~w.drop /\ ~(w.vip # NoVIP /\ w.table[e].vip = w.vip)
  <2>1. \/ Meet(w, d, e) = w
        \/ Meet(w, d, e) = Evict(w, e)
    BY <1>1, <1>4 DEF Meet, SameKeyOnly, NamesTellApart
  <2>2. w.p.vip # NoVIP => peers[e].vip # w.p.vip
    BY <1>1, <1>4 DEF Owners
  <2>3. CASE Meet(w, d, e) = w
    BY <2>2, <2>3 DEF Owners
  <2>4. CASE Meet(w, d, e) = Evict(w, e)
    BY <1>1, <2>2, <2>4 DEF Owners, Evict, Work
  <2> QED BY <2>1, <2>3, <2>4
<1> QED BY <1>2, <1>3, <1>4

-----------------------------------------------------------------------------
(* The loop as a whole                                                     *)

(* It meets every other entry once.                                        *)
LEMMA LoopSound ==
  ASSUME RegistryInv, NEW d \in Devices, NEW p \in Peer,
         NEW order \in Bijection(1 .. Cardinality(Others(d)), Others(d))
  PROVE  /\ Sound(Loop(p, d, order), d, Others(d))
         /\ NamesTellApart => Owners(Loop(p, d, order), p, Others(d))
<1> DEFINE n == Cardinality(Others(d))
           w == Rounds(p, d, order, n)
           met(i) == {order[j] : j \in 1 .. i}
           Holds(i) == /\ Sound(w[i], d, met(i))
                       /\ NamesTellApart => Owners(w[i], p, met(i))
           T == {i \in Nat : i <= n => Holds(i)}
<1>1. n \in Nat
  <2>1. IsFiniteSet(Known \ {d})
    BY FS_RemoveElement DEF RegistryInv
  <2> QED BY <2>1, FS_CardinalityType DEF Others
<1>2. /\ order \in [1 .. n -> Others(d)]
      /\ \A i, j \in 1 .. n : order[i] = order[j] => i = j
      /\ \A e \in Others(d) : \E i \in 1 .. n : order[i] = e
  BY DEF Bijection, Injection, Surjection, IsInjective
<1>3. w[0] = Start(p) /\ \A i \in 1 .. n : w[i] = Meet(w[i - 1], d, order[i])
  BY <1>1, RoundsUnfold
<1> HIDE DEF w, n
<1>4. Holds(0)
  <2>1. met(0) = {}
    OBVIOUS
  <2>2. Start(p) \in Work
    BY DEF Start, Work, Peer, RegistryInv
  <2>3. Sound(Start(p), d, {})
    BY <2>2 DEF Sound, Start
  <2>4. Owners(Start(p), p, {})
    BY DEF Owners, Start
  <2> QED BY <1>3, <2>1, <2>3, <2>4
<1>5. ASSUME NEW i \in Nat, i + 1 <= n, Holds(i)
      PROVE  Holds(i + 1)
  <2>1. i + 1 \in 1 .. n
    BY <1>1, <1>5
  <2>2. met(i) \in SUBSET Others(d)
    <3>1. \A j \in 1 .. i : j \in 1 .. n
      BY <1>1, <2>1
    <3> QED BY <1>2, <3>1
  <2>3. order[i + 1] \in Others(d) \ met(i)
    BY <1>1, <1>2, <2>1
  <2>4. met(i + 1) = met(i) \union {order[i + 1]}
    BY <2>1
  <2>5. w[i + 1] = Meet(w[i], d, order[i + 1])
    BY <1>3, <2>1
  <2> HIDE DEF met
  <2>6. Sound(w[i + 1], d, met(i + 1))
    BY <1>5, <2>2, <2>3, <2>4, <2>5, MeetSound
  <2>7. NamesTellApart => Owners(w[i + 1], p, met(i + 1))
    BY <1>5, <2>2, <2>3, <2>4, <2>5, MeetOwners
  <2> QED BY <2>6, <2>7
<1> HIDE DEF Holds
<1>6. T = Nat
  <2>1. 0 \in T
    BY <1>4
  <2>2. \A i \in T : i + 1 \in T
    BY <1>1, <1>5
  <2> HIDE DEF T
  <2> QED BY <2>1, <2>2, NaturalsByInduction DEF T
<1>7. Holds(n)
  BY <1>1, <1>6
<1>8. met(n) = Others(d)
  BY <1>1, <1>2
<1>9. w[n] = Loop(p, d, order)
  BY DEF w, n, Loop
<1> QED BY <1>7, <1>8, <1>9 DEF Holds

-----------------------------------------------------------------------------
(* Upsert                                                                  *)

LEMMA StoredEntries ==
  ASSUME RegistryInv, NEW d \in Devices, NEW w, Sound(w, d, Others(d))
  PROVE  LET s == Stored(w, d)
         IN  /\ DOMAIN s = (Known \ w.evict) \union {d}
             /\ s \in [DOMAIN s -> Peer]
             /\ \A e \in Known \ (w.evict \union {d}) : s[e] = w.table[e]
             /\ \/ s[d].vip = w.p.vip
                \/ d \in Known /\ s[d].vip = peers[d].vip
<1> DEFINE rest == Without(w.table, w.evict)
           new == IF d \in DOMAIN rest THEN MergeFrom(rest[d], w.p) ELSE w.p
<1>1. /\ w.table \in [Known -> Peer] /\ w.p \in Peer
      /\ d \notin w.evict /\ (d \in Known => w.table[d] = peers[d])
  BY DEF Sound, Work, Others
<1>2. /\ DOMAIN rest = Known \ w.evict
      /\ \A e \in Known \ w.evict : rest[e] = w.table[e]
  BY <1>1 DEF Without
<1>3. new \in Peer
  BY <1>1, <1>2, MergeType
<1>4. new.vip = w.p.vip \/ (d \in Known /\ new.vip = peers[d].vip)
  <2>1. CASE d \in Known
    BY <1>1, <1>2, <2>1 DEF MergeFrom, Peer
  <2>2. CASE d \notin Known
    BY <1>2, <2>2
  <2> QED BY <2>1, <2>2
<1>5. Stored(w, d) = With(rest, d, new)
  BY DEF Stored
<1> HIDE DEF rest, new
<1>6. /\ DOMAIN With(rest, d, new) = (Known \ w.evict) \union {d}
      /\ \A e \in (Known \ w.evict) \union {d} :
            With(rest, d, new)[e] = IF e = d THEN new ELSE rest[e]
      /\ With(rest, d, new) = [e \in DOMAIN With(rest, d, new) |-> With(rest, d, new)[e]]
  BY <1>2 DEF With
<1>7. \A e \in (Known \ w.evict) \union {d} : With(rest, d, new)[e] \in Peer
  BY <1>1, <1>2, <1>3, <1>6
<1> QED BY <1>2, <1>4, <1>5, <1>6, <1>7

(* What an Upsert of p for d leaves: w is what its loop ended with.        *)
Outcome(w, d, p) ==
  /\ Sound(w, d, Others(d))
  /\ NamesTellApart => Owners(w, p, Others(d))
  /\ last' = [end |-> IF w.drop THEN "dropped" ELSE "stored", id |-> d]
  /\ \/ w.drop /\ peers' = w.table
     \/ w.drop /\ d \in Known /\ p = peers[d] /\ peers' = With(w.table, d, w.p)
     \/ /\ ~w.drop /\ peers' = Stored(w, d)
        /\ MaxPeers = 0 \/ Cardinality(DOMAIN Stored(w, d)) <= MaxPeers
     \/ /\ ~w.drop /\ MaxPeers # 0
        /\ ~(Cardinality(DOMAIN Stored(w, d)) <= MaxPeers)
        /\ \E x \in DOMAIN Stored(w, d) : peers' = Without(Stored(w, d), {x})

LEMMA UpsertOutcome ==
  ASSUME RegistryInv, NEW d \in Devices, NEW p \in Peer, NEW again \in BOOLEAN,
         again => d \in Known /\ p = peers[d], Upsert(d, p, again)
  PROVE  \E w : Outcome(w, d, p)
<1>1. PICK order \in Bijection(1 .. Cardinality(Others(d)), Others(d)) :
        /\ last' = [end |-> IF Loop(p, d, order).drop THEN "dropped" ELSE "stored",
                    id |-> d]
        /\ peers' \in IF ~Loop(p, d, order).drop
                        THEN Limited(Stored(Loop(p, d, order), d))
                      ELSE IF again THEN {With(Loop(p, d, order).table, d, Loop(p, d, order).p)}
                      ELSE {Loop(p, d, order).table}
  BY DEF Upsert
<1> DEFINE w == Loop(p, d, order)
<1>2. Sound(w, d, Others(d)) /\ (NamesTellApart => Owners(w, p, Others(d)))
  BY LoopSound
<1>3. CASE w.drop
  BY <1>1, <1>2, <1>3 DEF Outcome
<1>4. CASE ~w.drop
  <2>1. peers' \in Limited(Stored(w, d))
    BY <1>1, <1>4
  <2> HIDE DEF w
  <2>2. \/ /\ peers' = Stored(w, d)
           /\ MaxPeers = 0 \/ Cardinality(DOMAIN Stored(w, d)) <= MaxPeers
        \/ /\ MaxPeers # 0
           /\ ~(Cardinality(DOMAIN Stored(w, d)) <= MaxPeers)
           /\ \E x \in DOMAIN Stored(w, d) : peers' = Without(Stored(w, d), {x})
    BY <2>1 DEF Limited
  <2>3. last' = [end |-> IF w.drop THEN "dropped" ELSE "stored", id |-> d]
    BY <1>1 DEF w
  <2> QED BY <1>2, <1>4, <2>2, <2>3 DEF Outcome
<1> QED BY <1>3, <1>4

LEMMA BeaconOrRefresh ==
  ASSUME RegistryInv, NEW d \in Devices, Beacon(d) \/ Refresh(d)
  PROVE  \E p \in Peer : \E w : Outcome(w, d, p)
<1>1. CASE Beacon(d)
  <2>1. PICK vip \in VIPs \union {NoVIP}, age \in Ages \ {CleanupAge} :
          Upsert(d, [vip |-> vip, age |-> age, online |-> age < OfflineAge,
                     filter |-> FALSE], FALSE)
    BY <1>1 DEF Beacon
  <2> DEFINE p == [vip |-> vip, age |-> age, online |-> age < OfflineAge,
                   filter |-> FALSE]
  <2>2. p \in Peer
    BY DEF Peer
  <2> HIDE DEF p
  <2>3. Upsert(d, p, FALSE)
    BY <2>1 DEF p
  <2> QED BY <2>2, <2>3, UpsertOutcome
<1>2. CASE Refresh(d)
  <2>1. d \in Known /\ peers[d] \in Peer /\ Upsert(d, peers[d], TRUE)
    BY <1>2 DEF Refresh, RegistryInv, RegistryTypeOK
  <2> QED BY <2>1, UpsertOutcome
<1> QED BY <1>1, <1>2

-----------------------------------------------------------------------------
(* Type correctness                                                        *)

LEMMA OutcomeType ==
  ASSUME RegistryInv, NEW d \in Devices, NEW p \in Peer, NEW w, Outcome(w, d, p)
  PROVE  RegistryInv'
<1> DEFINE s == Stored(w, d)
<1>1. /\ w.table \in [Known -> Peer] /\ w.p \in Peer /\ w.drop \in BOOLEAN
      /\ w.evict \subseteq Known
  BY DEF Outcome, Sound, Work
<1>2. /\ DOMAIN s = (Known \ w.evict) \union {d}
      /\ s \in [DOMAIN s -> Peer]
  BY StoredEntries DEF Outcome
<1>3. last' \in [end : {"none", "stored", "dropped"}, id : Devices \union {NoDevice}]
  BY <1>1 DEF Outcome
<1>4. IsFiniteSet(Known) /\ Cardinality(Known) \in Nat /\ MaxPeers \in Nat
      /\ Known \subseteq Devices /\ (MaxPeers > 0 => Cardinality(Known) <= MaxPeers)
  BY FS_CardinalityType, RegistryAssumption DEF RegistryInv, RegistryTypeOK
<1>5. SUFFICES /\ peers' \in [DOMAIN peers' -> Peer]
               /\ DOMAIN peers' \subseteq Devices
               /\ IsFiniteSet(DOMAIN peers')
               /\ MaxPeers > 0 => Cardinality(DOMAIN peers') <= MaxPeers
  BY <1>3 DEF RegistryInv, RegistryTypeOK, Known
<1> HIDE DEF s
<1>6. CASE peers' = w.table
  BY <1>1, <1>4, <1>6
<1>7. CASE d \in Known /\ peers' = With(w.table, d, w.p)
  <2>1. DOMAIN peers' = Known /\ peers' \in [Known -> Peer]
    BY <1>1, <1>7 DEF With
  <2> QED BY <1>4, <2>1
<1>8. IsFiniteSet(DOMAIN s) /\ Cardinality(DOMAIN s) \in Nat /\ DOMAIN s \subseteq Devices
      /\ Cardinality(DOMAIN s) <= Cardinality(Known) + 1
  <2>1. IsFiniteSet(Known \union {d}) /\ Cardinality(Known \union {d}) <= Cardinality(Known) + 1
        /\ Cardinality(Known \union {d}) \in Nat
    <3>1. /\ IsFiniteSet(Known \union {d})
          /\ Cardinality(Known \union {d}) =
                IF d \in Known THEN Cardinality(Known) ELSE Cardinality(Known) + 1
      BY <1>4, FS_AddElement
    <3> QED BY <1>4, <3>1
  <2>2. DOMAIN s \in SUBSET (Known \union {d})
    BY <1>2
  <2>3. IsFiniteSet(DOMAIN s) /\ Cardinality(DOMAIN s) <= Cardinality(Known \union {d})
    BY <2>1, <2>2, FS_Subset
  <2>4. Cardinality(DOMAIN s) \in Nat
    BY <2>3, FS_CardinalityType
  <2> QED BY <1>4, <2>1, <2>2, <2>3, <2>4
<1>9. CASE peers' = s /\ (MaxPeers = 0 \/ Cardinality(DOMAIN s) <= MaxPeers)
  BY <1>2, <1>4, <1>8, <1>9
<1>10. CASE MaxPeers # 0 /\ \E x \in DOMAIN s : peers' = Without(s, {x})
  <2>1. PICK x \in DOMAIN s : peers' = Without(s, {x})
    BY <1>10
  <2>2. DOMAIN peers' = DOMAIN s \ {x} /\ peers' \in [DOMAIN s \ {x} -> Peer]
    BY <1>2, <2>1 DEF Without
  <2>3. IsFiniteSet(DOMAIN s \ {x}) /\ Cardinality(DOMAIN s \ {x}) = Cardinality(DOMAIN s) - 1
    BY <1>8, FS_RemoveElement
  <2> QED BY <1>4, <1>8, <2>2, <2>3
<1> QED BY <1>6, <1>7, <1>9, <1>10 DEF Outcome, s

(* The other operations change the table to a function of a part of it.    *)
Other ==
  \/ \E d \in Devices : GetReplayFilter(d) \/ MarkDeviceOffline(d) \/ Delete(d)
  \/ MarkOffline \/ Cleanup \/ ClearAll \/ TimePasses

LEMMA OtherEntries ==
  ASSUME RegistryInv, Other
  PROVE  /\ last' = NoCall
         /\ DOMAIN peers' \in SUBSET Known
         /\ peers' \in [DOMAIN peers' -> Peer]
         /\ \A e \in DOMAIN peers' : peers'[e].vip = peers[e].vip
<1> USE DEF RegistryInv, Change
<1>1. ASSUME NEW d \in Devices, GetReplayFilter(d)
      PROVE  /\ last' = NoCall /\ DOMAIN peers' = Known /\ peers' \in [Known -> Peer]
             /\ \A e \in Known : peers'[e].vip = peers[e].vip
  BY <1>1 DEF GetReplayFilter, Peer
<1>2. ASSUME NEW d \in Devices, MarkDeviceOffline(d)
      PROVE  /\ last' = NoCall /\ DOMAIN peers' = Known /\ peers' \in [Known -> Peer]
             /\ \A e \in Known : peers'[e].vip = peers[e].vip
  BY <1>2 DEF MarkDeviceOffline, Peer
<1>3. ASSUME NEW ds, last' = NoCall, peers' = Without(peers, ds)
      PROVE  /\ last' = NoCall /\ DOMAIN peers' \in SUBSET Known
             /\ peers' \in [DOMAIN peers' -> Peer]
             /\ \A e \in DOMAIN peers' : peers'[e].vip = peers[e].vip
  BY <1>3 DEF Without
<1>4. CASE MarkOffline
  BY <1>4 DEF MarkOffline, Peer
<1>5. CASE TimePasses
  <2>1. \A d \in Known : peers[d].age < CleanupAge => peers[d].age + 1 \in Ages
    BY RegistryAssumption DEF Ages, Peer
  <2> QED BY <1>5, <2>1 DEF TimePasses, Peer
<1>6. CASE ClearAll
  BY <1>6 DEF ClearAll
<1> QED BY <1>1, <1>2, <1>3, <1>4, <1>5, <1>6 DEF Other, Delete, Cleanup

LEMMA OtherType ==
  ASSUME RegistryInv, Other
  PROVE  RegistryInv'
<1>1. IsFiniteSet(Known) /\ Cardinality(Known) \in Nat /\ MaxPeers \in Nat
      /\ Known \subseteq Devices /\ (MaxPeers > 0 => Cardinality(Known) <= MaxPeers)
  BY FS_CardinalityType, RegistryAssumption DEF RegistryInv, RegistryTypeOK
<1>2. IsFiniteSet(DOMAIN peers') /\ Cardinality(DOMAIN peers') <= Cardinality(Known)
  BY <1>1, OtherEntries, FS_Subset
<1>3. Cardinality(DOMAIN peers') \in Nat
  BY <1>2, FS_CardinalityType
<1> QED BY <1>1, <1>2, <1>3, OtherEntries DEF RegistryInv, RegistryTypeOK, Known, NoCall

LEMMA NextCases ==
  RegistryNext => (\E d \in Devices : Beacon(d) \/ Refresh(d)) \/ Other
BY DEF RegistryNext, Other

LEMMA RegistryInvariant == RegistrySpec => []RegistryInv
<1>1. RegistryInit => RegistryInv
  <2> SUFFICES ASSUME RegistryInit PROVE RegistryInv
    OBVIOUS
  <2>1. peers = <<>> /\ Known = {}
    BY DEF RegistryInit, Known
  <2>2. IsFiniteSet(Known) /\ Cardinality(Known) = 0
    BY <2>1, FS_EmptySet
  <2>3. peers \in [{} -> Peer]
    BY <2>1
  <2>4. last \in [end : {"none", "stored", "dropped"}, id : Devices \union {NoDevice}]
    BY DEF RegistryInit, NoCall
  <2> QED BY <2>1, <2>2, <2>3, <2>4, RegistryAssumption DEF RegistryInv, RegistryTypeOK
<1>2. RegistryInv /\ [RegistryNext]_registryVars => RegistryInv'
  <2> SUFFICES ASSUME RegistryInv, [RegistryNext]_registryVars PROVE RegistryInv'
    OBVIOUS
  <2>1. CASE UNCHANGED registryVars
    BY <2>1 DEF registryVars, RegistryInv, RegistryTypeOK, Known
  <2>2. ASSUME NEW d \in Devices, Beacon(d) \/ Refresh(d)
        PROVE  RegistryInv'
    BY <2>2, BeaconOrRefresh, OutcomeType
  <2>3. CASE Other
    BY <2>3, OtherType
  <2> QED BY <2>1, <2>2, <2>3, NextCases
<1> QED BY <1>1, <1>2, PTL DEF RegistrySpec

(* The registry's table is a finite function whose entries have their      *)
(* types, and it never holds more than MaxPeers of them.                   *)
THEOREM RegistryTypeCorrect == RegistrySpec => []RegistryTypeOK
<1>1. RegistryInv => RegistryTypeOK
  BY DEF RegistryInv
<1> QED BY <1>1, RegistryInvariant, PTL

-----------------------------------------------------------------------------
(* One owner per address                                                   *)

(* Two entries, active or not, never hold one address, but for addresses   *)
(* that were drawn.                                                        *)
SoleOwner ==
  \A d, e \in Known :
    d # e /\ peers[d].vip # NoVIP /\ peers[d].vip \notin Drawn
      => peers[d].vip # peers[e].vip

LEMMA OutcomeOwners ==
  ASSUME RegistryInv, NamesTellApart, SoleOwner,
         NEW d \in Devices, NEW p \in Peer, NEW w, Outcome(w, d, p)
  PROVE  SoleOwner'
<1> DEFINE s == Stored(w, d)
<1>1. /\ w.table \in [Known -> Peer] /\ Owners(w, p, Others(d))
      /\ \A e \in Known : w.table[e].vip = peers[e].vip
  BY DEF Outcome, Sound, Work, Owners
<1>2. CASE peers' = w.table
  BY <1>1, <1>2 DEF SoleOwner, Known
<1>3. CASE d \in Known /\ p = peers[d] /\ peers' = With(w.table, d, w.p)
  <2>1. /\ DOMAIN peers' = Known
        /\ \A e \in Known : peers'[e] = IF e = d THEN w.p ELSE w.table[e]
    BY <1>1, <1>3 DEF With
  <2>2. w.p.vip = peers[d].vip \/ w.p.vip = NoVIP \/ w.p.vip \in Drawn
    BY <1>1, <1>3 DEF Owners
  <2>3. \A e \in Known : \/ peers'[e].vip = peers[e].vip
                         \/ peers'[e].vip \in Drawn \union {NoVIP}
    BY <1>1, <2>1, <2>2
  <2> QED BY <2>1, <2>3 DEF SoleOwner, Known
<1>4. CASE ~w.drop
  <2>1. /\ DOMAIN s = (Known \ w.evict) \union {d}
        /\ \A e \in Known \ (w.evict \union {d}) : s[e].vip = peers[e].vip
        /\ s[d].vip = w.p.vip \/ (d \in Known /\ s[d].vip = peers[d].vip)
    <3>1. Sound(w, d, Others(d))
      BY DEF Outcome
    <3>2. /\ DOMAIN s = (Known \ w.evict) \union {d}
          /\ \A e \in Known \ (w.evict \union {d}) : s[e] = w.table[e]
          /\ s[d].vip = w.p.vip \/ (d \in Known /\ s[d].vip = peers[d].vip)
      BY <3>1, StoredEntries
    <3> HIDE DEF s
    <3> QED BY <1>1, <3>2
  <2> HIDE DEF s
  <2>2. ASSUME NEW e \in DOMAIN s \ {d}
        PROVE  s[d].vip = NoVIP \/ s[d].vip \in Drawn \/ s[d].vip # s[e].vip
    <3>1. e \in Known \ (w.evict \union {d}) /\ e \in Others(d) \ w.evict
      BY <2>1 DEF Others
    <3>2. CASE s[d].vip = w.p.vip
      BY <1>1, <1>4, <2>1, <3>1, <3>2 DEF Owners
    <3>3. CASE d \in Known /\ s[d].vip = peers[d].vip
      BY <2>1, <3>1, <3>3 DEF SoleOwner
    <3> QED BY <2>1, <3>2, <3>3
  <2>3. \A e, f \in DOMAIN s : e # f /\ s[e].vip # NoVIP /\ s[e].vip \notin Drawn
                                  => s[e].vip # s[f].vip
    <3> SUFFICES ASSUME NEW e \in DOMAIN s, NEW f \in DOMAIN s, e # f,
                        s[e].vip # NoVIP, s[e].vip \notin Drawn, s[e].vip = s[f].vip
                 PROVE  FALSE
      OBVIOUS
    <3>1. CASE e = d \/ f = d
      BY <2>2, <3>1
    <3>2. CASE e # d /\ f # d
      BY <2>1, <3>2 DEF SoleOwner
    <3> QED BY <3>1, <3>2
  <2>4. CASE peers' = s
    BY <2>3, <2>4 DEF SoleOwner, Known
  <2>5. CASE \E x \in DOMAIN s : peers' = Without(s, {x})
    BY <2>3, <2>5 DEF SoleOwner, Known, Without
  <2> QED BY <1>4, <2>4, <2>5 DEF Outcome, s
<1> QED BY <1>2, <1>3, <1>4 DEF Outcome

(* No two entries hold one address, whatever claims, delays, clones and    *)
(* evictions there were, provided that devices of one key differ in name:  *)
(* the addresses that Upsert may have drawn for a device excepted.         *)
THEOREM OneEntryPerAddress ==
  ASSUME NamesTellApart
  PROVE  RegistrySpec => []SoleOwner
<1>1. RegistryInit => SoleOwner
  BY DEF RegistryInit, SoleOwner, Known
<1>2. RegistryInv /\ SoleOwner /\ [RegistryNext]_registryVars => SoleOwner'
  <2> SUFFICES ASSUME RegistryInv, SoleOwner, [RegistryNext]_registryVars
               PROVE  SoleOwner'
    OBVIOUS
  <2>1. CASE UNCHANGED registryVars
    BY <2>1 DEF registryVars, SoleOwner, Known
  <2>2. ASSUME NEW d \in Devices, Beacon(d) \/ Refresh(d)
        PROVE  SoleOwner'
    BY <2>2, BeaconOrRefresh, OutcomeOwners
  <2>3. CASE Other
    BY <2>3, OtherEntries DEF SoleOwner, Known
  <2> QED BY <2>1, <2>2, <2>3, NextCases
<1> QED BY <1>1, <1>2, RegistryInvariant, PTL DEF RegistrySpec

(* "One virtual address may belong to one active node only": where no      *)
(* address is a default one and devices of one key differ in name, two     *)
(* active entries never have one address.                                  *)
THEOREM OneActiveOwner ==
  ASSUME NamesTellApart, Default = {}
  PROVE  RegistrySpec => []OneActivePerVIP
<1>1. SoleOwner => OneActivePerVIP
  BY DEF SoleOwner, OneActivePerVIP, Drawn
<1> QED BY <1>1, OneEntryPerAddress, PTL

-----------------------------------------------------------------------------
(* Active entries                                                          *)

LEMMA OutcomeRemoves ==
  ASSUME RegistryInv, RegistryInv', NEW d \in Devices, NEW p \in Peer, NEW w,
         Outcome(w, d, p),
         NEW e \in Known, IsActive(peers[e]), e \notin DOMAIN peers', ~SameIdentity(e, d)
  PROVE  MaxPeers > 0 /\ Cardinality(DOMAIN peers') = MaxPeers
<1> DEFINE s == Stored(w, d)
<1>1. /\ w.table \in [Known -> Peer] /\ w.evict \subseteq Known
      /\ \A f \in w.evict : SameIdentity(d, f) \/ ~IsActive(peers[f])
  BY DEF Outcome, Sound, Work
<1>2. DOMAIN s = (Known \ w.evict) \union {d}
  BY StoredEntries DEF Outcome
<1>3. e \in DOMAIN s
  BY <1>1, <1>2 DEF SameIdentity, SameKey, SameType, SameName
<1>4. PICK x \in DOMAIN s : /\ peers' = Without(s, {x}) /\ MaxPeers # 0
                            /\ ~(Cardinality(DOMAIN s) <= MaxPeers)
  BY <1>1, <1>3 DEF Outcome, With
<1>5. DOMAIN peers' = DOMAIN s \ {x} /\ DOMAIN s = DOMAIN peers' \union {x}
  BY <1>4 DEF Without
<1> HIDE DEF s
<1>6. IsFiniteSet(DOMAIN peers') /\ Cardinality(DOMAIN peers') \in Nat /\ MaxPeers \in Nat
  BY RegistryAssumption, FS_CardinalityType DEF RegistryInv, Known
<1>7. Cardinality(DOMAIN s) = Cardinality(DOMAIN peers') + 1
  BY <1>5, <1>6, FS_AddElement
<1>8. MaxPeers > 0 => Cardinality(DOMAIN peers') <= MaxPeers
  BY DEF RegistryInv, RegistryTypeOK, Known
<1> QED BY <1>4, <1>6, <1>7, <1>8

(* An active entry leaves the table by an Upsert only if that is its own   *)
(* node's, by its key, its name or its kind, or if the table is full.      *)
THEOREM ActiveStays == RegistrySpec => ActiveNotDisplaced
<1>1. RegistryInv /\ RegistryInv' /\ [RegistryNext]_registryVars
        => [\A d \in Known :
              /\ IsActive(peers[d])
              /\ last'.end \in {"stored", "dropped"}
              /\ d \notin DOMAIN peers'
              => \/ SameIdentity(d, last'.id)
                 \/ MaxPeers > 0 /\ Cardinality(DOMAIN peers') = MaxPeers]_registryVars
  <2> SUFFICES ASSUME RegistryInv, RegistryInv', RegistryNext,
                      NEW e \in Known, IsActive(peers[e]), e \notin DOMAIN peers',
                      last'.end \in {"stored", "dropped"}, ~SameIdentity(e, last'.id)
               PROVE  MaxPeers > 0 /\ Cardinality(DOMAIN peers') = MaxPeers
    OBVIOUS
  <2>1. ASSUME NEW d \in Devices, Beacon(d) \/ Refresh(d)
        PROVE  MaxPeers > 0 /\ Cardinality(DOMAIN peers') = MaxPeers
    <3>1. PICK p, w : p \in Peer /\ Outcome(w, d, p)
      BY <2>1, BeaconOrRefresh
    <3>2. last'.id = d
      BY <3>1 DEF Outcome
    <3> QED BY <3>1, <3>2, OutcomeRemoves
  <2>2. ~Other
    BY OtherEntries DEF NoCall
  <2> QED BY <2>1, <2>2, NextCases
<1> QED BY <1>1, RegistryInvariant, PTL DEF RegistrySpec, ActiveNotDisplaced

LEMMA OutcomeKeeps ==
  ASSUME RegistryInv, NEW d \in Devices, NEW p \in Peer, NEW w, Outcome(w, d, p),
         NEW e \in Known \intersect DOMAIN peers', ~SameIdentity(e, d)
  PROVE  peers'[e] = peers[e]
<1> DEFINE s == Stored(w, d)
<1>1. e # d /\ ~SameIdentity(d, e)
  BY DEF SameIdentity, SameKey, SameType, SameName
<1>2. w.table \in [Known -> Peer] /\ w.table[e] = peers[e]
  BY <1>1 DEF Outcome, Sound, Work
<1>3. /\ DOMAIN s = (Known \ w.evict) \union {d}
      /\ \A f \in Known \ (w.evict \union {d}) : s[f] = w.table[f]
  BY StoredEntries DEF Outcome
<1>4. CASE peers' = w.table \/ peers' = With(w.table, d, w.p)
  BY <1>1, <1>2, <1>4 DEF With
<1>5. CASE peers' = s
  BY <1>1, <1>2, <1>3, <1>5
<1>6. CASE \E x \in DOMAIN s : peers' = Without(s, {x})
  BY <1>1, <1>2, <1>3, <1>6 DEF Without
<1> QED BY <1>4, <1>5, <1>6 DEF Outcome

(* No operation changes the address of an entry, active or not, but an     *)
(* Upsert of its own node.                                                 *)
THEOREM ActiveKeepsAddress == RegistrySpec => ActiveKeepsVIP
<1>1. RegistryInv /\ [RegistryNext]_registryVars
        => [\A d \in Known \intersect DOMAIN peers' :
              /\ IsActive(peers[d])
              /\ peers[d].vip # NoVIP
              /\ last'.id = NoDevice \/ ~SameIdentity(d, last'.id)
              => peers'[d].vip = peers[d].vip]_registryVars
  <2> SUFFICES ASSUME RegistryInv, RegistryNext,
                      NEW e \in Known \intersect DOMAIN peers',
                      last'.id = NoDevice \/ ~SameIdentity(e, last'.id)
               PROVE  peers'[e].vip = peers[e].vip
    OBVIOUS
  <2>1. ASSUME NEW d \in Devices, Beacon(d) \/ Refresh(d)
        PROVE  peers'[e].vip = peers[e].vip
    <3>1. PICK p, w : p \in Peer /\ Outcome(w, d, p)
      BY <2>1, BeaconOrRefresh
    <3>2. last'.id = d /\ d # NoDevice
      BY <3>1, RegistryAssumption DEF Outcome
    <3>3. peers'[e] = peers[e]
      BY <3>1, <3>2, OutcomeKeeps
    <3> QED BY <3>3
  <2>2. CASE Other
    BY <2>2, OtherEntries
  <2> QED BY <2>1, <2>2, NextCases
<1> QED BY <1>1, RegistryInvariant, PTL DEF RegistrySpec, ActiveKeepsVIP

-----------------------------------------------------------------------------
(* Addresses that pass from one node to another                            *)

(* An address that an active entry holds comes to another entry only by    *)
(* that entry's own beacon, and only if the two are the same node by key,  *)
(* name or kind: what a claim by any other node gets is another address or *)
(* none.                                                                   *)
AddressPasses ==
  [][\A d \in Known, e \in DOMAIN peers' :
       /\ d # e
       /\ IsActive(peers[d])
       /\ peers[d].vip # NoVIP /\ peers[d].vip \notin Drawn
       /\ peers'[e].vip = peers[d].vip
       => last'.id = e /\ SameIdentity(d, e)]_registryVars

(* The entries of the new table, unless the loop returned early.           *)
LEMMA OutcomeEntries ==
  ASSUME RegistryInv, NEW c \in Devices, NEW p \in Peer, NEW w, Outcome(w, c, p)
  PROVE  /\ DOMAIN Stored(w, c) = (Known \ w.evict) \union {c}
         /\ \A f \in Known \ (w.evict \union {c}) : Stored(w, c)[f] = w.table[f]
         /\ \/ Stored(w, c)[c].vip = w.p.vip
            \/ c \in Known /\ Stored(w, c)[c].vip = peers[c].vip
  BY StoredEntries DEF Outcome

LEMMA OutcomePasses ==
  ASSUME RegistryInv, NamesTellApart, SoleOwner,
         NEW c \in Devices, NEW p \in Peer, NEW w, Outcome(w, c, p),
         NEW d \in Known, NEW e \in DOMAIN peers', d # e, IsActive(peers[d]),
         peers[d].vip # NoVIP, peers[d].vip \notin Drawn, peers'[e].vip = peers[d].vip
  PROVE  e = c /\ SameIdentity(d, e)
<1> DEFINE s == Stored(w, c)
<1>1. /\ w.table \in [Known -> Peer] /\ w.evict \subseteq Known
      /\ \A f \in w.evict : SameIdentity(c, f) \/ ~IsActive(peers[f])
      /\ Owners(w, p, Others(c)) /\ \A f \in Known : w.table[f].vip = peers[f].vip
  BY DEF Outcome, Sound, Work, Owners
<1>2. ASSUME NEW f \in Known, f # d PROVE peers[f].vip # peers[d].vip
  BY <1>2 DEF SoleOwner
<1>3. ~(peers' = w.table)
  BY <1>1, <1>2
<1>4. ~(c \in Known /\ p = peers[c] /\ peers' = With(w.table, c, w.p))
  <2> SUFFICES ASSUME c \in Known, p = peers[c], peers' = With(w.table, c, w.p)
               PROVE  FALSE
    OBVIOUS
  <2>1. e \in Known /\ peers'[e] = IF e = c THEN w.p ELSE w.table[e]
    BY <1>1 DEF With
  <2>2. e = c /\ w.p.vip = peers[d].vip
    BY <1>1, <1>2, <2>1
  <2>3. w.p.vip \in {peers[c].vip, NoVIP} \union Drawn
    BY <1>1 DEF Owners
  <2> QED BY <1>2, <2>2, <2>3
<1>5. ~w.drop /\ e \in DOMAIN s /\ peers'[e] = s[e]
  BY <1>3, <1>4 DEF Outcome, Without
<1>6. /\ DOMAIN s = (Known \ w.evict) \union {c}
      /\ \A f \in Known \ (w.evict \union {c}) : s[f] = w.table[f]
      /\ s[c].vip = w.p.vip \/ (c \in Known /\ s[c].vip = peers[c].vip)
  BY OutcomeEntries
<1> HIDE DEF s
<1>7. e = c
  BY <1>1, <1>2, <1>5, <1>6
<1>8. w.p.vip = peers[d].vip
  BY <1>2, <1>5, <1>6, <1>7
<1>9. d \in w.evict
  BY <1>1, <1>5, <1>7, <1>8 DEF Owners, Others
<1>10. SameIdentity(c, d)
  BY <1>1, <1>9
<1> QED BY <1>7, <1>10 DEF SameIdentity, SameKey, SameType, SameName

(* While an active node holds an address no other entry can get it, but    *)
(* one of the same node that sent the beacon: the packets for the address  *)
(* are not led to a third party by any order of claims.                    *)
THEOREM AddressStaysWithNode ==
  ASSUME NamesTellApart
  PROVE  RegistrySpec => AddressPasses
<1>1. RegistryInv /\ SoleOwner /\ [RegistryNext]_registryVars
        => [\A d \in Known, e \in DOMAIN peers' :
              /\ d # e
              /\ IsActive(peers[d])
              /\ peers[d].vip # NoVIP /\ peers[d].vip \notin Drawn
              /\ peers'[e].vip = peers[d].vip
              => last'.id = e /\ SameIdentity(d, e)]_registryVars
  <2> SUFFICES ASSUME RegistryInv, SoleOwner, RegistryNext,
                      NEW d \in Known, NEW e \in DOMAIN peers', d # e,
                      IsActive(peers[d]), peers[d].vip # NoVIP,
                      peers[d].vip \notin Drawn, peers'[e].vip = peers[d].vip
               PROVE  last'.id = e /\ SameIdentity(d, e)
    OBVIOUS
  <2>1. ASSUME NEW c \in Devices, Beacon(c) \/ Refresh(c)
        PROVE  last'.id = e /\ SameIdentity(d, e)
    <3>1. PICK p, w : p \in Peer /\ Outcome(w, c, p)
      BY <2>1, BeaconOrRefresh
    <3>2. e = c /\ SameIdentity(d, e)
      BY <3>1, OutcomePasses
    <3> QED BY <3>1, <3>2 DEF Outcome
  <2>2. ~Other
    BY OtherEntries DEF SoleOwner
  <2> QED BY <2>1, <2>2, NextCases
<1> QED BY <1>1, OneEntryPerAddress, RegistryInvariant, PTL DEF RegistrySpec, AddressPasses

-----------------------------------------------------------------------------
(* Exit-node routing: the inductive invariant                              *)

Adds == {"gateway", "host", "add_lower", "add_resolver"}
Deletes == {"delete_lower", "delete_resolver", "delete_hosts"}

(* What the watchdog is doing when it changes routes.                      *)
Installs == pc = "busy" /\ sel # NoNode /\ healthy
Uninstalls == pc = "busy" /\ ~(sel # NoNode /\ healthy)

(* Callers are at commands of the function they are in.                    *)
JobsOK ==
  /\ job[Sender].next \in {"host", "done"}
  /\ job[Watchdog].next \in {"done"} \cup (IF Installs THEN Adds ELSE {})
                                     \cup (IF Uninstalls THEN Deletes ELSE {})
  /\ \A h \in Handlers :
       job[h].next \in {"done"} \cup
         (IF web[h].pc # "save" THEN {} ELSE IF web[h].want # NoNode THEN Adds ELSE Deletes)

(* The watchdog that has given an exit up does not count it as active when *)
(* the commands have run.                                                  *)
FailuresOK == GivenUpIsInactive /\ (Installs => consecutiveFailures = 0)

(* A host route into the tunnel, and a gateway that will make one, were    *)
(* read while the question for the gateway led into the tunnel; once it    *)
(* does not, a removal is under way, or has marked them as overtaken.      *)
StrayOK ==
  (bypass = "tunnel" \/ \E c \in Callers : job[c].gateway = "tunnel") /\ Gateway = "physical"
    => \E c \in Callers : Removing(c)

Inv == TypeOK /\ JobsOK /\ FailuresOK /\ StrayOK

LEMMA CallersApart ==
    /\ Watchdog \in Callers /\ Sender \in Callers /\ Watchdog # Sender
    /\ \A h \in Handlers : h \in Callers /\ h # Watchdog /\ h # Sender
    /\ \A c \in Callers : c = Sender \/ c = Watchdog \/ c \in Handlers
  BY CallersAssumption DEF Callers

LEMMA InitInv == Init => Inv
<1> SUFFICES ASSUME Init PROVE Inv
  OBVIOUS
<1>1. MaxFailures # 0 /\ 0 \in 0..MaxFailures
  BY MaxFailuresAssumption
<1>2. TypeOK
  BY <1>1 DEF Init, TypeOK, Request, Selection, Job, Idle, HostGateway
<1>3. \A c \in Callers : job[c] = Idle
  BY DEF Init
<1>4. JobsOK /\ StrayOK
  BY <1>3, CallersApart DEF Init, JobsOK, StrayOK, Idle
<1>5. FailuresOK
  BY <1>1 DEF Init, FailuresOK, GivenUpIsInactive, Installs
<1> QED BY <1>2, <1>4, <1>5 DEF Inv

-----------------------------------------------------------------------------
(* One command of one caller                                               *)

\* A caller moves on within its function, and the others stay where they are.
LEMMA RunNext ==
    ASSUME Inv, NEW c \in Callers, Run(c)
    PROVE  /\ \A d \in Callers \ {c} : job'[d].next = job[d].next
           /\ job[c].next \in Adds /\ c # Sender => job'[c].next \in Adds \cup {"done"}
           /\ job[c].next \in Deletes => job'[c].next \in Deletes \cup {"done"}
           /\ c = Sender => job'[c].next = "done"
           /\ job[c].next # "done"
  BY DEF Run, ReadGateway, AskGateway, AddHostRoute, AddRoute, DeleteRoute, DeleteHostRoutes,
         Overtaking, Goto, AfterBypass, Idle, Inv, TypeOK, JobsOK, Adds, Deletes, Job

LEMMA RunTypes ==
    ASSUME Inv, NEW c \in Callers, Run(c)
    PROVE  TypeOK'
<1>1. routes' \subseteq Tunnel /\ bypass' \in HostGateway
  BY DEF Run, ReadGateway, AddHostRoute, AddRoute, DeleteRoute, DeleteHostRoutes, kernel,
         Inv, TypeOK, Tunnel, Job, HostGateway
<1>2. job' \in [Callers -> Job]
  BY DEF Run, ReadGateway, AskGateway, AddHostRoute, AddRoute, DeleteRoute, DeleteHostRoutes,
         Overtaking, Goto, AfterBypass, Idle, Gateway, Inv, TypeOK, Job, HostGateway, Command
<1> QED BY <1>1, <1>2 DEF Run, engine, memory, Inv, TypeOK

LEMMA RunJobs ==
    ASSUME Inv, NEW c \in Callers, Run(c)
    PROVE  JobsOK'
<1>1. UNCHANGED <<engine, web>>
  BY DEF Run
<1> QED
  BY <1>1, RunNext, CallersApart DEF engine, memory, Inv, JobsOK, Installs, Uninstalls, Adds, Deletes

LEMMA RunStray ==
    ASSUME Inv, NEW c \in Callers, Run(c)
    PROVE  StrayOK'
<1>1. job \in [Callers -> Job] /\ routes \subseteq Tunnel
  BY DEF Inv, TypeOK
<1>2. CASE ReadGateway(c)
  BY <1>1, <1>2 DEF ReadGateway, AskGateway, Gateway, kernel, Inv, StrayOK, Removing
<1>3. CASE AddHostRoute(c)
  BY <1>1, <1>3 DEF AddHostRoute, AfterBypass, Goto, Idle, Gateway, Inv, StrayOK, Removing
<1>4. CASE AddRoute(c)
  BY <1>1, <1>4 DEF AddRoute, Goto, Idle, Gateway, Inv, StrayOK, Removing
<1>5. CASE DeleteRoute(c)
  <2>1. Removing(c)'
    BY <1>1, <1>5 DEF DeleteRoute, Goto, Idle, Removing
  <2> QED BY <2>1 DEF StrayOK
<1>6. CASE DeleteHostRoutes(c)
  BY <1>1, <1>6 DEF DeleteHostRoutes, Overtaking, Idle, StrayOK
<1> QED BY <1>2, <1>3, <1>4, <1>5, <1>6 DEF Run

LEMMA RunStep ==
    ASSUME Inv, NEW c \in Callers, Run(c)
    PROVE  Inv'
<1>1. FailuresOK'
  BY DEF Run, engine, memory, Inv, FailuresOK, GivenUpIsInactive, Installs
<1> QED BY <1>1, RunTypes, RunJobs, RunStray DEF Inv

\* A caller enters a function of routing_linux.go, or none does.
LEMMA CallStep ==
    ASSUME Inv, NEW c \in Callers, Free(c), UNCHANGED kernel,
           \/ \E ns \in SUBSET Nodes : EnableExitNodeRouting(c, ns)
           \/ DisableExitNodeRouting(c)
           \/ UNCHANGED job
    PROVE  /\ StrayOK' /\ job' \in [Callers -> Job]
           /\ \A d \in Callers \ {c} : job'[d] = job[d]
<1>1. /\ job' \in [Callers -> Job]
      /\ \A d \in Callers \ {c} : job'[d] = job[d]
      /\ job'[c].gateway = "none" \/ job'[c] = job[c]
  BY DEF EnableExitNodeRouting, DisableExitNodeRouting, Goto, Idle, Inv, TypeOK, Job, HostGateway,
         Command
<1>2. ~Removing(c)
  BY DEF Free, Removing
<1> QED BY <1>1, <1>2 DEF kernel, Gateway, Inv, StrayOK, Removing

-----------------------------------------------------------------------------
(* The steps of the watchdog and of requests                               *)

LEMMA ActStep ==
    ASSUME Inv, Act
    PROVE  Inv'
<1> USE MaxFailuresAssumption
<1>1. /\ Free(Watchdog) /\ consecutiveFailures \in 0..MaxFailures
      /\ exitRoutingActive => consecutiveFailures # MaxFailures
  BY DEF Act, Inv, TypeOK, JobsOK, FailuresOK, GivenUpIsInactive, Free, Installs, Uninstalls
<1>2. /\ UNCHANGED kernel
      /\ \/ \E ns \in SUBSET Nodes : EnableExitNodeRouting(Watchdog, ns)
         \/ DisableExitNodeRouting(Watchdog)
         \/ UNCHANGED job
  BY DEF Act, Deselected, Healthy, Unhealthy, CountFailure, Wait
<1>3. /\ StrayOK' /\ job' \in [Callers -> Job]
      /\ \A d \in Callers \ {Watchdog} : job'[d] = job[d]
  BY <1>1, <1>2, CallStep, CallersApart
<1>4. UNCHANGED <<file, cfg, up, web, exitRoutingActive, activeExitVIP>>
  BY DEF Act, Deselected, Healthy, Unhealthy, CountFailure, memory
<1>5. /\ pc' \in {"wait", "act", "busy"} /\ sel' \in Selection /\ healthy' \in BOOLEAN
      /\ pc' = "busy" => UNCHANGED <<sel, healthy>>
  BY DEF Act, Deselected, Healthy, Unhealthy, CountFailure, Wait, Busy, Inv, TypeOK, Selection
<1>6. /\ consecutiveFailures' \in 0..MaxFailures
      /\ consecutiveFailures' = MaxFailures /\ exitRoutingActive => pc' = "busy"
  BY <1>1 DEF Act, Deselected, Healthy, Unhealthy, CountFailure, Wait, Busy, memory
<1>7. Installs' => consecutiveFailures' = 0
  BY <1>5 DEF Act, Deselected, Healthy, Unhealthy, Installs
<1>8. job'[Watchdog].next \in {"done"} \cup (IF Installs' THEN Adds ELSE {})
                                       \cup (IF Uninstalls' THEN Deletes ELSE {})
  <2>1. CASE pc' = "busy" /\ EnableExitNodeRouting(Watchdog, Nodes) /\ sel # NoNode /\ healthy
    BY <1>5, <2>1, CallersApart DEF EnableExitNodeRouting, Goto, Idle, Installs, Adds, Inv, TypeOK
  <2>2. CASE pc' = "busy" /\ DisableExitNodeRouting(Watchdog) /\ ~(sel # NoNode /\ healthy)
    BY <1>5, <2>2, CallersApart DEF DisableExitNodeRouting, Goto, Idle, Uninstalls, Deletes, Inv,
                                    TypeOK
  <2>3. CASE UNCHANGED job
    BY <1>1, <2>3 DEF Free
  <2> QED
    BY <2>1, <2>2, <2>3 DEF Act, Deselected, Healthy, Unhealthy, CountFailure, Wait, Busy
<1>9. TypeOK'
  BY <1>2, <1>3, <1>4, <1>5, <1>6 DEF kernel, Inv, TypeOK
<1>10. JobsOK'
  BY <1>3, <1>4, <1>8, CallersApart DEF Inv, JobsOK
<1> QED BY <1>3, <1>4, <1>6, <1>7, <1>9, <1>10 DEF Inv, FailuresOK, GivenUpIsInactive

LEMMA DoneStep ==
    ASSUME Inv, Done
    PROVE  Inv'
<1>1. /\ pc = "busy" /\ pc' = "wait" /\ Free(Watchdog)
      /\ UNCHANGED <<file, cfg, kernel, job, up, web>>
  BY DEF Done, Wait
<1>2. /\ exitRoutingActive' \in BOOLEAN /\ activeExitVIP' \in Selection
      /\ sel' \in Selection /\ healthy' \in BOOLEAN
  BY DEF Done, Wait, Remember, Inv, TypeOK, Selection
<1>3. consecutiveFailures' \in 0..MaxFailures /\ (exitRoutingActive' => consecutiveFailures' = 0)
  BY <1>1, MaxFailuresAssumption
    DEF Done, Remember, Inv, TypeOK, FailuresOK, Installs
<1>4. TypeOK'
  BY <1>1, <1>2, <1>3 DEF kernel, Inv, TypeOK
<1>5. JobsOK'
  BY <1>1 DEF Inv, JobsOK, Free
<1>6. FailuresOK'
  BY <1>1, <1>3, MaxFailuresAssumption DEF FailuresOK, GivenUpIsInactive, Installs
<1>7. StrayOK'
  BY <1>1 DEF kernel, Gateway, Inv, StrayOK, Removing
<1> QED BY <1>4, <1>5, <1>6, <1>7 DEF Inv

\* A request to the web interface at its first step.
LEMMA RequestCalls ==
    ASSUME Inv, NEW h \in Handlers, NEW s \in Selection,
           Select(h, s) \/ (s \in Nodes /\ ToggleOn(h, s)) \/ (s = NoNode /\ ToggleOff(h))
    PROVE  /\ web[h].pc = "idle" /\ Free(h)
           /\ web' = [web EXCEPT ![h] = [pc |-> "save", want |-> s]]
           /\ UNCHANGED <<file, cfg, kernel, up, engine>>
           /\ \/ s # NoNode /\ \E ns \in SUBSET Nodes : EnableExitNodeRouting(h, ns)
              \/ s = NoNode /\ DisableExitNodeRouting(h)
              \/ UNCHANGED job /\ (s = file \/ (s # NoNode /\ Unknown(s)))
<1>1. web[h].pc = "idle"
  BY DEF Select, ToggleOn, ToggleOff, Serve
<1>2. Free(h)
  BY <1>1 DEF Inv, JobsOK, Free
<1>3. s # NoNode <=> s \in Nodes
  BY NoNodeAssumption DEF Selection
<1> QED BY <1>1, <1>2, <1>3 DEF Select, ToggleOn, ToggleOff, Serve, Unknown

LEMMA RequestStep ==
    ASSUME Inv, NEW h \in Handlers, NEW s \in Selection,
           Select(h, s) \/ (s \in Nodes /\ ToggleOn(h, s)) \/ (s = NoNode /\ ToggleOff(h))
    PROVE  Inv'
<1>1. /\ web[h].pc = "idle" /\ Free(h) /\ web' = [web EXCEPT ![h] = [pc |-> "save", want |-> s]]
      /\ UNCHANGED <<file, cfg, kernel, up, engine>>
      /\ \/ s # NoNode /\ \E ns \in SUBSET Nodes : EnableExitNodeRouting(h, ns)
         \/ s = NoNode /\ DisableExitNodeRouting(h)
         \/ UNCHANGED job
  BY RequestCalls
<1>2. /\ StrayOK' /\ job' \in [Callers -> Job]
      /\ \A d \in Callers \ {h} : job'[d] = job[d]
  BY <1>1, CallStep, CallersApart
<1>3. job'[h].next \in {"done"} \cup (IF s # NoNode THEN Adds ELSE Deletes)
  BY <1>1, CallersApart DEF EnableExitNodeRouting, DisableExitNodeRouting, Goto, Idle, Free, Adds,
                            Deletes, Inv, TypeOK
<1>4. TypeOK'
  BY <1>1, <1>2 DEF kernel, engine, memory, Inv, TypeOK, Request
<1>5. JobsOK'
  BY <1>1, <1>2, <1>3, CallersApart
    DEF engine, memory, Inv, TypeOK, JobsOK, Installs, Uninstalls
<1> QED
  BY <1>1, <1>2, <1>4, <1>5 DEF engine, memory, Inv, FailuresOK, GivenUpIsInactive, Installs

LEMMA RoamStep ==
    ASSUME Inv, Roam
    PROVE  Inv'
<1>1. /\ job' \in [Callers -> Job] /\ bypass' \in HostGateway
      /\ \A c \in Callers : /\ job'[c].gateway = "tunnel" => job[c].gateway = "tunnel"
                            /\ \/ job'[c].next = job[c].next
                               \/ /\ job[c].next \in {"gateway", "host"}
                                  /\ job'[c].next = AfterBypass(c)
  BY DEF Roam, AfterBypass, Idle, Inv, TypeOK, Job, HostGateway, Command
<1>2. TypeOK'
  BY <1>1 DEF Roam, engine, memory, Inv, TypeOK
<1>3. JobsOK'
  BY <1>1, CallersApart
    DEF Roam, engine, memory, Inv, JobsOK, AfterBypass, Installs, Uninstalls, Adds, Deletes
<1>4. StrayOK'
  BY <1>1 DEF Roam, Gateway, Inv, StrayOK, Removing
<1>5. FailuresOK'
  BY DEF Roam, engine, memory, Inv, FailuresOK, GivenUpIsInactive, Installs
<1> QED BY <1>2, <1>3, <1>4, <1>5 DEF Inv

LEMMA SendStep ==
    ASSUME Inv, Send
    PROVE  Inv'
<1>1. /\ job' = [job EXCEPT ![Sender] = [next |-> "host", gateway |-> Gateway]]
      /\ job \in [Callers -> Job] /\ Free(Sender)
      /\ UNCHANGED <<file, cfg, kernel, up, engine, web>>
  BY DEF Send, AskGateway, Inv, TypeOK
<1>2. TypeOK'
  BY <1>1 DEF kernel, engine, memory, Inv, TypeOK, Job, Command, HostGateway, Gateway
<1>3. JobsOK'
  BY <1>1, CallersApart DEF engine, memory, Inv, JobsOK, Installs, Uninstalls
<1>4. StrayOK'
  BY <1>1, CallersApart DEF kernel, Gateway, Free, Inv, StrayOK, Removing
<1>5. FailuresOK'
  BY <1>1 DEF engine, memory, Inv, FailuresOK, GivenUpIsInactive, Installs
<1> QED BY <1>2, <1>3, <1>4, <1>5 DEF Inv

\* What every other step leaves alone.
LEMMA OtherStep ==
    ASSUME Inv,
           Tick \/ UNCHANGED vars \/ (\E n \in Nodes : PeerChanges(n))
             \/ (\E h \in Handlers : Save(h) \/ SetConfig(h))
    PROVE  Inv'
<1>1. UNCHANGED <<kernel, job, memory>>
  BY DEF Tick, PeerChanges, Save, SetConfig, vars, engine
<1>2. StrayOK'
  BY <1>1 DEF kernel, Gateway, Inv, StrayOK, Removing
<1>3. CASE Tick
  BY <1>1, <1>2, <1>3 DEF Tick, kernel, memory, Inv, TypeOK, JobsOK, FailuresOK, GivenUpIsInactive,
                          Installs, Uninstalls
<1>4. ASSUME NEW n \in Nodes, PeerChanges(n) PROVE Inv'
  BY <1>1, <1>2, <1>4 DEF PeerChanges, engine, kernel, memory, Inv, TypeOK, JobsOK, FailuresOK,
                          GivenUpIsInactive, Installs, Uninstalls
<1>5. ASSUME NEW h \in Handlers, Save(h) \/ SetConfig(h) PROVE Inv'
  <2>1. /\ web' \in [Handlers -> Request] /\ file' \in Selection /\ cfg' \in Selection
        /\ UNCHANGED <<up, engine>>
    BY <1>5 DEF Save, SetConfig, Inv, TypeOK, Request, Selection
  <2>2. Free(h) /\ \A k \in Handlers \ {h} : web'[k] = web[k]
    BY <1>5 DEF Save, SetConfig, Inv, TypeOK, JobsOK, Free
  <2>3. JobsOK'
    BY <1>1, <2>1, <2>2 DEF Inv, JobsOK, Free, engine, memory, Installs, Uninstalls
  <2> QED BY <1>1, <1>2, <2>1, <2>3 DEF engine, kernel, memory, Inv, TypeOK, FailuresOK,
                                       GivenUpIsInactive, Installs
<1>6. CASE UNCHANGED vars
  BY <1>1, <1>2, <1>6 DEF vars, engine, kernel, memory, Inv, TypeOK, JobsOK, FailuresOK,
                          GivenUpIsInactive, Installs, Uninstalls
<1> QED BY <1>3, <1>4, <1>5, <1>6

LEMMA NextInv == Inv /\ [Next]_vars => Inv'
<1> SUFFICES ASSUME Inv, [Next]_vars PROVE Inv'
  OBVIOUS
<1>1. ASSUME NEW h \in Handlers, NEW s \in Selection, Select(h, s) PROVE Inv'
  BY <1>1, RequestStep
<1>2. ASSUME NEW h \in Handlers, NEW n \in Nodes, ToggleOn(h, n) PROVE Inv'
  BY <1>2, RequestStep DEF Selection
<1>3. ASSUME NEW h \in Handlers, ToggleOff(h) PROVE Inv'
  BY <1>3, RequestStep DEF Selection
<1> QED
  BY <1>1, <1>2, <1>3, ActStep, DoneStep, RunStep, SendStep, RoamStep, OtherStep DEF Next

THEOREM Invariance == Spec => []Inv
  BY InitInv, NextInv, PTL DEF Spec

-----------------------------------------------------------------------------
\* The variables keep their types.
THEOREM TypeCorrect == Spec => []TypeOK
<1>1. Inv => TypeOK
  BY DEF Inv
<1> QED BY <1>1, Invariance, PTL

\* The watchdog that has counted the last failure, and removed the routes, is not
\* active.
THEOREM GivenUp == Spec => []GivenUpIsInactive
<1>1. Inv => GivenUpIsInactive
  BY DEF Inv, FailuresOK
<1> QED BY <1>1, Invariance, PTL

\* Without exit routing no peer is reached through the tunnel, but for routes that a
\* removal under way is to delete and those of calls it overtook, for any number of
\* requests whose commands interleave with the watchdog's and the sender's.
THEOREM StrayIsOvertaken == Spec => []OnlyOvertakenStray
<1>1. Inv => OnlyOvertakenStray
  BY DEF Inv, StrayOK, OnlyOvertakenStray
<1> QED BY <1>1, Invariance, PTL

-----------------------------------------------------------------------------
(* Exit-node routing, one request at a time                                *)

(* What the configuration will hold once the request being served, if any, *)
(* has ended.                                                              *)
Target(h) == IF web[h].pc = "idle" THEN cfg ELSE web[h].want

(* The file agrees with the shared copy between requests, and with the     *)
(* request that has written it.                                            *)
FileAgrees(h) ==
  /\ web[h].pc = "idle" => file = cfg
  /\ web[h].pc = "set" => file = web[h].want

(* The routes a caller has still to add, or to delete.                     *)
YetToAdd(c) ==
  IF job[c].next = "add_resolver" THEN {"resolver"}
  ELSE IF job[c].next \in Adds THEN Tunnel ELSE {}
YetToDelete(c) ==
  IF job[c].next = "delete_lower" THEN Tunnel
  ELSE IF job[c].next = "delete_resolver" THEN {"resolver"} ELSE {}

(* An active exit has an address, and only an active one is removed.       *)
ActiveHasAddress ==
  /\ exitRoutingActive => activeExitVIP # NoNode
  /\ Uninstalls => exitRoutingActive

(* Routes that no selection asks for are the watchdog's own, or a request  *)
(* is about to delete them.                                                *)
LeftoversOK ==
  \A h \in Handlers :
    Target(h) = NoNode /\ ~exitRoutingActive /\ ~Installs => routes \subseteq YetToDelete(h)

(* Where the watchdog removes its routes, those it has deleted are gone    *)
(* unless a selection asks for them.                                       *)
UninstallsOK ==
  \A h \in Handlers :
    Target(h) = NoNode /\ Uninstalls => routes \subseteq YetToDelete(h) \cup YetToDelete(Watchdog)

(* The watchdog takes its routes for installed only if they are, or a      *)
(* request is about to add them, as long as the selection is the exit node *)
(* it remembers: it installs them anew only when the selection is another. *)
RememberedOK ==
  \A h \in Handlers :
    exitRoutingActive /\ activeExitVIP = Target(h) /\ ~Uninstalls
      => Tunnel \subseteq routes \cup YetToAdd(h)

(* Where it installs them, no request has deleted those it has added.      *)
InstallsOK ==
  \A h \in Handlers :
    Installs /\ sel = Target(h) => Tunnel \subseteq routes \cup YetToAdd(h) \cup YetToAdd(Watchdog)

OneRequestInv ==
  /\ Inv
  /\ \A h \in Handlers : FileAgrees(h)
  /\ ActiveHasAddress
  /\ LeftoversOK /\ UninstallsOK /\ RememberedOK /\ InstallsOK

OneAtATime == \A h, k \in Handlers : h = k

LEMMA OneRequestInit == Init => OneRequestInv
<1> SUFFICES ASSUME Init PROVE OneRequestInv
  OBVIOUS
<1>1. Inv
  BY InitInv
<1>2. /\ file = cfg /\ routes = {} /\ exitRoutingActive = FALSE /\ pc = "wait"
      /\ \A h \in Handlers : web[h].pc = "idle"
  BY DEF Init
<1> QED
  BY <1>1, <1>2 DEF OneRequestInv, FileAgrees, ActiveHasAddress, LeftoversOK, UninstallsOK,
                    RememberedOK, InstallsOK, Installs, Uninstalls

\* What a command does to the account of the routes; those of the sender do nothing
\* to it.
LEMMA RunAccount ==
    ASSUME Inv, NEW c \in Callers \ {Sender}, Run(c)
    PROVE  /\ routes' \subseteq routes \cup YetToAdd(c)
           /\ routes \subseteq routes' \cup YetToDelete(c)
           /\ YetToAdd(c) \subseteq YetToAdd(c)' \cup routes'
           /\ routes' \cap YetToDelete(c) \subseteq YetToDelete(c)'
<1>1. job \in [Callers -> Job] /\ routes \subseteq Tunnel
  BY DEF Inv, TypeOK
<1>2. CASE ReadGateway(c)
  BY <1>1, <1>2 DEF ReadGateway, AskGateway, kernel, YetToAdd, YetToDelete, Adds, Tunnel
<1>3. CASE AddHostRoute(c)
  BY <1>1, <1>3 DEF AddHostRoute, AfterBypass, Goto, Idle, YetToAdd, YetToDelete, Adds, Tunnel
<1>4. CASE AddRoute(c)
  BY <1>1, <1>4 DEF AddRoute, Goto, Idle, YetToAdd, YetToDelete, Adds, Tunnel
<1>5. CASE DeleteRoute(c)
  BY <1>1, <1>5 DEF DeleteRoute, Goto, Idle, YetToAdd, YetToDelete, Adds, Tunnel
<1>6. CASE DeleteHostRoutes(c)
  BY <1>1, <1>6 DEF DeleteHostRoutes, Overtaking, Idle, YetToAdd, YetToDelete, Adds, Tunnel
<1> QED BY <1>2, <1>3, <1>4, <1>5, <1>6 DEF Run

LEMMA OtherAccounts ==
    ASSUME NEW c \in Callers, NEW d \in Callers \ {c}, job'[d].next = job[d].next
    PROVE  YetToAdd(d)' = YetToAdd(d) /\ YetToDelete(d)' = YetToDelete(d)
  BY DEF YetToAdd, YetToDelete

\* A caller adds routes or deletes them, and that is what it was called for.
LEMMA WhoDoesWhat ==
    ASSUME Inv
    PROVE  /\ YetToAdd(Watchdog) # {} => Installs
           /\ YetToDelete(Watchdog) # {} => Uninstalls
           /\ \A h \in Handlers : /\ YetToAdd(h) # {} => Target(h) # NoNode
                                  /\ YetToDelete(h) # {} => Target(h) = NoNode
  BY DEF Inv, JobsOK, Target, YetToAdd, YetToDelete, Adds, Deletes

LEMMA OneRequestRun ==
    ASSUME OneAtATime, OneRequestInv, Inv', NEW c \in Callers, Run(c)
    PROVE  OneRequestInv'
<1>1. UNCHANGED <<file, cfg, web, pc, sel, healthy, exitRoutingActive, activeExitVIP>>
  BY DEF Run, engine, memory
<1>2. /\ \A h \in Handlers : Target(h)' = Target(h) /\ (FileAgrees(h)' <=> FileAgrees(h))
      /\ Installs' = Installs /\ Uninstalls' = Uninstalls
  BY <1>1 DEF Target, FileAgrees, Installs, Uninstalls
<1>3. (\A h \in Handlers : FileAgrees(h))' /\ ActiveHasAddress'
  BY <1>1, <1>2 DEF OneRequestInv, ActiveHasAddress
<1>4. Inv /\ (Installs => ~Uninstalls)
  BY DEF OneRequestInv, Installs, Uninstalls
<1>5. \A d \in Callers \ {c} : YetToAdd(d)' = YetToAdd(d) /\ YetToDelete(d)' = YetToDelete(d)
  BY <1>4, RunNext, OtherAccounts
<1>6. SUFFICES ASSUME NEW h \in Handlers
               PROVE  /\ Target(h) = NoNode /\ ~exitRoutingActive /\ ~Installs
                           => routes' \subseteq YetToDelete(h)'
                      /\ Target(h) = NoNode /\ Uninstalls
                           => routes' \subseteq YetToDelete(h)' \cup YetToDelete(Watchdog)'
                      /\ exitRoutingActive /\ activeExitVIP = Target(h) /\ ~Uninstalls
                           => Tunnel \subseteq routes' \cup YetToAdd(h)'
                      /\ Installs /\ sel = Target(h)
                           => Tunnel \subseteq routes' \cup YetToAdd(h)' \cup YetToAdd(Watchdog)'
  BY <1>1, <1>2, <1>3 DEF OneRequestInv, LeftoversOK, UninstallsOK, RememberedOK, InstallsOK
<1>7. /\ Target(h) = NoNode /\ ~exitRoutingActive /\ ~Installs => routes \subseteq YetToDelete(h)
      /\ Target(h) = NoNode /\ Uninstalls
           => routes \subseteq YetToDelete(h) \cup YetToDelete(Watchdog)
      /\ exitRoutingActive /\ activeExitVIP = Target(h) /\ ~Uninstalls
           => Tunnel \subseteq routes \cup YetToAdd(h)
      /\ Installs /\ sel = Target(h)
           => Tunnel \subseteq routes \cup YetToAdd(h) \cup YetToAdd(Watchdog)
  BY DEF OneRequestInv, LeftoversOK, UninstallsOK, RememberedOK, InstallsOK
<1>8. /\ YetToAdd(Watchdog) # {} => Installs
      /\ YetToDelete(Watchdog) # {} => Uninstalls
      /\ YetToAdd(h) # {} => Target(h) # NoNode
      /\ YetToDelete(h) # {} => Target(h) = NoNode
  BY <1>4, WhoDoesWhat
<1>9. exitRoutingActive => activeExitVIP # NoNode
  BY DEF OneRequestInv, ActiveHasAddress
<1>10. Installs => sel # NoNode
  BY DEF Installs
<1>11. h # Watchdog /\ h # Sender /\ h \in Callers /\ Watchdog \in Callers /\ Watchdog # Sender
  BY CallersApart
<1>12. CASE c = Sender
  <2>1. routes' = routes
    BY <1>4, <1>12 DEF Run, ReadGateway, AddHostRoute, AddRoute, DeleteRoute, DeleteHostRoutes,
                       kernel, Inv, JobsOK
  <2> QED BY <1>5, <1>7, <1>11, <1>12, <2>1
<1>13. CASE c = Watchdog
  <2>1. YetToAdd(h)' = YetToAdd(h) /\ YetToDelete(h)' = YetToDelete(h)
    BY <1>5, <1>11, <1>13
  <2>2. /\ routes' \subseteq routes \cup YetToAdd(Watchdog)
        /\ routes \subseteq routes' \cup YetToDelete(Watchdog)
        /\ YetToAdd(Watchdog) \subseteq YetToAdd(Watchdog)' \cup routes'
        /\ routes' \cap YetToDelete(Watchdog) \subseteq YetToDelete(Watchdog)'
    BY <1>4, <1>11, <1>13, RunAccount
  <2> QED BY <1>4, <1>7, <1>8, <2>1, <2>2
<1>14. CASE c = h
  <2>1. YetToAdd(Watchdog)' = YetToAdd(Watchdog) /\ YetToDelete(Watchdog)' = YetToDelete(Watchdog)
    BY <1>5, <1>11, <1>14
  <2>2. /\ routes' \subseteq routes \cup YetToAdd(h)
        /\ routes \subseteq routes' \cup YetToDelete(h)
        /\ YetToAdd(h) \subseteq YetToAdd(h)' \cup routes'
        /\ routes' \cap YetToDelete(h) \subseteq YetToDelete(h)'
    BY <1>4, <1>11, <1>14, RunAccount
  <2> QED BY <1>7, <1>8, <1>9, <1>10, <2>1, <2>2
<1> QED BY <1>12, <1>13, <1>14, CallersApart DEF OneAtATime

\* The watchdog's decision: it begins to add or to delete both routes, or does
\* nothing about a state that needs nothing.
LEMMA OneRequestAct ==
    ASSUME OneRequestInv, Inv', Act
    PROVE  OneRequestInv'
<1>1. /\ UNCHANGED <<file, cfg, web, routes, exitRoutingActive, activeExitVIP>>
      /\ pc = "act" /\ Inv
  BY DEF Act, Deselected, Healthy, Unhealthy, CountFailure, memory, kernel, OneRequestInv
<1>2. /\ \A h \in Handlers : Target(h)' = Target(h) /\ (FileAgrees(h)' <=> FileAgrees(h))
      /\ ~Installs /\ ~Uninstalls
  BY <1>1 DEF Target, FileAgrees, Installs, Uninstalls
<1>3. exitRoutingActive => activeExitVIP # NoNode
  BY DEF OneRequestInv, ActiveHasAddress
<1>4. /\ Installs' => YetToAdd(Watchdog)' = Tunnel
      /\ Uninstalls' => YetToDelete(Watchdog)' = Tunnel /\ exitRoutingActive
      /\ \A h \in Handlers : job'[h] = job[h]
  <2>1. CASE pc' = "wait" /\ UNCHANGED job
    BY <2>1 DEF Installs, Uninstalls
  <2>2. CASE Busy /\ sel # NoNode /\ healthy /\ EnableExitNodeRouting(Watchdog, Nodes)
    BY <1>1, <2>2, CallersApart
      DEF Busy, EnableExitNodeRouting, Goto, Idle, Uninstalls, YetToAdd, Adds, Inv, TypeOK
  <2>3. CASE Busy /\ ~(sel # NoNode /\ healthy) /\ exitRoutingActive /\ DisableExitNodeRouting(Watchdog)
    BY <1>1, <2>3, CallersApart
      DEF Busy, DisableExitNodeRouting, Goto, Idle, Installs, YetToDelete, Inv, TypeOK
  <2> QED
    BY <2>1, <2>2, <2>3 DEF Act, Deselected, Healthy, Unhealthy, CountFailure, Wait
<1>5. \A h \in Handlers : YetToAdd(h)' = YetToAdd(h) /\ YetToDelete(h)' = YetToDelete(h)
  BY <1>4 DEF YetToAdd, YetToDelete
<1>6. (\A h \in Handlers : FileAgrees(h))' /\ ActiveHasAddress'
  BY <1>1, <1>2, <1>3, <1>4 DEF OneRequestInv, ActiveHasAddress
<1>7. routes \subseteq Tunnel
  BY <1>1 DEF Inv, TypeOK
<1>8. LeftoversOK' /\ UninstallsOK' /\ RememberedOK' /\ InstallsOK'
  BY <1>1, <1>2, <1>4, <1>5, <1>7
    DEF OneRequestInv, LeftoversOK, UninstallsOK, RememberedOK, InstallsOK
<1> QED BY <1>6, <1>8 DEF OneRequestInv

\* The watchdog's commands have run: what they were to do is done.
LEMMA OneRequestDone ==
    ASSUME OneRequestInv, Inv', Done
    PROVE  OneRequestInv'
<1>1. /\ UNCHANGED <<file, cfg, web, kernel, job>> /\ pc = "busy" /\ pc' = "wait"
      /\ YetToAdd(Watchdog) = {} /\ YetToDelete(Watchdog) = {}
  BY DEF Done, Wait, Free, YetToAdd, YetToDelete, Adds
<1>2. /\ \A h \in Handlers : /\ Target(h)' = Target(h) /\ (FileAgrees(h)' <=> FileAgrees(h))
                             /\ YetToAdd(h)' = YetToAdd(h) /\ YetToDelete(h)' = YetToDelete(h)
      /\ ~Installs' /\ ~Uninstalls' /\ routes' = routes
  BY <1>1 DEF Target, FileAgrees, YetToAdd, YetToDelete, Installs, Uninstalls, kernel
<1>3. CASE Installs
  <2>1. exitRoutingActive' = TRUE /\ activeExitVIP' = sel /\ sel # NoNode
    BY <1>3 DEF Installs, Done, Remember
  <2> QED
    BY <1>1, <1>2, <1>3, <2>1
      DEF OneRequestInv, ActiveHasAddress, LeftoversOK, UninstallsOK, RememberedOK, InstallsOK
<1>4. CASE Uninstalls
  <2>1. exitRoutingActive' = FALSE
    BY <1>4 DEF Uninstalls, Done, Remember
  <2> QED
    BY <1>1, <1>2, <1>4, <2>1
      DEF OneRequestInv, ActiveHasAddress, LeftoversOK, UninstallsOK, RememberedOK, InstallsOK
<1> QED BY <1>1, <1>3, <1>4 DEF Installs, Uninstalls

\* The only request begins: the configuration will hold s after it.
LEMMA OneRequestBegins ==
    ASSUME OneAtATime, OneRequestInv, Inv', NEW h \in Handlers, NEW s \in Selection,
           Select(h, s) \/ (s \in Nodes /\ ToggleOn(h, s)) \/ (s = NoNode /\ ToggleOff(h))
    PROVE  OneRequestInv'
<1>1. /\ web[h].pc = "idle" /\ Free(h)
      /\ web' = [web EXCEPT ![h] = [pc |-> "save", want |-> s]]
      /\ UNCHANGED <<file, cfg, kernel, up, engine>>
      /\ \/ s # NoNode /\ \E ns \in SUBSET Nodes : EnableExitNodeRouting(h, ns)
         \/ s = NoNode /\ DisableExitNodeRouting(h)
         \/ UNCHANGED job /\ (s = file \/ (s # NoNode /\ Unknown(s)))
  BY RequestCalls DEF OneRequestInv
<1>2. /\ Handlers = {h} /\ web \in [Handlers -> Request] /\ job \in [Callers -> Job]
      /\ h \in Callers /\ Watchdog \in Callers /\ h # Watchdog
      /\ routes \subseteq Tunnel /\ FileAgrees(h)
  BY CallersApart DEF OneAtATime, OneRequestInv, Inv, TypeOK
<1>3. Target(h) = file /\ Target(h)' = s /\ FileAgrees(h)'
  BY <1>1, <1>2 DEF Target, FileAgrees
<1>4. /\ UNCHANGED <<pc, sel, healthy, exitRoutingActive, activeExitVIP, routes>>
      /\ Installs' = Installs /\ Uninstalls' = Uninstalls
  BY <1>1 DEF engine, memory, kernel, Installs, Uninstalls
<1>5. ActiveHasAddress'
  BY <1>4 DEF OneRequestInv, ActiveHasAddress
<1>6. exitRoutingActive => activeExitVIP # NoNode
  BY DEF OneRequestInv, ActiveHasAddress
<1>7. job'[Watchdog] = job[Watchdog]
  BY <1>1, <1>2 DEF EnableExitNodeRouting, DisableExitNodeRouting, Goto
<1>8. YetToAdd(Watchdog)' = YetToAdd(Watchdog) /\ YetToDelete(Watchdog)' = YetToDelete(Watchdog)
  BY <1>7 DEF YetToAdd, YetToDelete
<1>9. CASE s # NoNode /\ \E ns \in SUBSET Nodes : EnableExitNodeRouting(h, ns)
  <2>1. YetToAdd(h)' = Tunnel
    BY <1>2, <1>9 DEF EnableExitNodeRouting, Goto, Idle, YetToAdd, Adds
  <2> QED
    BY <1>2, <1>3, <1>4, <1>5, <1>9, <2>1
      DEF OneRequestInv, LeftoversOK, UninstallsOK, RememberedOK, InstallsOK
<1>10. CASE s = NoNode /\ DisableExitNodeRouting(h)
  <2>1. YetToDelete(h)' = Tunnel
    BY <1>2, <1>10 DEF DisableExitNodeRouting, Goto, Idle, YetToDelete
  <2>2. Installs => sel # NoNode
    BY DEF Installs
  <2> QED
    BY <1>2, <1>3, <1>4, <1>5, <1>6, <1>10, <2>1, <2>2
      DEF OneRequestInv, LeftoversOK, UninstallsOK, RememberedOK, InstallsOK
<1>11. CASE UNCHANGED job /\ (s = file \/ (s # NoNode /\ Unknown(s)))
  <2>1. YetToAdd(h)' = YetToAdd(h) /\ YetToDelete(h)' = YetToDelete(h)
    BY <1>11 DEF YetToAdd, YetToDelete
  <2>2. \/ s = file
        \/ /\ s # NoNode /\ ~(exitRoutingActive /\ activeExitVIP = s) /\ ~(Installs /\ sel = s)
    BY <1>11 DEF Unknown, Installs
  <2> QED
    BY <1>2, <1>3, <1>4, <1>5, <1>8, <2>1, <2>2
      DEF OneRequestInv, LeftoversOK, UninstallsOK, RememberedOK, InstallsOK
<1> QED BY <1>1, <1>9, <1>10, <1>11

\* Steps that change no route and nothing of what the account depends on.
LEMMA OneRequestOther ==
    ASSUME OneRequestInv, Inv',
           UNCHANGED <<routes, pc, healthy, exitRoutingActive, activeExitVIP>> \/ Tick,
           \A c \in Callers \ {Sender} :
             YetToAdd(c)' = YetToAdd(c) /\ YetToDelete(c)' = YetToDelete(c),
           \A h \in Handlers : Target(h)' = Target(h) /\ FileAgrees(h)',
           sel' = sel \/ Tick
    PROVE  OneRequestInv'
<1>1. UNCHANGED <<routes, exitRoutingActive, activeExitVIP>>
  BY DEF Tick, kernel, memory
<1>2. /\ Installs' = Installs /\ Uninstalls' = Uninstalls
      /\ Installs => sel' = sel
  BY DEF Tick, Installs, Uninstalls
<1>3. /\ YetToAdd(Watchdog)' = YetToAdd(Watchdog) /\ YetToDelete(Watchdog)' = YetToDelete(Watchdog)
      /\ \A h \in Handlers : YetToAdd(h)' = YetToAdd(h) /\ YetToDelete(h)' = YetToDelete(h)
  BY CallersApart
<1>4. ActiveHasAddress'
  BY <1>1, <1>2 DEF OneRequestInv, ActiveHasAddress
<1>5. LeftoversOK' /\ UninstallsOK' /\ RememberedOK' /\ InstallsOK'
  BY <1>1, <1>2, <1>3 DEF OneRequestInv, LeftoversOK, UninstallsOK, RememberedOK, InstallsOK
<1> QED BY <1>4, <1>5 DEF OneRequestInv

LEMMA OneRequestStep ==
    OneAtATime /\ OneRequestInv /\ [Next]_vars => OneRequestInv'
<1> SUFFICES ASSUME OneAtATime, OneRequestInv, [Next]_vars PROVE OneRequestInv'
  OBVIOUS
<1>0. Inv' /\ Inv /\ (\A h \in Handlers : FileAgrees(h))
  BY NextInv DEF OneRequestInv
<1>1. CASE Tick \/ UNCHANGED vars \/ \E n \in Nodes : PeerChanges(n)
  <2>1. UNCHANGED <<file, cfg, kernel, job, web, exitRoutingActive, activeExitVIP>>
        /\ (Tick \/ UNCHANGED <<pc, sel, healthy>>)
    BY <1>1 DEF Tick, PeerChanges, vars, engine, memory
  <2>2. \A h \in Handlers : Target(h)' = Target(h) /\ FileAgrees(h)'
    BY <1>0, <2>1 DEF Target, FileAgrees
  <2> QED BY <1>0, <2>1, <2>2, OneRequestOther DEF kernel, YetToAdd, YetToDelete
<1>2. ASSUME NEW h \in Handlers, Save(h) \/ SetConfig(h) PROVE OneRequestInv'
  <2>1. Handlers = {h} /\ web \in [Handlers -> Request]
    BY <1>0 DEF OneAtATime, Inv, TypeOK
  <2>2. \A k \in Handlers : Target(k)' = Target(k) /\ FileAgrees(k)'
    BY <1>0, <1>2, <2>1 DEF Save, SetConfig, Target, FileAgrees, Request
  <2>3. UNCHANGED <<kernel, job, engine>>
    BY <1>2 DEF Save, SetConfig
  <2> QED BY <1>0, <2>2, <2>3, OneRequestOther DEF kernel, engine, memory, YetToAdd, YetToDelete
<1>3. CASE Send \/ Roam
  <2>1. UNCHANGED <<file, cfg, routes, engine, web>>
    BY <1>3 DEF Send, Roam, kernel
  <2>2. \A c \in Callers \ {Sender} :
          YetToAdd(c)' = YetToAdd(c) /\ YetToDelete(c)' = YetToDelete(c)
    BY <1>0, <1>3 DEF Send, AskGateway, Roam, AfterBypass, Idle, Inv, TypeOK, YetToAdd, YetToDelete,
                      Adds
  <2>3. \A h \in Handlers : Target(h)' = Target(h) /\ FileAgrees(h)'
    BY <1>0, <2>1 DEF Target, FileAgrees
  <2> QED BY <1>0, <2>1, <2>2, <2>3, OneRequestOther DEF engine, memory
<1>4. ASSUME NEW c \in Callers, Run(c) PROVE OneRequestInv'
  BY <1>0, <1>4, OneRequestRun
<1>5. ASSUME NEW h \in Handlers, NEW s \in Selection, Select(h, s) PROVE OneRequestInv'
  BY <1>0, <1>5, OneRequestBegins
<1>6. ASSUME NEW h \in Handlers, NEW n \in Nodes, ToggleOn(h, n) PROVE OneRequestInv'
  BY <1>0, <1>6, OneRequestBegins DEF Selection
<1>7. ASSUME NEW h \in Handlers, ToggleOff(h) PROVE OneRequestInv'
  BY <1>0, <1>7, OneRequestBegins DEF Selection
<1> QED
  BY <1>0, <1>1, <1>2, <1>3, <1>4, <1>5, <1>6, <1>7, OneRequestAct, OneRequestDone DEF Next

LEMMA OneRequest ==
    ASSUME OneAtATime
    PROVE  Spec => []OneRequestInv
<1>1. OneRequestInv /\ [Next]_vars => OneRequestInv'
  BY OneRequestStep
<1> QED BY <1>1, OneRequestInit, PTL DEF Spec

\* Routes that no selection asks for are the watchdog's own, or it is installing them.
LeftoverIsRemembered ==
  \A h \in Handlers :
    Free(h) /\ Target(h) = NoNode /\ routes # {} => exitRoutingActive \/ Installs

\* Where requests come one at a time, the routes that stay when the user has
\* deselected the exit node are known to the watchdog: those it installed from a
\* selection it had read before, whole or in part. It removes them, on which
\* DeselectRestores rests.
THEOREM LeftoversRemembered ==
  ASSUME OneAtATime
  PROVE  Spec => []LeftoverIsRemembered
<1>1. OneRequestInv => LeftoverIsRemembered
  BY DEF OneRequestInv, LeftoversOK, LeftoverIsRemembered, Free, YetToDelete
<1> QED BY <1>1, OneRequest, PTL

\* The watchdog that is not changing routes takes its own for installed only if both
\* are, as long as the selection is the exit node it remembers.
RememberedIsInstalled ==
  \A h \in Handlers :
    Free(h) /\ pc # "busy" /\ exitRoutingActive /\ Target(h) = activeExitVIP => routes = Tunnel

\* Where requests come one at a time, a watchdog that holds the selected exit node
\* for active is right: no request removed a route behind its back, in whatever order
\* their commands ran, on which RecoversExit rests.
THEOREM RememberedInstalled ==
  ASSUME OneAtATime
  PROVE  Spec => []RememberedIsInstalled
<1>1. OneRequestInv => RememberedIsInstalled
  BY DEF OneRequestInv, Inv, TypeOK, RememberedOK, RememberedIsInstalled, Uninstalls, Free, YetToAdd,
         Adds
<1> QED BY <1>1, OneRequest, PTL

\* One look of the watchdog is enough: when it ends, and the selection that was read
\* for it is the one the configuration holds, or will hold once the request being
\* served has ended, no routes are left of a deselected exit node, and those of a
\* healthy one are there, provided the request has run its commands.
WatchdogSettles ==
    [][pc # "wait" /\ pc' = "wait" =>
         \A h \in Handlers :
           Free(h) /\ Target(h) = sel =>
             IF sel = NoNode THEN routes' = {}
             ELSE healthy => routes' = Tunnel /\ exitRoutingActive' /\ activeExitVIP' = sel]_vars

\* Where requests come one at a time, what the watchdog has read is all it needs to
\* put the kernel's routes right, whatever order its commands and those of the
\* requests ran in.
THEOREM OneLookSettles ==
  ASSUME OneAtATime
  PROVE  Spec => WatchdogSettles
<1>1. OneRequestInv /\ [Next]_vars
        => [pc # "wait" /\ pc' = "wait" =>
              \A h \in Handlers :
                Free(h) /\ Target(h) = sel =>
                  IF sel = NoNode THEN routes' = {}
                  ELSE healthy => routes' = Tunnel /\ exitRoutingActive' /\ activeExitVIP' = sel]_vars
  <2> SUFFICES ASSUME OneRequestInv, [Next]_vars, pc # "wait", pc' = "wait",
                      NEW h \in Handlers, Free(h), Target(h) = sel
               PROVE  IF sel = NoNode THEN routes' = {}
                      ELSE healthy => routes' = Tunnel /\ exitRoutingActive' /\ activeExitVIP' = sel
    OBVIOUS
  <2>1. Act \/ Done
    BY DEF Next, Run, Tick, Select, ToggleOn, ToggleOff, Serve, Save, SetConfig, Send, Roam,
           PeerChanges, engine, vars
  <2>2. YetToAdd(h) = {} /\ YetToDelete(h) = {} /\ routes \subseteq Tunnel
    BY DEF Free, YetToAdd, YetToDelete, Adds, OneRequestInv, Inv, TypeOK
  <2>3. CASE Act
    <3>1. /\ pc = "act" /\ routes' = routes
          /\ UNCHANGED <<exitRoutingActive, activeExitVIP>>
      BY <2>3 DEF Act, Deselected, Healthy, Unhealthy, CountFailure, memory, kernel
    <3>2. ~Installs /\ ~Uninstalls
      BY <3>1 DEF Installs, Uninstalls
    <3>3. /\ sel = NoNode => ~exitRoutingActive
          /\ sel # NoNode /\ healthy => exitRoutingActive /\ activeExitVIP = sel
      BY <2>3 DEF Act, Deselected, Healthy, Unhealthy, Busy, OneRequestInv, ActiveHasAddress
    <3> QED
      BY <2>2, <3>1, <3>2, <3>3 DEF OneRequestInv, LeftoversOK, RememberedOK
  <2>4. CASE Done
    <3>1. /\ pc = "busy" /\ routes' = routes /\ YetToAdd(Watchdog) = {} /\ YetToDelete(Watchdog) = {}
      BY <2>4 DEF Done, kernel, Free, YetToAdd, YetToDelete, Adds
    <3>2. CASE sel = NoNode
      BY <2>2, <3>1, <3>2 DEF OneRequestInv, UninstallsOK, Uninstalls
    <3>3. CASE sel # NoNode /\ healthy
      BY <2>2, <2>4, <3>1, <3>3 DEF Done, Remember, OneRequestInv, InstallsOK, Installs
    <3> QED BY <3>2, <3>3
  <2> QED BY <2>1, <2>3, <2>4
<1> QED BY <1>1, OneRequest, PTL DEF Spec, WatchdogSettles
=============================================================================

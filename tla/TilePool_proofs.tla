--------------------------- MODULE TilePool_proofs --------------------------
(***************************************************************************)
(* The promises of the tile store, for every number of slots, every set of *)
(* positions and every width of the salt.                                  *)
(***************************************************************************)
EXTENDS TilePool, TLAPS

\* The salts the code cycles through are never zero and never exceed the mask,
\* so that 0 stays free to mean "no tile".
LEMMA NextSaltType == ASSUME NEW s \in 1..MaxSalt PROVE NextSalt(s) \in 1..MaxSalt
  BY MaxSaltAssumption DEF NextSalt

\* removeTile keeps the types.
LEMMA RemoveType ==
  ASSUME PoolTypeOK, NEW r \in Ref, Remove(r)
  PROVE  PoolTypeOK'
<1> USE DEF PoolTypeOK
<1>1. r.slot \in Slots /\ r.salt \in 1..MaxSalt
  BY DEF Ref
<1>2. stale' \subseteq StaleRef
  BY <1>1, MaxSaltAssumption DEF Remove, Aged, StaleRef
<1>3. salt' \in [Slots -> 1..MaxSalt]
  BY <1>1, NextSaltType DEF Remove
<1>4. QED
  BY <1>2, <1>3 DEF Remove

\* Types are kept by addTile and removeTile: salts stay in 1..mask, every slot
\* holds a position or nothing.
THEOREM PoolTypeCorrect == PoolSpec => []PoolTypeOK
<1>1. PoolInit => PoolTypeOK
  BY MaxSaltAssumption DEF PoolInit, PoolTypeOK
<1>2. PoolTypeOK /\ [PoolNext]_poolVars => PoolTypeOK'
  <2> SUFFICES ASSUME PoolTypeOK, [PoolNext]_poolVars
               PROVE PoolTypeOK'
    OBVIOUS
  <2> USE MaxSaltAssumption DEF PoolTypeOK
  <2>1. ASSUME NEW l \in Locs, NEW i \in Slots, Add(l, i)
        PROVE PoolTypeOK'
    BY <2>1 DEF Add
  <2>2. ASSUME NEW l \in Locs, NEW e \in stale, Restore(l, e)
        PROVE PoolTypeOK'
    <3>1. e \in StaleRef
      OBVIOUS
    <3>2. stale' \subseteq StaleRef
      BY <2>2 DEF Restore, StaleRef
    <3>3. QED
      BY <2>2, <3>1, <3>2 DEF Restore, StaleRef
  <2>3. ASSUME NEW r \in Ref, Remove(r)
        PROVE PoolTypeOK'
    BY <2>3, RemoveType
  <2>4. CASE UNCHANGED poolVars
    BY <2>4 DEF poolVars
  <2>5. QED
    BY <2>1, <2>2, <2>3, <2>4 DEF PoolNext
<1>3. QED
  BY <1>1, <1>2, PTL DEF PoolSpec

\* addTile never puts two tiles at one (x, y, layer).
THEOREM PoolUniqueLocation == PoolSpec => []UniqueLocation
<1>1. PoolInit => UniqueLocation
  BY DEF PoolInit, UniqueLocation
<1>2. PoolTypeOK /\ UniqueLocation /\ [PoolNext]_poolVars => UniqueLocation'
  <2> SUFFICES ASSUME PoolTypeOK, UniqueLocation, [PoolNext]_poolVars
               PROVE UniqueLocation'
    OBVIOUS
  <2> USE DEF PoolTypeOK, UniqueLocation
  <2>1. ASSUME NEW l \in Locs, NEW i \in Slots, Add(l, i)
        PROVE UniqueLocation'
    BY <2>1 DEF Add, Occupied
  <2>2. ASSUME NEW l \in Locs, NEW e \in stale, Restore(l, e)
        PROVE UniqueLocation'
    BY <2>2 DEF Restore, Occupied, StaleRef
  <2>3. ASSUME NEW r \in Ref, Remove(r)
        PROVE UniqueLocation'
    BY <2>3 DEF Remove, Ref
  <2>4. CASE UNCHANGED poolVars
    BY <2>4 DEF poolVars
  <2>5. QED
    BY <2>1, <2>2, <2>3, <2>4 DEF PoolNext
<1>3. QED
  BY <1>1, <1>2, PoolTypeCorrect, PTL DEF PoolSpec

\* The distance between a removed reference's salt and its slot's salt is the
\* number of removals since, modulo the number of salts.
THEOREM PoolSaltCountsRemovals == PoolSpec => []SaltCountsRemovals
<1>1. PoolInit => SaltCountsRemovals
  BY DEF PoolInit, SaltCountsRemovals
<1>2. PoolTypeOK /\ SaltCountsRemovals /\ [PoolNext]_poolVars => SaltCountsRemovals'
  <2> SUFFICES ASSUME PoolTypeOK, SaltCountsRemovals, [PoolNext]_poolVars
               PROVE SaltCountsRemovals'
    OBVIOUS
  <2> USE MaxSaltAssumption DEF PoolTypeOK
  <2>1. ASSUME NEW l \in Locs, NEW i \in Slots, Add(l, i)
        PROVE SaltCountsRemovals'
    BY <2>1 DEF Add, SaltCountsRemovals
  <2>2. ASSUME NEW l \in Locs, NEW e \in stale, Restore(l, e)
        PROVE SaltCountsRemovals'
    <3> SUFFICES ASSUME NEW f \in stale'
                 PROVE /\ f.age < MaxSalt
                       /\ salt'[f.slot] = IF f.salt + f.age <= MaxSalt
                                            THEN f.salt + f.age
                                            ELSE f.salt + f.age - MaxSalt
      BY DEF SaltCountsRemovals
    <3>1. e \in StaleRef /\ salt[e.slot] = NextSalt(e.salt)
      BY <2>2 DEF Restore, SaltCountsRemovals, StaleRef, NextSalt
    <3>2. CASE f \in stale /\ f.slot # e.slot
      BY <2>2, <3>1, <3>2 DEF Restore, SaltCountsRemovals, StaleRef
    <3>3. ASSUME NEW g \in stale, g.slot = e.slot, g.age > 1,
                 f = [g EXCEPT !.age = @ - 1]
          PROVE /\ f.age < MaxSalt
                /\ salt'[f.slot] = IF f.salt + f.age <= MaxSalt
                                     THEN f.salt + f.age
                                     ELSE f.salt + f.age - MaxSalt
      <4>1. g \in StaleRef
        OBVIOUS
      <4>2. f.slot = e.slot /\ f.salt = g.salt /\ f.age = g.age - 1
        BY <3>3, <4>1 DEF StaleRef
      <4>3. salt'[f.slot] = e.salt
        BY <2>2, <3>1, <4>2 DEF Restore, StaleRef
      <4>4. /\ g.age < MaxSalt
            /\ salt[e.slot] = IF g.salt + g.age <= MaxSalt
                                THEN g.salt + g.age ELSE g.salt + g.age - MaxSalt
        BY <3>3 DEF SaltCountsRemovals
      <4>5. g.age \in 2..MaxSalt /\ g.salt \in 1..MaxSalt /\ e.salt \in 1..MaxSalt
        BY <3>1, <3>3, <4>1 DEF StaleRef
      <4>6. QED
        BY <3>1, <4>2, <4>3, <4>4, <4>5 DEF NextSalt
    <3>4. QED
      BY <2>2, <3>2, <3>3 DEF Restore
  <2>3. ASSUME NEW r \in Ref, Remove(r)
        PROVE SaltCountsRemovals'
    <3> SUFFICES ASSUME NEW f \in stale'
                 PROVE /\ f.age < MaxSalt
                       /\ salt'[f.slot] = IF f.salt + f.age <= MaxSalt
                                            THEN f.salt + f.age
                                            ELSE f.salt + f.age - MaxSalt
      BY DEF SaltCountsRemovals
    <3>1. /\ r.slot \in Slots /\ r.salt \in 1..MaxSalt /\ salt[r.slot] = r.salt
          /\ salt' = [salt EXCEPT ![r.slot] = NextSalt(r.salt)]
      BY <2>3 DEF Remove, Live, Ref
    <3>2. CASE f \in stale /\ f.slot # r.slot
      BY <3>1, <3>2 DEF SaltCountsRemovals, StaleRef
    <3>3. ASSUME NEW g \in stale, g.slot = r.slot, g.age + 1 < MaxSalt,
                 f = [g EXCEPT !.age = @ + 1]
          PROVE /\ f.age < MaxSalt
                /\ salt'[f.slot] = IF f.salt + f.age <= MaxSalt
                                     THEN f.salt + f.age
                                     ELSE f.salt + f.age - MaxSalt
      <4>1. g \in StaleRef
        OBVIOUS
      <4>2. f.slot = r.slot /\ f.salt = g.salt /\ f.age = g.age + 1
        BY <3>3, <4>1 DEF StaleRef
      <4>3. salt[r.slot] = IF g.salt + g.age <= MaxSalt
                             THEN g.salt + g.age ELSE g.salt + g.age - MaxSalt
        BY <3>3 DEF SaltCountsRemovals
      <4>4. g.age \in 1..MaxSalt /\ g.salt \in 1..MaxSalt
        BY <4>1 DEF StaleRef
      <4>5. QED
        BY <3>1, <3>3, <4>2, <4>3, <4>4 DEF NextSalt
    <3>4. CASE MaxSalt > 1 /\ f = [slot |-> r.slot, salt |-> r.salt, age |-> 1]
      BY <3>1, <3>4 DEF NextSalt
    <3>5. QED
      BY <2>3, <3>2, <3>3, <3>4 DEF Remove, Aged
  <2>4. CASE UNCHANGED poolVars
    BY <2>4 DEF poolVars, SaltCountsRemovals
  <2>5. QED
    BY <2>1, <2>2, <2>3, <2>4 DEF PoolNext
<1>3. QED
  BY <1>1, <1>2, PoolTypeCorrect, PTL DEF PoolSpec

\* A removed tile's references are refused however the slot is reused, short of
\* 2^SaltBits - 1 removals from that slot.
THEOREM PoolStaleRefused == PoolSpec => []StaleRefused
<1>1. PoolTypeOK /\ SaltCountsRemovals => StaleRefused
  BY MaxSaltAssumption DEF PoolTypeOK, SaltCountsRemovals, StaleRefused, StaleRef
<1>2. QED
  BY <1>1, PoolTypeCorrect, PoolSaltCountsRemovals, PTL
=============================================================================

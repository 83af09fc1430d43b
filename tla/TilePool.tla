------------------------------ MODULE TilePool ------------------------------
(***************************************************************************)
(* What dtNavMesh promises to its callers as a store of tiles: a fixed     *)
(* number of slots, at most one tile per location, and a reference for     *)
(* each tile that stops working when the tile is removed.                  *)
(*                                                                         *)
(* The free list, the position hash and the links of the code are left     *)
(* out; module NavMesh has them and implements this one.  Failed calls     *)
(* change nothing and are stuttering steps here.                           *)
(***************************************************************************)
EXTENDS Naturals

CONSTANTS
  Slots,    \* indices into m_tiles
  Locs,     \* (x, y, layer) positions a tile header can carry
  NoLoc,    \* the position of an empty slot (header == 0)
  MaxSalt   \* the largest salt, 2^16 - 1 in the DT_POLYREF64 build

ASSUME MaxSaltAssumption == MaxSalt \in Nat \ {0}
ASSUME NoLocAssumption == NoLoc \notin Locs

VARIABLES
  salt,     \* salt[i]: the salt of slot i, free or used
  at,       \* at[i]: the position of the tile in slot i, or NoLoc
  stale     \* history: references given out and removed since, with the
            \* number of times their slot was emptied since they were issued

poolVars == <<salt, at, stale>>

\* A tile reference is the pair encodePolyId packs into 64 bits.
Ref == [slot : Slots, salt : 1..MaxSalt]

StaleRef == [slot : Slots, salt : 1..MaxSalt, age : 1..MaxSalt]

RefOf(i) == [slot |-> i, salt |-> salt[i]]

\* A reference is accepted while its slot is in use and still has its salt.
Live(r) == salt[r.slot] = r.salt /\ at[r.slot] # NoLoc

\* Mutant of Occupied: addTile without its ALREADY_OCCUPIED test.
OccupiedNever(l) == FALSE

Occupied(l) == \E i \in Slots : at[i] = l

\* Mutants of NextSalt: the salt is not changed; zero is not skipped.
NextSaltKept(s) == s
NextSaltZero(s) == (s + 1) % (MaxSalt + 1)

\* (salt + 1) & mask, skipping zero.
NextSalt(s) == IF s = MaxSalt THEN 1 ELSE s + 1

\* The references of slot i after one more removal from it.  One that is
\* MaxSalt removals old is forgotten: the salt has come round to it.
Aged(i) ==
  {e \in stale : e.slot # i}
    \cup {[e EXCEPT !.age = @ + 1] : e \in {f \in stale : f.slot = i /\ f.age + 1 < MaxSalt}}

PoolInit ==
  /\ salt = [i \in Slots |-> 1]
  /\ at = [i \in Slots |-> NoLoc]
  /\ stale = {}

\* Mutant of Add: a slot that is in use is taken.
AddAnySlot(l, i) ==
  /\ ~Occupied(l)
  /\ at' = [at EXCEPT ![i] = l]
  /\ UNCHANGED <<salt, stale>>

\* addTile with no reference to restore, when it succeeds in slot i.
Add(l, i) ==
  /\ ~Occupied(l)
  /\ at[i] = NoLoc
  /\ at' = [at EXCEPT ![i] = l]
  /\ UNCHANGED <<salt, stale>>

\* addTile asked to restore the reference removed last from its slot.
Restore(l, e) ==
  /\ ~Occupied(l)
  /\ at[e.slot] = NoLoc
  /\ e.age = 1
  /\ at' = [at EXCEPT ![e.slot] = l]
  /\ salt' = [salt EXCEPT ![e.slot] = e.salt]
  /\ stale' = {f \in stale : f.slot # e.slot}
                \cup {[f EXCEPT !.age = @ - 1] : f \in {g \in stale : g.slot = e.slot /\ g.age > 1}}

\* removeTile with a reference that is accepted.
Remove(r) ==
  /\ Live(r)
  /\ at' = [at EXCEPT ![r.slot] = NoLoc]
  /\ salt' = [salt EXCEPT ![r.slot] = NextSalt(@)]
  /\ stale' = Aged(r.slot)
                \cup (IF MaxSalt > 1
                        THEN {[slot |-> r.slot, salt |-> r.salt, age |-> 1]}
                        ELSE {})

PoolNext ==
  \/ \E l \in Locs, i \in Slots : Add(l, i)
  \/ \E l \in Locs, e \in stale : Restore(l, e)
  \/ \E r \in Ref : Remove(r)

PoolSpec == PoolInit /\ [][PoolNext]_poolVars

-----------------------------------------------------------------------------
PoolTypeOK ==
  /\ salt \in [Slots -> 1..MaxSalt]
  /\ at \in [Slots -> Locs \cup {NoLoc}]
  /\ stale \subseteq StaleRef

\* No two tiles of the mesh are at the same (x, y, layer): what the
\* ALREADY_OCCUPIED test of addTile is for.
UniqueLocation ==
  \A i, j \in Slots : at[i] # NoLoc /\ at[i] = at[j] => i = j

\* The salt of a slot is as many steps past the salt of a removed reference as
\* the slot has been emptied since: the strengthening behind StaleRefused.
SaltCountsRemovals ==
  \A e \in stale :
    /\ e.age < MaxSalt
    /\ salt[e.slot] = IF e.salt + e.age <= MaxSalt
                        THEN e.salt + e.age
                        ELSE e.salt + e.age - MaxSalt

\* A reference that was removed is refused by getTileByRef, removeTile and the
\* polygon lookups, whatever was put into its slot since, until the slot has
\* been emptied 2^SaltBits - 1 times.
StaleRefused == \A e \in stale : salt[e.slot] # e.salt
=============================================================================

--------------------------- MODULE LRWCacheProofs ---------------------------
(***************************************************************************)
(* What LRWCache guarantees for every maxSize, every number of callers and *)
(* every set of keys.                                                      *)
(***************************************************************************)
EXTENDS LRWCache, FiniteSetTheorems, SequenceTheorems, TLAPS

\* A call that will use its key has one.
ArgsKnown ==
  /\ \A c \in Callers : pc[c] \in SetSteps \cup {"remove"} => arg[c] \in Keys
  /\ \A c \in Callers : pc[c] = "evictDelete" => victim[c] \in Keys

TypeInv == TypeOK /\ ArgsKnown

LEMMA InitTypeInv == Init => TypeInv
BY CacheAssumption DEF Init, TypeInv, TypeOK, ArgsKnown, Places, SetSteps

\* delete keeps the types of everything it writes.
LEMMA DeleteEntryType ==
  ASSUME TypeOK, NEW who \in Callers \cup Timers, NEW k, DeleteEntry(who, k)
  PROVE  /\ data' \in [Keys -> Timers \cup {None}]
         /\ tstate' \in [Timers -> {"free", "armed", "fired"}]
         /\ tkey' \in [Timers -> Keys \cup {None}]
         /\ mu' \in Callers \cup Timers \cup {None}
BY DEF DeleteEntry, StopTimer, Present, TypeOK

LEMMA NextTypeInv == TypeInv /\ [Next]_vars => TypeInv'
<1> SUFFICES ASSUME TypeInv, [Next]_vars PROVE TypeInv'
  OBVIOUS
<1> USE CacheAssumption DEF TypeInv, TypeOK, ArgsKnown, Places, SetSteps
<1>1. ASSUME NEW c \in Callers, NEW k \in Keys, Set(c, k) PROVE TypeInv'
  BY <1>1 DEF Set
<1>2. ASSUME NEW c \in Callers, SetEvict(c) PROVE TypeInv'
  BY <1>2, HeadTailProperties DEF SetEvict
<1>3. ASSUME NEW c \in Callers, SetEvictDelete(c) PROVE TypeInv'
  BY <1>3, DeleteEntryType DEF SetEvictDelete, DeleteNothing
<1>4. ASSUME NEW c \in Callers, SetEvictReceive(c) PROVE TypeInv'
  BY <1>4, HeadTailProperties DEF SetEvictReceive, ReceiveToken
<1>5. ASSUME NEW c \in Callers, SetPush(c) PROVE TypeInv'
  BY <1>5, AppendProperties DEF SetPush
<1>6. ASSUME NEW c \in Callers, SetInsert(c) PROVE TypeInv'
  BY <1>6 DEF SetInsert
<1>7. ASSUME NEW c \in Callers, GetCall(c) \/ Get(c) PROVE TypeInv'
  BY <1>7 DEF GetCall, Get
<1>8. ASSUME NEW c \in Callers, NEW k \in Keys, GetAndRemoveCall(c, k) PROVE TypeInv'
  BY <1>8 DEF GetAndRemoveCall
<1>9. ASSUME NEW c \in Callers, GetAndRemove(c) PROVE TypeInv'
  BY <1>9, DeleteEntryType DEF GetAndRemove, DeleteNothing
<1>10. ASSUME NEW c \in Callers, RemoveReceive(c) PROVE TypeInv'
  BY <1>10, HeadTailProperties DEF RemoveReceive, ReceiveToken
<1>11. ASSUME NEW t \in Timers, TimerFires(t) PROVE TypeInv'
  BY <1>11 DEF TimerFires
<1>12. ASSUME NEW t \in Timers, Expire(t) PROVE TypeInv'
  BY <1>12, DeleteEntryType DEF Expire, DeleteNothing
<1>13. ASSUME NEW t \in Timers, ExpireReceive(t) PROVE TypeInv'
  BY <1>13, HeadTailProperties DEF ExpireReceive, ReceiveToken
<1>14. ASSUME UNCHANGED vars PROVE TypeInv'
  BY <1>14 DEF vars
<1> QED
  BY <1>1, <1>2, <1>3, <1>4, <1>5, <1>6, <1>7, <1>8, <1>9, <1>10, <1>11, <1>12,
     <1>13, <1>14 DEF Next, Call, CallerStep, TimerStep

\* Every step of every caller and timer keeps the variables in their types;
\* in particular the channel never holds more than maxSize tokens.
THEOREM TypeCorrect == Spec => []TypeOK
<1>1. Spec => []TypeInv
  BY InitTypeInv, NextTypeInv, PTL DEF Spec
<1>2. TypeInv => TypeOK
  BY DEF TypeInv
<1> QED
  BY <1>1, <1>2, PTL

-----------------------------------------------------------------------------
(* Timers.  EntryHasTimer is not inductive alone: a callback that has      *)
(* deleted and waits for its token must not be the timer of an entry.      *)

HolderDetached == \A t \in Timers : mu = t => \A k \in Keys : data[k] # t

TimerInv == TypeInv /\ HolderReceives /\ EntryHasTimer /\ HolderDetached

LEMMA InitTimerInv == Init => TimerInv
<1> SUFFICES ASSUME Init PROVE HolderReceives /\ EntryHasTimer /\ HolderDetached
  BY InitTypeInv DEF TimerInv
<1> QED
  BY CacheAssumption DEF Init, HolderReceives, EntryHasTimer, HolderDetached, Present

LEMMA NextTimerInv == TimerInv /\ [Next]_vars => TimerInv'
<1> SUFFICES ASSUME TimerInv, [Next]_vars
             PROVE  HolderReceives' /\ EntryHasTimer' /\ HolderDetached'
  BY NextTypeInv DEF TimerInv
<1> USE CacheAssumption DEF TimerInv, TypeInv, TypeOK, HolderReceives, EntryHasTimer,
                            HolderDetached, Present
<1> DEFINE Goal == HolderReceives' /\ EntryHasTimer' /\ HolderDetached'
<1>1. ASSUME NEW c \in Callers, NEW k \in Keys, Set(c, k) PROVE Goal
  BY <1>1 DEF Set
<1>2. ASSUME NEW c \in Callers, SetEvict(c) PROVE Goal
  BY <1>2 DEF SetEvict
<1>3. ASSUME NEW c \in Callers, SetEvictDelete(c) PROVE Goal
  BY <1>3 DEF SetEvictDelete, DeleteEntry, DeleteNothing, StopTimer
<1>4. ASSUME NEW c \in Callers, SetEvictReceive(c) PROVE Goal
  BY <1>4 DEF SetEvictReceive, ReceiveToken
<1>5. ASSUME NEW c \in Callers, SetPush(c) PROVE Goal
  BY <1>5 DEF SetPush
<1>6. ASSUME NEW c \in Callers, SetInsert(c) PROVE Goal
  BY <1>6 DEF SetInsert, ArgsKnown, SetSteps
<1>7. ASSUME NEW c \in Callers, GetCall(c) \/ Get(c) PROVE Goal
  BY <1>7 DEF GetCall, Get
<1>8. ASSUME NEW c \in Callers, NEW k \in Keys, GetAndRemoveCall(c, k) PROVE Goal
  BY <1>8 DEF GetAndRemoveCall
<1>9. ASSUME NEW c \in Callers, GetAndRemove(c) PROVE Goal
  BY <1>9 DEF GetAndRemove, DeleteEntry, DeleteNothing, StopTimer
<1>10. ASSUME NEW c \in Callers, RemoveReceive(c) PROVE Goal
  BY <1>10 DEF RemoveReceive, ReceiveToken
<1>11. ASSUME NEW t \in Timers, TimerFires(t) PROVE Goal
  BY <1>11 DEF TimerFires
<1>12. ASSUME NEW t \in Timers, Expire(t) PROVE Goal
  BY <1>12 DEF Expire, DeleteEntry, DeleteNothing, StopTimer
<1>13. ASSUME NEW t \in Timers, ExpireReceive(t) PROVE Goal
  BY <1>13 DEF ExpireReceive, ReceiveToken
<1>14. ASSUME UNCHANGED vars PROVE Goal
  BY <1>14 DEF vars
<1> QED
  BY <1>1, <1>2, <1>3, <1>4, <1>5, <1>6, <1>7, <1>8, <1>9, <1>10, <1>11, <1>12,
     <1>13, <1>14 DEF Next, Call, CallerStep, TimerStep

\* In either mode, however Sets, removals and callbacks interleave, every
\* entry of the map has a timer still to run for its key.
THEOREM EntryAlwaysHasTimer == Spec => []EntryHasTimer
<1>1. Spec => []TimerInv
  BY InitTimerInv, NextTimerInv, PTL DEF Spec
<1>2. TimerInv => EntryHasTimer
  BY DEF TimerInv
<1> QED
  BY <1>1, <1>2, PTL

-----------------------------------------------------------------------------
(* Tokens, in the blocking cache.  Each step changes both sides of         *)
(* TokensCover alike, or lowers the right one: an insert over an entry.    *)
(* When keys are not reused there is no such insert, and TokensExact holds *)
(* along with it.                                                          *)

NoEviction == \A c \in Callers : pc[c] \notin {"evict", "evictDelete", "evictReceive"}

\* A Set under way has a key that is not in the map and that no other Set has.
FreshKeys ==
  \A c \in Callers :
    pc[c] \in SetSteps =>
      /\ arg[c] \notin Present
      /\ \A d \in Callers \ {c} : pc[d] \in SetSteps => arg[d] # arg[c]

TokenInv == TimerInv /\ NoEviction /\ IsFiniteSet(Present) /\ TokensCover

\* The numbers that TokensCover adds up are natural numbers.
LEMMA CountsAreNat ==
  ASSUME TypeOK, IsFiniteSet(Present)
  PROVE  /\ Len(tokens) \in Nat
         /\ IsFiniteSet(Inserting) /\ Cardinality(Inserting) \in Nat
         /\ Cardinality(Present) \in Nat
<1>1. Inserting \in SUBSET Callers
  BY DEF Inserting
<1>2. IsFiniteSet(Inserting)
  BY <1>1, FS_Subset, CacheAssumption
<1> QED
  BY <1>2, FS_CardinalityType, LenProperties DEF TypeOK

LEMMA InitTokenInv == Init => TokenInv
<1> SUFFICES ASSUME Init PROVE NoEviction /\ IsFiniteSet(Present) /\ TokensCover
  BY InitTimerInv DEF TokenInv
<1>1. Present = {} /\ Inserting = {}
  BY DEF Init, Present, Inserting
<1>2. Len(tokens) = 0
  BY DEF Init
<1> QED
  BY <1>1, <1>2, FS_EmptySet DEF Init, NoEviction, TokensCover

\* delete trades an entry for the claim of mu's holder on a token.
LEMMA DeleteEntryCover ==
  ASSUME TypeOK, NEW who \in Callers \cup Timers, NEW k, DeleteEntry(who, k),
         IsFiniteSet(Present), TokensCover, UNCHANGED tokens, Inserting' = Inserting
  PROVE  IsFiniteSet(Present') /\ TokensCover' /\ (TokensExact => TokensExact')
<1>1. Present' = Present \ {k} /\ k \in Present
  BY DEF DeleteEntry, Present, TypeOK
<1>2. /\ IsFiniteSet(Present')
      /\ Cardinality(Present') = Cardinality(Present) - 1
  BY <1>1, FS_RemoveElement
<1>3. mu = None /\ mu' # None
  BY CacheAssumption DEF DeleteEntry
<1> QED
  BY <1>2, <1>3, CountsAreNat DEF TokensCover, TokensExact

\* Receiving the token settles that claim.
LEMMA ReceiveCover ==
  ASSUME TypeOK, NEW who \in Callers \cup Timers, ReceiveToken(who),
         IsFiniteSet(Present), TokensCover, UNCHANGED data, Inserting' = Inserting
  PROVE  IsFiniteSet(Present') /\ TokensCover' /\ (TokensExact => TokensExact')
<1>1. Present' = Present
  BY DEF Present
<1>2. Len(tokens') = Len(tokens) - 1
  BY HeadTailProperties DEF ReceiveToken, TypeOK
<1>3. mu # None /\ mu' = None
  BY CacheAssumption DEF ReceiveToken
<1> QED
  BY <1>1, <1>2, <1>3, CountsAreNat DEF TokensCover, TokensExact

LEMMA NextTokenInv ==
  ASSUME Blocking, TokenInv, [Next]_vars
  PROVE  TokenInv' /\ (FreshKeys /\ TokensExact => TokensExact')
<1> SUFFICES /\ NoEviction' /\ IsFiniteSet(Present') /\ TokensCover'
             /\ FreshKeys /\ TokensExact => TokensExact'
  BY NextTimerInv DEF TokenInv
<1> USE DEF TokenInv, TimerInv, TypeInv
<1>n. NoEviction'
  BY DEF NoEviction, TypeOK, Next, Call, CallerStep, TimerStep, vars, Set, SetEvict,
         SetEvictDelete, SetEvictReceive, SetPush, SetInsert, GetCall, Get,
         GetAndRemoveCall, GetAndRemove, RemoveReceive, TimerFires, Expire, ExpireReceive
<1> DEFINE Goal == /\ IsFiniteSet(Present') /\ TokensCover'
                   /\ FreshKeys /\ TokensExact => TokensExact'
<1>u. ASSUME UNCHANGED <<data, tokens, mu>>, Inserting' = Inserting PROVE Goal
  BY <1>u DEF Present, TokensCover, TokensExact
<1>1. ASSUME NEW c \in Callers, NEW k \in Keys, Set(c, k) PROVE Goal
  BY <1>1, <1>u DEF Set, Inserting, TypeOK
<1>2. ASSUME NEW c \in Callers, SetEvict(c) \/ SetEvictDelete(c) \/ SetEvictReceive(c)
      PROVE  FALSE
  BY <1>2 DEF SetEvict, SetEvictDelete, SetEvictReceive, NoEviction
<1>3. ASSUME NEW c \in Callers, SetPush(c) PROVE Goal
  <2>1. Present' = Present /\ mu' = mu
    BY <1>3 DEF SetPush, Present
  <2>2. Inserting' = Inserting \cup {c} /\ c \notin Inserting
    BY <1>3 DEF SetPush, Inserting, TypeOK
  <2>3. Cardinality(Inserting') = Cardinality(Inserting) + 1
    BY <2>2, CountsAreNat, FS_AddElement
  <2>4. Len(tokens') = Len(tokens) + 1
    BY <1>3, AppendProperties DEF SetPush, TypeOK, ArgsKnown, SetSteps
  <2> QED
    BY <2>1, <2>3, <2>4, CountsAreNat DEF TokensCover, TokensExact
<1>4. ASSUME NEW c \in Callers, SetInsert(c) PROVE Goal
  <2>1. tokens' = tokens /\ mu' = mu
    BY <1>4 DEF SetInsert
  <2>2. Present' = Present \cup {arg[c]}
    BY <1>4, CacheAssumption DEF SetInsert, Present, TypeOK, ArgsKnown, SetSteps
  <2>3. /\ IsFiniteSet(Present')
        /\ Cardinality(Present') <= Cardinality(Present) + 1
        /\ arg[c] \notin Present => Cardinality(Present') = Cardinality(Present) + 1
    <3>1. Cardinality(Present) \in Nat
      BY CountsAreNat
    <3> HIDE DEF TokenInv
    <3>2. /\ IsFiniteSet(Present \cup {arg[c]})
          /\ \/ Cardinality(Present \cup {arg[c]}) = Cardinality(Present)
             \/ Cardinality(Present \cup {arg[c]}) = Cardinality(Present) + 1
          /\ arg[c] \notin Present =>
               Cardinality(Present \cup {arg[c]}) = Cardinality(Present) + 1
      <4>1. IsFiniteSet(Present)
        BY DEF TokenInv
      <4> QED
        BY <4>1, FS_AddElement, Zenon
    <3> QED
      BY <2>2, <3>1, <3>2
  <2>4. Inserting' = Inserting \ {c} /\ c \in Inserting
    BY <1>4 DEF SetInsert, Inserting, TypeOK
  <2>5. Cardinality(Inserting') = Cardinality(Inserting) - 1
    BY <2>4, CountsAreNat, FS_RemoveElement
  <2>6. Cardinality(Present') \in Nat
    BY <2>3, FS_CardinalityType
  <2> QED
    <3>1. FreshKeys => arg[c] \notin Present
      BY <1>4 DEF FreshKeys, SetInsert, SetSteps
    <3> QED
      BY <2>1, <2>3, <2>5, <2>6, <3>1, CountsAreNat DEF TokensCover, TokensExact
<1>5. ASSUME NEW c \in Callers, GetCall(c) \/ Get(c) PROVE Goal
  BY <1>5, <1>u DEF GetCall, Get, Inserting, TypeOK
<1>6. ASSUME NEW c \in Callers, NEW k \in Keys, GetAndRemoveCall(c, k) PROVE Goal
  BY <1>6, <1>u DEF GetAndRemoveCall, Inserting, TypeOK
<1>7. ASSUME NEW c \in Callers, GetAndRemove(c) PROVE Goal
  <2>1. Inserting' = Inserting /\ tokens' = tokens
    BY <1>7 DEF GetAndRemove, Inserting, TypeOK
  <2>2. CASE DeleteEntry(c, arg[c])
    BY <2>1, <2>2, DeleteEntryCover
  <2>3. CASE DeleteNothing(arg[c])
    BY <2>1, <2>3, <1>u DEF DeleteNothing
  <2> QED
    BY <1>7, <2>2, <2>3 DEF GetAndRemove
<1>8. ASSUME NEW c \in Callers, RemoveReceive(c) PROVE Goal
  <2>1. Inserting' = Inserting
    BY <1>8 DEF RemoveReceive, Inserting, TypeOK
  <2> QED
    BY <1>8, <2>1, ReceiveCover DEF RemoveReceive
<1>9. ASSUME NEW t \in Timers, TimerFires(t) PROVE Goal
  BY <1>9, <1>u DEF TimerFires, Inserting
<1>10. ASSUME NEW t \in Timers, Expire(t) PROVE Goal
  <2>1. Inserting' = Inserting /\ tokens' = tokens
    BY <1>10 DEF Expire, Inserting
  <2>2. CASE DeleteEntry(t, tkey[t])
    BY <2>1, <2>2, DeleteEntryCover
  <2>3. CASE DeleteNothing(tkey[t])
    BY <2>1, <2>3, <1>u DEF DeleteNothing
  <2> QED
    BY <1>10, <2>2, <2>3 DEF Expire
<1>11. ASSUME NEW t \in Timers, ExpireReceive(t) PROVE Goal
  <2>1. Inserting' = Inserting
    BY <1>11 DEF ExpireReceive, Inserting
  <2> QED
    BY <1>11, <2>1, ReceiveCover DEF ExpireReceive
<1>12. ASSUME UNCHANGED vars PROVE Goal
  BY <1>12, <1>u DEF vars, Inserting
<1> QED
  BY <1>n, <1>1, <1>2, <1>3, <1>4, <1>5, <1>6, <1>7, <1>8, <1>9, <1>10, <1>11, <1>12
  DEF Next, Call, CallerStep, TimerStep

LEMMA TokenInvAlways ==
  ASSUME Blocking
  PROVE  Spec => []TokenInv
<1>1. TokenInv /\ [Next]_vars => TokenInv'
  BY NextTokenInv
<1> QED
  BY <1>1, InitTokenInv, PTL DEF Spec

LEMMA TokenInvBounds == TokenInv => SizeBounded
BY CountsAreNat, CacheAssumption
DEF TokenInv, TimerInv, TypeInv, TypeOK, TokensCover, SizeBounded

\* The blocking cache (the tracker's scrapeQueue) never holds more entries
\* than its maxSize.
THEOREM BlockingSizeBounded ==
  ASSUME Blocking
  PROVE  Spec => []SizeBounded
BY TokenInvBounds, TokenInvAlways, PTL

\* In the blocking cache the token receive inside delete never waits, so mu
\* is never held by a goroutine that cannot go on.
THEOREM BlockingDeleteNeverWaits ==
  ASSUME Blocking
  PROVE  Spec => []DeleteNeverWaits
<1>1. TokenInv => DeleteNeverWaits
  BY CountsAreNat DEF TokenInv, TimerInv, TypeInv, TypeOK, TokensCover, DeleteNeverWaits
<1> QED
  BY <1>1, TokenInvAlways, PTL

-----------------------------------------------------------------------------
(* Exact tokens, when keys are not reused.                                 *)

LEMMA NextFreshKeys ==
  ASSUME ~KeyReuse, TypeInv, FreshKeys, [Next]_vars
  PROVE  FreshKeys'
<1> USE CacheAssumption DEF TypeInv, TypeOK, FreshKeys, Present, SetSteps
<1>1. ASSUME NEW c \in Callers, NEW k \in Keys, Set(c, k) PROVE FreshKeys'
  BY <1>1 DEF Set, Unused
<1>2. ASSUME NEW c \in Callers, SetEvict(c) PROVE FreshKeys'
  BY <1>2 DEF SetEvict
<1>3. ASSUME NEW c \in Callers, SetEvictDelete(c) PROVE FreshKeys'
  BY <1>3 DEF SetEvictDelete, DeleteEntry, DeleteNothing
<1>4. ASSUME NEW c \in Callers, SetEvictReceive(c) PROVE FreshKeys'
  BY <1>4 DEF SetEvictReceive
<1>5. ASSUME NEW c \in Callers, SetPush(c) PROVE FreshKeys'
  BY <1>5 DEF SetPush
<1>6. ASSUME NEW c \in Callers, SetInsert(c) PROVE FreshKeys'
  <2>1. PICK t \in Timers : data' = [data EXCEPT ![arg[c]] = t]
    BY <1>6 DEF SetInsert
  <2>2. arg' = [arg EXCEPT ![c] = None] /\ pc' = [pc EXCEPT ![c] = "idle"] /\ pc[c] = "insert"
    BY <1>6 DEF SetInsert
  <2> QED
    BY <2>1, <2>2
<1>7. ASSUME NEW c \in Callers, GetCall(c) \/ Get(c) PROVE FreshKeys'
  BY <1>7 DEF GetCall, Get
<1>8. ASSUME NEW c \in Callers, NEW k \in Keys, GetAndRemoveCall(c, k) PROVE FreshKeys'
  BY <1>8 DEF GetAndRemoveCall
<1>9. ASSUME NEW c \in Callers, GetAndRemove(c) PROVE FreshKeys'
  BY <1>9 DEF GetAndRemove, DeleteEntry, DeleteNothing
<1>10. ASSUME NEW c \in Callers, RemoveReceive(c) PROVE FreshKeys'
  BY <1>10 DEF RemoveReceive
<1>11. ASSUME NEW t \in Timers, TimerStep(t) PROVE FreshKeys'
  BY <1>11 DEF TimerStep, TimerFires, Expire, ExpireReceive, DeleteEntry, DeleteNothing
<1>12. ASSUME UNCHANGED vars PROVE FreshKeys'
  BY <1>12 DEF vars
<1> QED
  BY <1>1, <1>2, <1>3, <1>4, <1>5, <1>6, <1>7, <1>8, <1>9, <1>10, <1>11, <1>12
  DEF Next, Call, CallerStep

\* In the blocking cache whose keys are not reused (transaction ids) no token
\* is ever lost or left over: the full capacity stays available.
THEOREM BlockingTokensExact ==
  ASSUME Blocking, ~KeyReuse
  PROVE  Spec => []TokensExact
<1> DEFINE ExactInv == TokenInv /\ FreshKeys /\ TokensExact
<1>1. Init => ExactInv
  <2> SUFFICES ASSUME Init PROVE FreshKeys /\ TokensExact
    BY InitTokenInv
  <2>1. Present = {} /\ Inserting = {} /\ Len(tokens) = 0 /\ mu = None
    BY DEF Init, Present, Inserting
  <2> QED
    BY <2>1, FS_EmptySet DEF Init, FreshKeys, SetSteps, TokensExact
<1>2. ExactInv /\ [Next]_vars => ExactInv'
  BY NextTokenInv, NextFreshKeys DEF TokenInv, TimerInv
<1>3. ExactInv => TokensExact
  OBVIOUS
<1> QED
  BY <1>1, <1>2, <1>3, PTL DEF Spec

-----------------------------------------------------------------------------
(* The refinement: SetInsert is a Put, the removals are Drops, every other *)
(* step leaves the map alone.                                              *)

LEMMA DeleteEntryDrops ==
  ASSUME NEW who, NEW k \in Keys, DeleteEntry(who, k)
  PROVE  Abstract!Next
BY DEF DeleteEntry, Present, Abstract!Next, Abstract!Drop

LEMMA SetInsertPuts ==
  ASSUME TokenInv, TokenInv', NEW c \in Callers, SetInsert(c)
  PROVE  Abstract!Next
<1>1. PICK t \in Timers : data' = [data EXCEPT ![arg[c]] = t]
  BY DEF SetInsert
<1>2. arg[c] \in Keys
  BY DEF TokenInv, TimerInv, TypeInv, ArgsKnown, SetInsert, SetSteps
<1>3. Present' = Abstract!Present \cup {arg[c]}
  BY <1>1, <1>2, CacheAssumption
  DEF Present, Abstract!Present, TokenInv, TimerInv, TypeInv, TypeOK
<1>4. Cardinality(Abstract!Present \cup {arg[c]}) <= MaxSize
  <2>1. SizeBounded'
    BY TokenInvBounds, PTL
  <2> QED
    BY <2>1, <1>3 DEF SizeBounded
<1>5. Abstract!Put(arg[c], t)
  BY <1>1, <1>4 DEF Abstract!Put, Cardinality, Abstract!Cardinality
<1> QED
  BY <1>2, <1>5 DEF Abstract!Next

LEMMA StepRefines ==
  ASSUME TokenInv, TokenInv', [Next]_vars
  PROVE  [Abstract!Next]_data
<1>1. ASSUME NEW c \in Callers, SetEvictDelete(c) PROVE [Abstract!Next]_data
  BY <1>1, DeleteEntryDrops
  DEF SetEvictDelete, DeleteNothing, TokenInv, TimerInv, TypeInv, ArgsKnown
<1>2. ASSUME NEW c \in Callers, GetAndRemove(c) PROVE [Abstract!Next]_data
  BY <1>2, DeleteEntryDrops
  DEF GetAndRemove, DeleteNothing, TokenInv, TimerInv, TypeInv, ArgsKnown
<1>3. ASSUME NEW t \in Timers, Expire(t) PROVE [Abstract!Next]_data
  <2>1. CASE DeleteEntry(t, tkey[t])
    <3>1. tkey[t] \in Keys
      BY <2>1 DEF DeleteEntry, Present
    <3> QED
      BY <2>1, <3>1, DeleteEntryDrops
  <2> QED
    BY <1>3, <2>1 DEF Expire, DeleteNothing
<1>4. ASSUME NEW c \in Callers, SetInsert(c) PROVE [Abstract!Next]_data
  BY <1>4, SetInsertPuts
<1> QED
  BY <1>1, <1>2, <1>3, <1>4
  DEF Next, Call, CallerStep, TimerStep, vars, Set, SetEvict, SetEvictReceive, SetPush,
      GetCall, Get, GetAndRemoveCall, RemoveReceive, TimerFires, ExpireReceive

\* The blocking LRWCache implements BoundedMap with capacity maxSize: what
\* a user of the cache may rely on, whatever its goroutines and timers do.
THEOREM BlockingRefinesBoundedMap ==
  ASSUME Blocking
  PROVE  Spec => RefinesBoundedMap
<1>1. Init => Abstract!Init
  BY DEF Init, Abstract!Init
<1>2. TokenInv /\ TokenInv' /\ [Next]_vars => [Abstract!Next]_data
  BY StepRefines
<1> QED
  BY <1>1, <1>2, TokenInvAlways, PTL DEF Spec, RefinesBoundedMap, Abstract!Spec
=============================================================================

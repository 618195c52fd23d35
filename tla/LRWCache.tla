------------------------------ MODULE LRWCache ------------------------------
(***************************************************************************)
(* common/util/cache.go: a map with a TTL per entry and a channel of       *)
(* tokens that bounds its size.  Set sends a token BEFORE it takes mu;     *)
(* delete receives one WHILE it holds mu.  Two uses: non-blocking (the     *)
(* crawler's seenNodes) and blocking (the UDP tracker's scrapeQueue).      *)
(*                                                                         *)
(* An entry is named by its timer, which every Set creates anew, so the    *)
(* stored value needs no variable of its own.  A timer may fire at any     *)
(* moment after it is armed: the TTL is the lapse between the two steps.   *)
(***************************************************************************)
EXTENDS Integers, Sequences, FiniteSets

CONSTANTS Keys,      \* key values
          Callers,   \* goroutines that call Set, Get and GetAndRemove
          Timers,    \* the timers (and so the entries) alive at one time
          MaxSize,   \* maxSize: the capacity of the tokens channel
          Blocking,  \* the constructor's blocking flag
          KeyReuse,  \* may a key be Set while an entry or timer of it lives?
          None       \* no entry, no key, and the value of mu when unlocked

ASSUME CacheAssumption ==
  /\ MaxSize \in Nat \ {0}
  /\ Blocking \in BOOLEAN
  /\ KeyReuse \in BOOLEAN
  /\ IsFiniteSet(Callers)
  /\ Callers \cap Timers = {}
  /\ None \notin Keys \cup Callers \cup Timers

VARIABLES data,    \* key -> the timer of its entry, or None
          tokens,  \* the channel
          mu,      \* who holds the write lock between two steps, or None
          tstate,  \* timer -> "free", "armed", or "fired" (callback running)
          tkey,    \* timer -> the key its callback will delete
          pc,      \* caller -> where it is
          arg,     \* caller -> the key it was called with
          victim   \* caller -> the key its Set is evicting

vars == <<data, tokens, mu, tstate, tkey, pc, arg, victim>>

SetSteps == {"evict", "evictDelete", "evictReceive", "push", "insert"}
Places == SetSteps \cup {"idle", "get", "remove", "removeReceive"}

Present == {k \in Keys : data[k] # None}
Inserting == {c \in Callers : pc[c] = "insert"}

TypeOK ==
  /\ data \in [Keys -> Timers \cup {None}]
  /\ tokens \in Seq(Keys) /\ Len(tokens) <= MaxSize
  /\ mu \in Callers \cup Timers \cup {None}
  /\ tstate \in [Timers -> {"free", "armed", "fired"}]
  /\ tkey \in [Timers -> Keys \cup {None}]
  /\ pc \in [Callers -> Places]
  /\ arg \in [Callers -> Keys \cup {None}]
  /\ victim \in [Callers -> Keys \cup {None}]

Init ==
  /\ data = [k \in Keys |-> None]
  /\ tokens = << >>
  /\ mu = None
  /\ tstate = [t \in Timers |-> "free"]
  /\ tkey = [t \in Timers |-> None]
  /\ pc = [c \in Callers |-> "idle"]
  /\ arg = [c \in Callers |-> None]
  /\ victim = [c \in Callers |-> None]

-----------------------------------------------------------------------------
(* The unexported delete.                                                  *)

\* Stop disarms a timer; it does nothing to a callback that already runs.
StopTimer(t) ==
  /\ tstate' = IF tstate[t] = "armed" THEN [tstate EXCEPT ![t] = "free"] ELSE tstate
  /\ tkey' = IF tstate[t] = "armed" THEN [tkey EXCEPT ![t] = None] ELSE tkey

\* Mutant: the entry is left in the map.
DeleteEntryKeepsSlot(who, k) ==
  /\ mu = None
  /\ k \in Present
  /\ StopTimer(data[k])
  /\ data' = data
  /\ mu' = who

\* delete of a present key, up to its token receive: mu stays held.
DeleteEntry(who, k) ==
  /\ mu = None
  /\ k \in Present
  /\ StopTimer(data[k])
  /\ data' = [data EXCEPT ![k] = None]
  /\ mu' = who

\* delete of an absent key returns at once, and mu is unlocked again.
DeleteNothing(k) ==
  /\ mu = None
  /\ k \notin Present
  /\ UNCHANGED <<data, mu>>

\* `<-c.tokens`, the last line of delete, and the caller's deferred Unlock.
ReceiveToken(who) ==
  /\ mu = who
  /\ tokens # << >>
  /\ tokens' = Tail(tokens)
  /\ mu' = None

-----------------------------------------------------------------------------
(* Set, in the five steps other goroutines can come between.               *)

\* Is k free of entries, live timers and Sets under way?
Unused(k) ==
  /\ k \notin Present
  /\ \A t \in Timers : tkey[t] # k
  /\ \A c \in Callers : pc[c] \in SetSteps => arg[c] # k

\* The call, and the test of len(tokens), made without a lock.
Set(c, k) ==
  /\ pc[c] = "idle"
  /\ KeyReuse \/ Unused(k)
  /\ arg' = [arg EXCEPT ![c] = k]
  /\ pc' = [pc EXCEPT ![c] = IF ~Blocking /\ Len(tokens) = MaxSize
                             THEN "evict" ELSE "push"]
  /\ UNCHANGED <<data, tokens, mu, tstate, tkey, victim>>

\* In `c.Delete(<-c.tokens)` the argument is received first ...
SetEvict(c) ==
  /\ pc[c] = "evict"
  /\ tokens # << >>
  /\ victim' = [victim EXCEPT ![c] = Head(tokens)]
  /\ tokens' = Tail(tokens)
  /\ pc' = [pc EXCEPT ![c] = "evictDelete"]
  /\ UNCHANGED <<data, mu, tstate, tkey, arg>>

\* ... and then the victim is deleted, if it is still there.
SetEvictDelete(c) ==
  /\ pc[c] = "evictDelete"
  /\ victim' = [victim EXCEPT ![c] = None]
  /\ \/ /\ DeleteEntry(c, victim[c])
        /\ pc' = [pc EXCEPT ![c] = "evictReceive"]
     \/ /\ DeleteNothing(victim[c])
        /\ pc' = [pc EXCEPT ![c] = "push"]
        /\ UNCHANGED <<tstate, tkey>>
  /\ UNCHANGED <<tokens, arg>>

SetEvictReceive(c) ==
  /\ pc[c] = "evictReceive"
  /\ ReceiveToken(c)
  /\ pc' = [pc EXCEPT ![c] = "push"]
  /\ UNCHANGED <<data, tstate, tkey, arg, victim>>

\* Mutant: a select with a default, so a full channel is skipped.
SetPushOrSkip(c) ==
  /\ pc[c] = "push"
  /\ tokens' = IF Len(tokens) < MaxSize THEN Append(tokens, arg[c]) ELSE tokens
  /\ pc' = [pc EXCEPT ![c] = "insert"]
  /\ UNCHANGED <<data, mu, tstate, tkey, arg, victim>>

\* `c.tokens <- key` waits while the channel is full.
SetPush(c) ==
  /\ pc[c] = "push"
  /\ Len(tokens) < MaxSize
  /\ tokens' = Append(tokens, arg[c])
  /\ pc' = [pc EXCEPT ![c] = "insert"]
  /\ UNCHANGED <<data, mu, tstate, tkey, arg, victim>>

\* The locked part: a new entry with a new timer.  The timer of an entry it
\* replaces is left running.
SetInsert(c) ==
  /\ pc[c] = "insert"
  /\ mu = None
  /\ \E t \in Timers :
       /\ tstate[t] = "free"
       /\ tstate' = [tstate EXCEPT ![t] = "armed"]
       /\ tkey' = [tkey EXCEPT ![t] = arg[c]]
       /\ data' = [data EXCEPT ![arg[c]] = t]
  /\ pc' = [pc EXCEPT ![c] = "idle"]
  /\ arg' = [arg EXCEPT ![c] = None]
  /\ UNCHANGED <<tokens, mu, victim>>

-----------------------------------------------------------------------------
(* Get and GetAndRemove: the call, then the locked part.                   *)

GetCall(c) ==
  /\ pc[c] = "idle"
  /\ pc' = [pc EXCEPT ![c] = "get"]
  /\ UNCHANGED <<data, tokens, mu, tstate, tkey, arg, victim>>

\* The read lock is granted when no writer holds mu; nothing is changed.
Get(c) ==
  /\ pc[c] = "get"
  /\ mu = None
  /\ pc' = [pc EXCEPT ![c] = "idle"]
  /\ UNCHANGED <<data, tokens, mu, tstate, tkey, arg, victim>>

GetAndRemoveCall(c, k) ==
  /\ pc[c] = "idle"
  /\ pc' = [pc EXCEPT ![c] = "remove"]
  /\ arg' = [arg EXCEPT ![c] = k]
  /\ UNCHANGED <<data, tokens, mu, tstate, tkey, victim>>

GetAndRemove(c) ==
  /\ pc[c] = "remove"
  /\ arg' = [arg EXCEPT ![c] = None]
  /\ \/ /\ DeleteEntry(c, arg[c])
        /\ pc' = [pc EXCEPT ![c] = "removeReceive"]
     \/ /\ DeleteNothing(arg[c])
        /\ pc' = [pc EXCEPT ![c] = "idle"]
        /\ UNCHANGED <<tstate, tkey>>
  /\ UNCHANGED <<tokens, victim>>

RemoveReceive(c) ==
  /\ pc[c] = "removeReceive"
  /\ ReceiveToken(c)
  /\ pc' = [pc EXCEPT ![c] = "idle"]
  /\ UNCHANGED <<data, tstate, tkey, arg, victim>>

-----------------------------------------------------------------------------
(* The AfterFunc callback.  It deletes by key: whatever entry the key has  *)
(* by the time the callback gets the lock.                                 *)

TimerFires(t) ==
  /\ tstate[t] = "armed"
  /\ tstate' = [tstate EXCEPT ![t] = "fired"]
  /\ UNCHANGED <<data, tokens, mu, tkey, pc, arg, victim>>

\* Mutant: the callback returns without deleting.
ExpireForgets(t) ==
  /\ tstate[t] = "fired"
  /\ mu = None
  /\ tstate' = [tstate EXCEPT ![t] = "free"]
  /\ tkey' = [tkey EXCEPT ![t] = None]
  /\ UNCHANGED <<data, mu, tokens, pc, arg, victim>>

Expire(t) ==
  /\ tstate[t] = "fired"
  /\ \/ DeleteEntry(t, tkey[t])
     \/ /\ DeleteNothing(tkey[t])
        /\ tstate' = [tstate EXCEPT ![t] = "free"]
        /\ tkey' = [tkey EXCEPT ![t] = None]
  /\ UNCHANGED <<tokens, pc, arg, victim>>

\* Mutant: an expired entry keeps its token.
ExpireKeepsToken(t) ==
  /\ mu = t
  /\ mu' = None
  /\ tstate' = [tstate EXCEPT ![t] = "free"]
  /\ tkey' = [tkey EXCEPT ![t] = None]
  /\ UNCHANGED <<data, tokens, pc, arg, victim>>

ExpireReceive(t) ==
  /\ ReceiveToken(t)
  /\ tstate' = [tstate EXCEPT ![t] = "free"]
  /\ tkey' = [tkey EXCEPT ![t] = None]
  /\ UNCHANGED <<data, pc, arg, victim>>

-----------------------------------------------------------------------------
Call(c) ==
  \/ GetCall(c)
  \/ \E k \in Keys : Set(c, k) \/ GetAndRemoveCall(c, k)

CallerStep(c) ==
  \/ SetEvict(c)
  \/ SetEvictDelete(c)
  \/ SetEvictReceive(c)
  \/ SetPush(c)
  \/ SetInsert(c)
  \/ Get(c)
  \/ GetAndRemove(c)
  \/ RemoveReceive(c)

TimerStep(t) == TimerFires(t) \/ Expire(t) \/ ExpireReceive(t)

Next ==
  \/ \E c \in Callers : Call(c) \/ CallerStep(c)
  \/ \E t \in Timers : TimerStep(t)

Spec == Init /\ [][Next]_vars

\* Strong fairness: Go serves the senders and receivers of a channel, and
\* the waiters of a mutex in starvation mode, in the order they arrived.
Fairness ==
  /\ \A c \in Callers : SF_vars(CallerStep(c))
  /\ \A t \in Timers : SF_vars(TimerStep(t))

FairSpec == Spec /\ Fairness

-----------------------------------------------------------------------------
(* Properties.                                                             *)

\* mu is held between two steps only by a delete about to receive its token.
HolderReceives ==
  /\ \A c \in Callers : mu = c => pc[c] \in {"evictReceive", "removeReceive"}
  /\ \A t \in Timers : mu = t => tstate[t] = "fired"

\* In the blocking cache the channel holds a token for every entry, for
\* every Set between its send and its insert, and for a delete that has
\* removed its entry and not yet received: what makes the rest hold.
TokensCover ==
  Len(tokens) >= Cardinality(Present) + Cardinality(Inserting)
                   + (IF mu = None THEN 0 ELSE 1)

\* The map never has more entries than maxSize (the struct field and, for
\* the crawler, the MaxSeenNodeSize setting).
SizeBounded == Cardinality(Present) <= MaxSize

\* delete's token receive never waits: it runs with mu locked, so a wait
\* there stops every Get, Set, GetAndRemove and expiry of the cache.
DeleteNeverWaits == mu # None => tokens # << >>

\* Every entry in the map has a timer still to run for its key, through any
\* race of Set, Stop and the callback: no entry outlives its TTL for ever.
EntryHasTimer ==
  \A k \in Present : tstate[data[k]] # "free" /\ tkey[data[k]] = k

\* When keys are not reused no token is ever lost: the channel holds exactly
\* the tokens TokensCover counts, so the full capacity stays available.
TokensExact ==
  Len(tokens) = Cardinality(Present) + Cardinality(Inserting)
                  + (IF mu = None THEN 0 ELSE 1)

\* Every call of the cache returns: a Set that waits for room gets it when
\* an entry expires or is removed, and nobody keeps the lock.
CallReturns == \A c \in Callers : pc[c] # "idle" ~> pc[c] = "idle"

\* An entry leaves the map (TTL, removal or replacement).
EntryExpires == \A k \in Keys, t \in Timers : data[k] = t ~> data[k] # t

\* A Get returns, whatever else the cache does; in particular the Get of
\* cache_test.go made after the TTL has passed.
GetReturns == \A c \in Callers : pc[c] = "get" ~> pc[c] # "get"

\* The blocking cache is a BoundedMap of capacity maxSize.
Abstract == INSTANCE BoundedMap
              WITH map <- data, Vals <- Timers, Capacity <- MaxSize, NoEntry <- None

RefinesBoundedMap == Abstract!Spec
=============================================================================

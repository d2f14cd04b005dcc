-------------------------- MODULE PingMonitorProofs --------------------------
(***************************************************************************)
(* Proofs about PingMonitor, for any number of sockets and registrations   *)
(* and any period, timeout and limit.                                      *)
(***************************************************************************)
EXTENDS PingMonitor, ProofLemmas

\* The two timers of an interval keep their distance: an answer is awaited
\* only between a ping and the next one.
TimersInStep ==
  \A c \in DOMAIN conns :
    conns[c].wait # Off => conns[c].next = Period - Timeout + conns[c].wait

\* The only interval there is has its next ping within the time that its
\* counter, and the answer it may wait for, leave it.
Alone ==
  entry # 0 /\ Len(conns) = 1 =>
    /\ pending # <<>> /\ conns[1].next # Off
    /\ IF conns[1].wait = Off THEN quiet + conns[1].next <= (pending[1] + 1) * Period
                              ELSE quiet + conns[1].next <= (pending[1] + 2) * Period

\* How long until the next timeout of an interval.
Due(t) == IF t.wait # Off THEN t.wait ELSE t.next + Timeout

\* Those of the intervals whose next timeout, time after the reset, is not
\* within n periods of it.
Spent(intervals, time, n) ==
  {c \in DOMAIN intervals :
     intervals[c].next # Off /\ time + Due(intervals[c]) >= n * Period}

\* In each period since the reset an interval counts once; those that have in
\* the current one, the one that ends n periods after the reset, are spent.
Counted ==
  pending # <<>> =>
    /\ conns # <<>>
    /\ \/ quiet = QuietBound
       \/ \E n \in Nat : /\ quiet < (n + 1) * Period /\ n * Period <= quiet
                         /\ pending[1] <= Len(conns) * n + Cardinality(Spent(conns, quiet, n + 1))

IInv == TypeOK /\ CountersAgree /\ TimersInStep /\ Alone /\ Counted

-----------------------------------------------------------------------------
LEMMA Constants ==
  /\ Period \in Nat /\ Timeout \in Nat /\ Limit \in Nat /\ MaxConns \in Nat
  /\ 0 < Timeout /\ Timeout < Period /\ 0 < Limit
  /\ QuietBound \in Nat /\ Limit * Period \in Nat /\ QuietBound = Limit * Period + Period
  BY PingAssumption DEF QuietBound

LEMMA Products ==
  /\ \A m, n \in Nat : m * n \in Nat /\ (m + 1) * n = m * n + n /\ m * (n + 1) = m * n + m
  /\ \A l, m, n \in Nat : l <= m => l * n <= m * n /\ n * l <= n * m
  OBVIOUS

LEMMA Quotient ==
  ASSUME NEW a \in Nat, NEW b \in Nat, 0 < b, NEW n \in Nat,
         n * b <= a, a < (n + 1) * b
  PROVE  a \div b = n
  OBVIOUS

LEMMA SpentIsFinite ==
  ASSUME NEW S, NEW intervals \in Seq(S), NEW time, NEW n
  PROVE  LET spent == Spent(intervals, time, n)
         IN  /\ IsFiniteSet(spent) /\ Cardinality(spent) \in Nat
             /\ Cardinality(spent) <= Len(intervals)
  <1>1. Len(intervals) \in Nat /\ DOMAIN intervals = 1 .. Len(intervals)
    OBVIOUS
  <1>2. /\ IsFiniteSet(1 .. Len(intervals))
        /\ Cardinality(1 .. Len(intervals)) = Len(intervals)
    BY <1>1, PlacesCount
  <1>3. Spent(intervals, time, n) \in SUBSET (1 .. Len(intervals))
    BY <1>1 DEF Spent
  <1> QED BY <1>1, <1>2, <1>3, FS_Subset, FS_CardinalityType

Timers == [socket : Sockets, next : Off .. Period, wait : Off .. Timeout]

\* The types, taken apart.
LEMMA Types ==
  ASSUME IInv
  PROVE  /\ conns \in Seq(Timers) /\ Len(conns) \in Nat /\ DOMAIN conns = 1 .. Len(conns)
         /\ \A c \in DOMAIN conns :
              /\ conns[c] \in Timers
              /\ conns[c].next \in Int /\ -1 <= conns[c].next /\ conns[c].next <= Period
              /\ conns[c].wait \in Int /\ -1 <= conns[c].wait /\ conns[c].wait <= Timeout
         /\ quiet \in Nat /\ quiet <= QuietBound
         /\ pending \in Seq(0 .. Limit - 1)
         /\ \A k \in DOMAIN pending : pending[k] \in Nat /\ pending[k] < Limit
         /\ pending # <<>> => 1 \in DOMAIN pending /\ conns # <<>>
  <1>1. conns \in Seq(Timers) /\ pending \in Seq(0 .. Limit - 1) /\ quiet \in 0 .. QuietBound
    BY DEF IInv, TypeOK, Timers
  <1>2. \A t \in Timers : /\ t.next \in Int /\ -1 <= t.next /\ t.next <= Period
                          /\ t.wait \in Int /\ -1 <= t.wait /\ t.wait <= Timeout
    BY Constants DEF Timers, Off
  <1>3. \A k \in 0 .. Limit - 1 : k \in Nat /\ k < Limit
    BY Constants
  <1>4. pending # <<>> => conns # <<>>
    BY DEF IInv, Counted
  <1> QED BY <1>1, <1>2, <1>3, <1>4, Constants

-----------------------------------------------------------------------------
\* The counters after a reset.
LEMMA ZeroedCounters ==
  ASSUME TypeOK
  PROVE  /\ Zeroed \in Seq(0 .. Limit - 1) /\ Len(Zeroed) = Len(pending)
         /\ DOMAIN Zeroed = DOMAIN pending
         /\ \A k \in DOMAIN pending : Zeroed[k] = 0
  <1> DEFINE T == 0 .. Limit - 1
  <1>1. pending \in Seq(T)
    BY DEF TypeOK
  <1>2. Zeroed \in [DOMAIN pending -> T] /\ \A k \in DOMAIN pending : Zeroed[k] = 0
    BY Constants DEF Zeroed
  <1> HIDE DEF T
  <1>3. Zeroed \in Seq(T) /\ Len(Zeroed) = Len(pending) /\ DOMAIN Zeroed = DOMAIN pending
    BY <1>1, <1>2, PlaceByPlace
  <1> QED BY <1>2, <1>3 DEF T

\* What a reset leaves is counted, whatever the intervals are at.
LEMMA ResetIsCounted ==
  ASSUME TypeOK', quiet' = 0,
         pending' # <<>> => conns' # <<>> /\ pending'[1] = 0
  PROVE  Counted'
  <1> DEFINE spent == Cardinality(Spent(conns', quiet', 0 + 1))
  <1>1. spent \in Nat /\ Len(conns') \in Nat
    BY SpentIsFinite DEF TypeOK
  <1> HIDE DEF spent
  <1>2. /\ quiet' < (0 + 1) * Period /\ 0 * Period <= quiet'
        /\ pending'[1] <= Len(conns') * 0 + spent \/ pending' = <<>>
    BY <1>1, Constants
  <1>3. 0 \in Nat
    OBVIOUS
  <1> QED BY <1>2, <1>3 DEF Counted, spent

-----------------------------------------------------------------------------
(* The actions, each of which keeps the invariant.                         *)

LEMMA AddConnectionKeeps ==
  ASSUME IInv, NEW s \in Sockets, AddConnection(s),
         sockets' \in [Sockets -> {"unused", "open", "closed"}], responsive' \in BOOLEAN
  PROVE  IInv'
  <1> DEFINE new == [socket |-> s, next |-> Period, wait |-> Off]
             n == Len(conns)
  <1>1. /\ conns \in Seq(Timers) /\ n \in Nat /\ n < MaxConns
        /\ pending \in Seq(0 .. Limit - 1)
    BY Types DEF AddConnection, Registers
  <1>2. /\ conns' = Append(conns, new) /\ entry' = n + 1
        /\ pending' = Append(Zeroed, 0) /\ quiet' = 0
    BY DEF AddConnection, NewConns
  <1>3. new \in Timers /\ new.next # Off /\ new.wait = Off /\ new.next = Period
    BY Constants DEF Off, Timers
  <1> HIDE DEF new
  <1>4. /\ conns' \in Seq(Timers) /\ Len(conns') = n + 1 /\ DOMAIN conns' = 1 .. n + 1
        /\ conns'[n + 1] = new /\ \A c \in 1 .. n : conns'[c] = conns[c]
        /\ DOMAIN conns = 1 .. n /\ conns' # <<>>
    BY <1>1, <1>2, <1>3, SMTT(30)
  <1>5. /\ pending' \in Seq(0 .. Limit - 1) /\ pending' # <<>>
        /\ \A k \in DOMAIN pending' : pending'[k] = 0
        /\ 1 \in DOMAIN pending'
    <2>1. /\ Zeroed \in Seq(0 .. Limit - 1) /\ Len(Zeroed) \in Nat
          /\ \A k \in DOMAIN Zeroed : Zeroed[k] = 0
          /\ 0 \in 0 .. Limit - 1
      BY ZeroedCounters, Constants DEF IInv
    <2> QED BY <1>2, <2>1
  <1>6. TypeOK'
    BY <1>1, <1>2, <1>4, <1>5, Constants DEF TypeOK, Timers
  <1>7. CountersAgree' /\ Counted'
    BY <1>2, <1>4, <1>5, <1>6, ResetIsCounted DEF CountersAgree
  <1>8. TimersInStep'
    BY <1>3, <1>4 DEF TimersInStep, IInv
  <1>9. Alone'
    <2>1. 0 + Period <= (0 + 1) * Period
      BY Constants
    <2>2. ASSUME Len(conns') = 1
          PROVE  conns'[1] = new
      BY <1>1, <1>4, <2>2
    <2> QED BY <1>2, <1>3, <1>5, <2>1, <2>2 DEF Alone
  <1> QED BY <1>6, <1>7, <1>8, <1>9 DEF IInv

\* What changes neither the timers nor the counters.
LEMMA IdleKeeps ==
  ASSUME IInv, UNCHANGED <<conns, pending, quiet>>, entry' \in {0, entry},
         sockets' \in [Sockets -> {"unused", "open", "closed"}], responsive' \in BOOLEAN
  PROVE  IInv'
  <1>1. TypeOK'
    BY DEF IInv, TypeOK
  <1> QED BY <1>1 DEF IInv, CountersAgree, TimersInStep, Alone, Counted

LEMMA ResetKeeps ==
  ASSUME IInv, UNCHANGED <<conns, entry, sockets, responsive>>,
         pending' = Zeroed, quiet' = 0
  PROVE  IInv'
  <1>1. /\ pending' \in Seq(0 .. Limit - 1) /\ Len(pending') = Len(pending)
        /\ DOMAIN pending' = DOMAIN pending
        /\ \A k \in DOMAIN pending' : pending'[k] = 0
    BY ZeroedCounters DEF IInv
  <1>2. TypeOK'
    BY <1>1, Constants DEF IInv, TypeOK
  <1>3. pending' # <<>> <=> pending # <<>>
    BY <1>1, <1>2 DEF IInv, TypeOK
  <1>4. pending' # <<>> => pending'[1] = 0
    BY <1>1, <1>2, SMTT(30) DEF TypeOK
  <1>5. Counted'
    <2>1. pending # <<>> => conns # <<>>
      BY DEF IInv, Counted
    <2> QED BY <1>2, <1>3, <1>4, <2>1, ResetIsCounted
  <1>6. Alone'
    <2>1. ASSUME entry' # 0, Len(conns') = 1
          PROVE  /\ pending' # <<>> /\ conns'[1].next # Off
                 /\ conns'[1].next \in 0 .. Period
      <3>1. pending # <<>> /\ conns[1].next # Off
        BY <2>1 DEF IInv, Alone
      <3>2. 1 \in DOMAIN conns
        BY <2>1 DEF IInv, TypeOK
      <3>3. conns[1].next \in Off .. Period
        BY <3>2, Types DEF Off
      <3> QED BY <1>3, <3>1, <3>3 DEF Off
    <2>2. (0 + 1) * Period = Period /\ Period <= (0 + 2) * Period
      BY Constants
    <2> QED BY <1>4, <2>1, <2>2, Constants DEF Alone
  <1> QED BY <1>1, <1>2, <1>5, <1>6 DEF IInv, CountersAgree, TimersInStep

LEMMA LeaveKeeps ==
  ASSUME IInv, UNCHANGED <<conns, sockets, responsive, quiet>>,
         entry' = 0, pending' = <<>>
  PROVE  IInv'
  <1>1. TypeOK'
    BY DEF IInv, TypeOK
  <1> QED BY <1>1 DEF IInv, CountersAgree, TimersInStep, Alone, Counted

\* A ping leaves the next timeout where it was.
LEMMA PingTickKeeps ==
  ASSUME IInv, NEW c \in DOMAIN conns, PingTick(c)
  PROVE  IInv'
  <1> DEFINE next == IF pending = <<>> THEN Off ELSE Period
             wait == IF pending = <<>> THEN Off ELSE Timeout
             new == [conns[c] EXCEPT !.next = next, !.wait = wait]
  <1>1. /\ conns[c].next = 0 /\ UNCHANGED <<entry, pending, sockets, responsive, quiet>>
        /\ conns' = IF pending = <<>> THEN [conns EXCEPT ![c].next = Off]
                    ELSE [conns EXCEPT ![c].next = Period, ![c].wait = Timeout]
    BY DEF PingTick
  <1>2. conns[c].wait = Off
    <2>1. conns[c].wait # Off => 0 = Period - Timeout + conns[c].wait
      BY <1>1 DEF IInv, TimersInStep
    <2>2. conns[c].wait \in Int /\ -1 <= conns[c].wait
      BY Types
    <2> QED BY <2>1, <2>2, Constants DEF Off
  <1>3. conns[c] \in Timers /\ conns \in Seq(Timers)
    BY Types
  <1>4. new \in Timers /\ new.next = next /\ new.wait = wait
    <2>1. next \in Off .. Period /\ wait \in Off .. Timeout
      BY Constants DEF Off
    <2> HIDE DEF next, wait
    <2> QED BY <1>3, <2>1 DEF Timers
  <1>5. conns' = [conns EXCEPT ![c] = new]
    BY <1>1, <1>2, <1>3 DEF Timers
  <1> HIDE DEF new
  <1>6. /\ conns' \in Seq(Timers) /\ Len(conns') = Len(conns)
        /\ DOMAIN conns' = DOMAIN conns /\ conns'[c] = new
        /\ \A d \in DOMAIN conns \ {c} : conns'[d] = conns[d]
    BY <1>3, <1>4, <1>5
  <1>7. TypeOK'
    BY <1>1, <1>6 DEF IInv, TypeOK, Timers
  <1>8. TimersInStep'
    <2>1. new.wait # Off => new.next = Period - Timeout + new.wait
      BY <1>4, Constants DEF Off
    <2> QED BY <1>6, <2>1 DEF IInv, TimersInStep
  <1>9. Alone'
    <2>1. CASE entry # 0 /\ Len(conns) = 1
      <3>1. pending # <<>>
        BY <2>1 DEF IInv, Alone
      <3>2. c = 1 /\ pending[1] \in Nat /\ quiet \in Nat
        BY <2>1, <3>1, Types
      <3>3. quiet + 0 <= (pending[1] + 1) * Period
        BY <1>1, <1>2, <2>1, <3>2 DEF IInv, Alone
      <3>4. quiet + Period <= (pending[1] + 2) * Period
        <4>1. (pending[1] + 2) * Period = (pending[1] + 1) * Period + Period
          BY <3>2, Constants
        <4>2. (pending[1] + 1) * Period \in Nat
          BY <3>2, Constants
        <4> QED BY <3>2, <3>3, <4>1, <4>2, Constants
      <3>5. /\ conns'[1].next = Period /\ conns'[1].wait = Timeout
            /\ Period # Off /\ Timeout # Off
        BY <1>4, <1>6, <3>1, <3>2, Constants DEF Off
      <3> QED BY <1>1, <3>1, <3>4, <3>5 DEF Alone
    <2> QED BY <1>1, <1>6, <2>1 DEF Alone
  <1>10. Counted'
    <2>1. CASE pending # <<>>
      <3>1. Due(new) = Due(conns[c]) /\ new.next # Off /\ conns[c].next # Off
        <4>1. new.next = Period /\ new.wait = Timeout /\ Period # Off /\ Timeout # Off
              /\ 0 # Off /\ 0 + Timeout = Timeout
          BY <1>4, <2>1, Constants DEF Off
        <4> QED BY <1>1, <1>2, <4>1 DEF Due
      <3>2. \A n : Spent(conns', quiet', n) = Spent(conns, quiet, n)
        BY <1>1, <1>6, <3>1 DEF Spent
      <3>3. conns' # <<>>
        BY <1>6
      <3> QED BY <1>1, <1>6, <3>2, <3>3 DEF IInv, Counted
    <2> QED BY <1>1, <2>1 DEF Counted
  <1> QED BY <1>1, <1>7, <1>8, <1>9, <1>10 DEF IInv, CountersAgree

\* The timeout that makes a counter reach the limit.
LastTimeout == \E k \in DOMAIN pending : pending[k] + 1 = Limit

\* The interval whose answer is missed was not spent.
LEMMA TimeoutSpends ==
  ASSUME IInv, NEW c \in DOMAIN conns, conns[c].wait = 0, pending # <<>>,
         quiet # QuietBound
  PROVE  \E n \in Nat :
           /\ quiet < (n + 1) * Period /\ n * Period <= quiet
           /\ pending[1] <= Len(conns) * n + Cardinality(Spent(conns, quiet, n + 1))
           /\ c \notin Spent(conns, quiet, n + 1)
  <1>1. PICK n \in Nat :
          /\ quiet < (n + 1) * Period /\ n * Period <= quiet
          /\ pending[1] <= Len(conns) * n + Cardinality(Spent(conns, quiet, n + 1))
    BY DEF IInv, Counted
  <1>2. Due(conns[c]) = 0
    BY DEF Due, Off
  <1>3. quiet \in Nat /\ (n + 1) * Period \in Nat
    BY Constants, Types
  <1>4. c \notin Spent(conns, quiet, n + 1)
    BY <1>1, <1>2, <1>3 DEF Spent
  <1> QED BY <1>1, <1>4

\* One that is not the last takes its interval into the next period.
LEMMA CountingTimeoutKeeps ==
  ASSUME IInv, NEW c \in DOMAIN conns, PingTimeout(c), ~LastTimeout
  PROVE  IInv'
  <1> DEFINE new == [conns[c] EXCEPT !.wait = Off]
  <1>1. /\ conns[c].wait = 0 /\ UNCHANGED <<entry, sockets, responsive, quiet>>
        /\ conns' = [conns EXCEPT ![c].wait = Off]
        /\ pending' = [k \in DOMAIN pending |-> pending[k] + 1]
    BY DEF PingTimeout, LastTimeout
  <1>2. conns[c].next = Period - Timeout /\ conns[c].next # Off
    <2>1. 0 # Off
      BY DEF Off
    <2>2. conns[c].next = Period - Timeout + 0
      BY <1>1, <2>1 DEF IInv, TimersInStep
    <2> QED BY <2>2, Constants DEF Off
  <1>3. conns[c] \in Timers /\ conns \in Seq(Timers) /\ pending \in Seq(0 .. Limit - 1)
    BY Types
  <1>4. new \in Timers /\ new.next = conns[c].next /\ new.wait = Off
    <2>1. Off \in Off .. Timeout
      BY Constants DEF Off
    <2> QED BY <1>3, <2>1 DEF Timers
  <1>5. conns' = [conns EXCEPT ![c] = new]
    BY <1>1, <1>3 DEF Timers
  <1> HIDE DEF new
  <1>6. /\ conns' \in Seq(Timers) /\ Len(conns') = Len(conns)
        /\ DOMAIN conns' = DOMAIN conns /\ conns'[c] = new
        /\ \A d \in DOMAIN conns \ {c} : conns'[d] = conns[d]
    BY <1>3, <1>4, <1>5
  <1>7. /\ pending' \in Seq(0 .. Limit - 1) /\ Len(pending') = Len(pending)
        /\ DOMAIN pending' = DOMAIN pending
        /\ \A k \in DOMAIN pending : pending'[k] = pending[k] + 1
    <2> DEFINE T == 0 .. Limit - 1
    <2>1. \A k \in DOMAIN pending : pending[k] + 1 \in T
      <3>1. \A k \in DOMAIN pending : pending[k] + 1 # Limit
        BY DEF LastTimeout
      <3>2. \A k \in DOMAIN pending : pending[k] \in Nat /\ pending[k] < Limit
        BY Types
      <3> QED BY <3>1, <3>2, Constants
    <2>2. pending' \in [DOMAIN pending -> T]
      BY <1>1, <2>1
    <2> HIDE DEF T
    <2>3. pending' \in Seq(T) /\ Len(pending') = Len(pending)
          /\ DOMAIN pending' = DOMAIN pending
      <3>1. pending \in Seq(T)
        BY <1>3 DEF T
      <3> QED BY <2>2, <3>1, PlaceByPlace
    <2> QED BY <1>1, <2>3 DEF T
  <1>8. pending' # <<>> <=> pending # <<>>
    BY <1>3, <1>7
  <1>9. TypeOK'
    BY <1>1, <1>6, <1>7 DEF IInv, TypeOK, Timers
  <1>10. TimersInStep' /\ CountersAgree'
    BY <1>4, <1>6, <1>7, SMTT(30) DEF IInv, TimersInStep, CountersAgree
  <1>11. Alone'
    <2>1. CASE entry # 0 /\ Len(conns) = 1
      <3>1. pending # <<>> /\ conns[1].next # Off
        BY <2>1 DEF IInv, Alone
      <3>2. c = 1 /\ pending[1] \in Nat /\ pending'[1] = pending[1] + 1
        BY <2>1, <3>1, <1>7, Types
      <3>3. quiet + conns[1].next <= (pending[1] + 2) * Period
        <4>1. 0 # Off
          BY DEF Off
        <4> QED BY <1>1, <2>1, <3>2, <4>1 DEF IInv, Alone
      <3>4. (pending'[1] + 1) * Period = (pending[1] + 2) * Period
        BY <3>2
      <3> QED BY <1>1, <1>4, <1>6, <1>8, <3>1, <3>2, <3>3, <3>4 DEF Alone
    <2> QED BY <1>1, <1>6, <2>1 DEF Alone
  <1>12. Counted'
    <2>1. CASE pending # <<>> /\ quiet # QuietBound
      <3>1. PICK n \in Nat :
              /\ quiet < (n + 1) * Period /\ n * Period <= quiet
              /\ pending[1] <= Len(conns) * n + Cardinality(Spent(conns, quiet, n + 1))
              /\ c \notin Spent(conns, quiet, n + 1)
        BY <1>1, <2>1, TimeoutSpends
      <3> DEFINE old == Spent(conns, quiet, n + 1)
      <3>2. Spent(conns', quiet', n + 1) = old \cup {c}
        <4>1. quiet + Due(new) >= (n + 1) * Period
          <5>1. Due(new) = Period
            BY <1>2, <1>4, Constants DEF Due
          <5>2. (n + 1) * Period = n * Period + Period
            BY Constants
          <5>3. n * Period \in Nat /\ quiet \in Nat
            BY Constants, Types
          <5> QED BY <3>1, <5>1, <5>2, <5>3, Constants
        <4> QED BY <1>1, <1>2, <1>4, <1>6, <4>1 DEF Spent
      <3>3. /\ Cardinality(old) \in Nat /\ Cardinality(old \cup {c}) = Cardinality(old) + 1
        BY <1>3, <3>1, SpentIsFinite, FS_AddElement
      <3>4. pending'[1] = pending[1] + 1 /\ pending[1] \in Nat
        BY <1>7, <2>1, Types
      <3>5. Len(conns) * n \in Nat
        BY <1>3
      <3> HIDE DEF old
      <3>6. pending'[1] <= Len(conns) * n + Cardinality(old \cup {c})
        BY <3>1, <3>3, <3>4, <3>5 DEF old
      <3>7. conns' # <<>>
        BY <1>6
      <3> QED BY <1>1, <1>6, <3>1, <3>2, <3>6, <3>7 DEF Counted
    <2>2. CASE pending # <<>> /\ quiet = QuietBound
      <3>1. conns' # <<>>
        BY <1>6
      <3>2. QuietBound' = QuietBound
        BY DEF QuietBound
      <3> QED BY <1>1, <2>2, <3>1, <3>2 DEF Counted
    <2> QED BY <1>8, <2>1, <2>2 DEF Counted
  <1> QED BY <1>9, <1>10, <1>11, <1>12 DEF IInv

\* The last one clears the counters; what it leaves in the table is on
\* another socket.
LEMMA LastTimeoutKeeps ==
  ASSUME IInv, NEW c \in DOMAIN conns, PingTimeout(c), LastTimeout
  PROVE  IInv'
  <1> DEFINE new == [conns[c] EXCEPT !.wait = Off, !.next = Off]
  <1>1. /\ RemoveConnection(conns[c].socket) /\ UNCHANGED <<responsive, quiet>>
        /\ sockets' = [sockets EXCEPT ![conns[c].socket] = "closed"]
        /\ conns' = [conns EXCEPT ![c].wait = Off, ![c].next = Off]
        /\ pending' = <<>>
    BY DEF PingTimeout, LastTimeout
  <1>2. conns[c] \in Timers /\ conns \in Seq(Timers)
    BY Types
  <1>3. new \in Timers /\ new.wait = Off
    <2>1. Off \in Off .. Period /\ Off \in Off .. Timeout
      BY Constants DEF Off
    <2> QED BY <1>2, <2>1 DEF Timers
  <1>4. conns' = [conns EXCEPT ![c] = new]
    BY <1>1, <1>2 DEF Timers
  <1> HIDE DEF new
  <1>5. /\ conns' \in Seq(Timers) /\ Len(conns') = Len(conns)
        /\ DOMAIN conns' = DOMAIN conns /\ conns'[c] = new
        /\ \A d \in DOMAIN conns \ {c} : conns'[d] = conns[d]
    BY <1>2, <1>3, <1>4
  <1>6. entry' \in {0, entry}
    BY <1>1 DEF RemoveConnection
  <1>7. TypeOK'
    <2>1. pending' \in Seq(0 .. Limit - 1)
      BY <1>1
    <2>2. sockets' \in [Sockets -> {"unused", "open", "closed"}]
      BY <1>1 DEF IInv, TypeOK
    <2> QED BY <1>1, <1>5, <1>6, <2>1, <2>2 DEF IInv, TypeOK, Timers
  <1>8. TimersInStep'
    BY <1>3, <1>5 DEF IInv, TimersInStep
  <1>9. ASSUME Len(conns) = 1
        PROVE  entry' = 0
    <2>1. entry \in {0, 1} /\ c = 1
      BY <1>9, Types DEF IInv, TypeOK
    <2> QED BY <1>1, <2>1 DEF RemoveConnection
  <1> QED BY <1>1, <1>5, <1>7, <1>8, <1>9 DEF IInv, CountersAgree, Alone, Counted

\* Time brings every timeout nearer and the end of the period too.
LEMMA TickKeeps ==
  ASSUME IInv, Tick
  PROVE  IInv'
  <1> DEFINE Down(x) == IF x = Off THEN Off ELSE x - 1
             Older(t) == [t EXCEPT !.next = Down(@), !.wait = Down(@)]
  <1>1. /\ \A c \in DOMAIN conns : conns[c].next # 0 /\ conns[c].wait # 0
        /\ conns' = [c \in DOMAIN conns |-> Older(conns[c])]
        /\ quiet' = IF quiet < QuietBound THEN quiet + 1 ELSE quiet
        /\ UNCHANGED <<entry, pending, sockets, responsive>>
    BY DEF Tick
  <1>2. conns \in Seq(Timers) /\ quiet \in Nat /\ quiet <= QuietBound
    BY Types
  <1>3. ASSUME NEW c \in DOMAIN conns
        PROVE  /\ Older(conns[c]) \in Timers
               /\ conns'[c].next = Down(conns[c].next) /\ conns'[c].wait = Down(conns[c].wait)
               /\ conns'[c].next # Off <=> conns[c].next # Off
               /\ conns'[c].wait # Off <=> conns[c].wait # Off
    <2> DEFINE next == Down(conns[c].next)
               wait == Down(conns[c].wait)
    <2>1. /\ conns[c] \in Timers
          /\ conns[c].next \in Int /\ -1 <= conns[c].next /\ conns[c].next <= Period
          /\ conns[c].wait \in Int /\ -1 <= conns[c].wait /\ conns[c].wait <= Timeout
      BY Types
    <2>2. next \in Off .. Period /\ (next # Off <=> conns[c].next # Off)
      <3>1. CASE conns[c].next = Off
        BY <3>1, Constants DEF Off
      <3>2. CASE conns[c].next # Off
        <4>1. conns[c].next >= 1
          <5>1. conns[c].next # 0
            BY <1>1
          <5> QED BY <2>1, <3>2, <5>1 DEF Off
        <4> QED BY <2>1, <3>2, <4>1, Constants DEF Off
      <3> QED BY <3>1, <3>2
    <2>3. wait \in Off .. Timeout /\ (wait # Off <=> conns[c].wait # Off)
      <3>1. CASE conns[c].wait = Off
        BY <3>1, Constants DEF Off
      <3>2. CASE conns[c].wait # Off
        <4>1. conns[c].wait >= 1
          <5>1. conns[c].wait # 0
            BY <1>1
          <5> QED BY <2>1, <3>2, <5>1 DEF Off
        <4> QED BY <2>1, <3>2, <4>1, Constants DEF Off
      <3> QED BY <3>1, <3>2
    <2>4. conns'[c] = [conns[c] EXCEPT !.next = next, !.wait = wait]
      BY <1>1
    <2>5. Older(conns[c]) = [conns[c] EXCEPT !.next = next, !.wait = wait]
      OBVIOUS
    <2> HIDE DEF next, wait, Older
    <2>6. Older(conns[c]) \in Timers
      BY <2>1, <2>2, <2>3, <2>5 DEF Timers
    <2>7. conns'[c].next = next /\ conns'[c].wait = wait
      BY <2>1, <2>4 DEF Timers
    <2> QED BY <2>2, <2>3, <2>6, <2>7 DEF next, wait
  <1>4. conns' \in Seq(Timers) /\ Len(conns') = Len(conns) /\ DOMAIN conns' = DOMAIN conns
    <2>1. conns' \in [DOMAIN conns -> Timers]
      <3> HIDE DEF Older
      <3> QED BY <1>1, <1>3
    <2> QED BY <1>2, <2>1, PlaceByPlace
  <1> HIDE DEF Older
  <1>5. TypeOK'
    <2>1. quiet' \in 0 .. QuietBound
      BY <1>1, <1>2, Constants
    <2> QED BY <1>1, <1>4, <2>1 DEF IInv, TypeOK, Timers, QuietBound
  <1>6. TimersInStep'
    <2>1. ASSUME NEW c \in DOMAIN conns, conns[c].wait # Off
          PROVE  /\ conns[c].next # Off
                 /\ conns[c].next - 1 = Period - Timeout + (conns[c].wait - 1)
      <3>1. conns[c].next = Period - Timeout + conns[c].wait
        BY <2>1 DEF IInv, TimersInStep
      <3> QED BY <2>1, <3>1, Types, Constants DEF Off
    <2> QED BY <1>3, <1>4, <2>1 DEF TimersInStep
  <1>7. Alone'
    <2>1. CASE entry # 0 /\ Len(conns) = 1
      <3>1. pending # <<>> /\ conns[1].next # Off /\ 1 \in DOMAIN conns
        BY <2>1, Types DEF IInv, Alone
      <3>2. quiet' + conns'[1].next <= quiet + conns[1].next
            /\ quiet' + conns'[1].next \in Int /\ quiet + conns[1].next \in Int
        BY <1>1, <1>2, <1>3, <3>1, Types
      <3>3. pending[1] \in Nat
        BY <3>1, Types
      <3>4. (pending[1] + 1) * Period \in Nat /\ (pending[1] + 2) * Period \in Nat
        BY <3>3, Constants
      <3>5. IF conns[1].wait = Off THEN quiet + conns[1].next <= (pending[1] + 1) * Period
                                   ELSE quiet + conns[1].next <= (pending[1] + 2) * Period
        BY <2>1 DEF IInv, Alone
      <3>6. IF conns'[1].wait = Off THEN quiet' + conns'[1].next <= (pending[1] + 1) * Period
                                    ELSE quiet' + conns'[1].next <= (pending[1] + 2) * Period
        BY <1>3, <3>1, <3>2, <3>4, <3>5
      <3> QED BY <1>1, <1>3, <3>1, <3>6 DEF Alone
    <2> QED BY <1>1, <1>4, <2>1 DEF Alone
  <1>8. Counted'
    <2>1. conns' # <<>> \/ pending = <<>>
      BY <1>2, <1>4, Types
    <2>2. CASE quiet' = QuietBound \/ pending = <<>>
      BY <1>1, <2>1, <2>2 DEF Counted, QuietBound
    <2>3. CASE quiet' # QuietBound /\ pending # <<>>
      <3>1. quiet' = quiet + 1 /\ quiet # QuietBound
        BY <1>1, <1>2, <2>3, Constants
      <3>2. PICK n \in Nat :
              /\ quiet < (n + 1) * Period /\ n * Period <= quiet
              /\ pending[1] <= Len(conns) * n + Cardinality(Spent(conns, quiet, n + 1))
        BY <2>3, <3>1 DEF IInv, Counted
      <3>3. (n + 1) * Period \in Nat /\ (n + 1) * Period < (n + 2) * Period
            /\ n * Period \in Nat
        BY Constants
      <3>4. CASE quiet + 1 < (n + 1) * Period
        <4>1. Spent(conns', quiet', n + 1) = Spent(conns, quiet, n + 1)
          <5>1. ASSUME NEW c \in DOMAIN conns, conns[c].next # Off
                PROVE  quiet' + Due(conns'[c]) = quiet + Due(conns[c])
            <6>1. /\ conns[c].next \in Int /\ conns[c].wait \in Int
                  /\ conns'[c].next = conns[c].next - 1
              BY <1>3, <5>1, Types
            <6>2. conns[c].wait # Off => conns'[c].wait # Off /\ conns'[c].wait = conns[c].wait - 1
              BY <1>3
            <6>3. conns[c].wait = Off => conns'[c].wait = Off
              BY <1>3
            <6>4. \E x \in Int : Due(conns[c]) = x /\ Due(conns'[c]) = x - 1
              <7>1. CASE conns[c].wait # Off
                BY <6>1, <6>2, <7>1 DEF Due
              <7>2. CASE conns[c].wait = Off
                <8>1. conns[c].next + Timeout \in Int
                      /\ (conns[c].next - 1) + Timeout = (conns[c].next + Timeout) - 1
                  BY <6>1, Constants
                <8> QED BY <6>1, <6>3, <7>2, <8>1 DEF Due
              <7> QED BY <7>1, <7>2
            <6>5. quiet \in Int /\ quiet' = quiet + 1
              BY <1>2, <3>1
            <6> QED BY <6>4, <6>5
          <5> QED BY <1>3, <1>4, <5>1 DEF Spent
        <4>2. quiet' < (n + 1) * Period /\ n * Period <= quiet'
          BY <1>2, <3>1, <3>2, <3>3, <3>4
        <4> QED BY <1>1, <1>4, <2>1, <3>2, <4>1, <4>2 DEF Counted
      <3>5. CASE ~(quiet + 1 < (n + 1) * Period)
        <4>1. quiet' < ((n + 1) + 1) * Period /\ (n + 1) * Period <= quiet'
          <5>1. (n + 1) + 1 = n + 2
            OBVIOUS
          <5> QED BY <1>2, <3>1, <3>2, <3>3, <3>5, <5>1, Constants
        <4>2. pending[1] <= Len(conns) * (n + 1) + Cardinality(Spent(conns', quiet', (n + 1) + 1))
          <5> DEFINE before == Cardinality(Spent(conns, quiet, n + 1))
                     after == Cardinality(Spent(conns', quiet', (n + 1) + 1))
          <5>1. /\ before \in Nat /\ before <= Len(conns) /\ after \in Nat
            BY <1>2, <1>4, SpentIsFinite
          <5>2. pending[1] \in Nat /\ Len(conns) \in Nat
            BY <2>3, Types
          <5>3. Len(conns) * (n + 1) = Len(conns) * n + Len(conns) /\ Len(conns) * n \in Nat
            BY <5>2
          <5>4. pending[1] <= Len(conns) * n + before
            BY <3>2
          <5> HIDE DEF before, after
          <5>5. pending[1] <= Len(conns) * (n + 1) + after
            BY <5>1, <5>2, <5>3, <5>4
          <5> QED BY <5>5 DEF after
        <4>3. n + 1 \in Nat
          OBVIOUS
        <4> QED BY <1>1, <1>4, <2>1, <4>1, <4>2, <4>3 DEF Counted
      <3> QED BY <3>4, <3>5
    <2> QED BY <2>2, <2>3
  <1> QED BY <1>1, <1>5, <1>6, <1>7, <1>8 DEF IInv, CountersAgree

-----------------------------------------------------------------------------
LEMMA NextStep ==
  ASSUME IInv, Next
  PROVE  IInv'
  <1>1. /\ sockets \in [Sockets -> {"unused", "open", "closed"}] /\ responsive \in BOOLEAN
        /\ \A s \in Sockets, to \in {"open", "closed"} :
             [sockets EXCEPT ![s] = to] \in [Sockets -> {"unused", "open", "closed"}]
    BY DEF IInv, TypeOK
  <1>2. ASSUME NEW s \in Sockets, Message(s)
        PROVE  IInv'
    BY <1>1, <1>2, AddConnectionKeeps, IdleKeeps DEF Message
  <1>3. ASSUME NEW s \in Sockets, PingAnswer(s)
        PROVE  IInv'
    BY <1>1, <1>3, AddConnectionKeeps, ResetKeeps DEF PingAnswer
  <1>4. ASSUME NEW s \in Sockets, LeaveRequest(s)
        PROVE  IInv'
    BY <1>4, LeaveKeeps DEF LeaveRequest
  <1>5. ASSUME NEW s \in Sockets, Close(s)
        PROVE  IInv'
    BY <1>1, <1>5, IdleKeeps DEF Close, RemoveConnection
  <1>6. CASE Silence
    BY <1>1, <1>6, IdleKeeps DEF Silence
  <1>7. CASE TimerStep
    BY <1>7, PingTickKeeps, CountingTimeoutKeeps, LastTimeoutKeeps DEF TimerStep
  <1> QED BY <1>2, <1>3, <1>4, <1>5, <1>6, <1>7, TickKeeps DEF Next

\* A timer step clears the counters only at the last timeout, which is late
\* enough.
LEMMA DropStep ==
  ASSUME IInv, TimerStep, pending # <<>>, pending' = <<>>
  PROVE  Len(conns) * (quiet \div Period + 1) >= Limit
  <1>1. PICK c \in DOMAIN conns : PingTick(c) \/ PingTimeout(c)
    BY DEF TimerStep
  <1>2. 1 \in DOMAIN pending /\ conns # <<>> /\ Len(conns) \in Nat /\ Len(conns) >= 1
    BY Types
  <1>3. PingTimeout(c) /\ LastTimeout
    <2>1. ~PingTick(c)
      BY DEF PingTick
    <2>2. ASSUME ~LastTimeout PROVE FALSE
      <3>1. pending' = [k \in DOMAIN pending |-> pending[k] + 1]
        BY <1>1, <2>1, <2>2 DEF PingTimeout, LastTimeout
      <3>2. 1 \in DOMAIN pending'
        BY <1>2, <3>1
      <3> QED BY <3>2
    <2> QED BY <1>1, <2>1, <2>2
  <1>4. pending[1] + 1 = Limit /\ pending[1] \in Nat
    BY <1>2, <1>3, Types DEF LastTimeout, IInv, CountersAgree
  <1>5. conns[c].wait = 0
    BY <1>3 DEF PingTimeout
  <1>6. CASE quiet # QuietBound
    <2>1. PICK n \in Nat :
            /\ quiet < (n + 1) * Period /\ n * Period <= quiet
            /\ pending[1] <= Len(conns) * n + Cardinality(Spent(conns, quiet, n + 1))
            /\ c \notin Spent(conns, quiet, n + 1)
      BY <1>5, <1>6, TimeoutSpends
    <2>2. quiet \div Period = n
      <3>1. quiet \in Nat /\ Period \in Nat /\ 0 < Period
        BY Types, Constants
      <3> QED BY <2>1, <3>1, Quotient
    <2> DEFINE spent == Spent(conns, quiet, n + 1)
    <2>3. Cardinality(spent) + 1 <= Len(conns) /\ Cardinality(spent) \in Nat
      <3>1. /\ IsFiniteSet(DOMAIN conns) /\ Cardinality(DOMAIN conns) = Len(conns)
        BY Types, PlacesCount
      <3>2. spent \cup {c} \in SUBSET DOMAIN conns
        BY DEF Spent
      <3>3. IsFiniteSet(spent) /\ Cardinality(spent) \in Nat
        BY Types, SpentIsFinite
      <3>4. Cardinality(spent \cup {c}) = Cardinality(spent) + 1
        BY <2>1, <3>3, FS_AddElement
      <3> HIDE DEF spent
      <3>5. Cardinality(spent \cup {c}) <= Cardinality(DOMAIN conns)
        BY <3>1, <3>2, FS_Subset
      <3> QED BY <3>1, <3>3, <3>4, <3>5
    <2>4. Len(conns) * (n + 1) = Len(conns) * n + Len(conns) /\ Len(conns) * n \in Nat
      BY <1>2
    <2>5. pending[1] <= Len(conns) * n + Cardinality(spent)
      BY <2>1
    <2> HIDE DEF spent
    <2>6. Limit <= Len(conns) * (n + 1)
      BY <1>2, <1>4, <2>3, <2>4, <2>5
    <2> QED BY <1>2, <2>2, <2>4, <2>6, Constants
  <1>7. CASE quiet = QuietBound
    <2>1. /\ (Limit + 1) * Period <= quiet /\ quiet < ((Limit + 1) + 1) * Period
          /\ Limit + 1 \in Nat
      <3>1. ((Limit + 1) + 1) * Period = (Limit + 1) * Period + Period
            /\ (Limit + 1) * Period \in Nat
        BY Constants
      <3> QED BY <1>7, <3>1, Constants DEF QuietBound
    <2>2. quiet \div Period = Limit + 1
      <3>1. quiet \in Nat /\ Period \in Nat /\ 0 < Period
        BY Types, Constants
      <3> QED BY <2>1, <3>1, Quotient
    <2>3. Len(conns) * (Limit + 2) >= 1 * (Limit + 2)
      BY <1>2, Products, Constants
    <2> QED BY <1>2, <2>2, <2>3, Constants
  <1> QED BY <1>6, <1>7

(* The timers keep their distance and the counters keep within what the     *)
(* time since their reset allows, in every state of every run.              *)
THEOREM Invariance == Spec => []IInv
  <1>1. Init => IInv
    BY Constants DEF Init, IInv, TypeOK, CountersAgree, TimersInStep, Alone, Counted
  <1>2. IInv /\ [Next]_vars => IInv'
    <2>1. ASSUME IInv, UNCHANGED vars PROVE IInv'
      BY <2>1, IdleKeeps DEF vars, IInv, TypeOK
    <2> QED BY <2>1, NextStep
  <1> QED BY <1>1, <1>2, PTL DEF Spec

(* The timers and counters keep their ranges: no counter reaches the limit  *)
(* and stays.                                                               *)
THEOREM TypeCorrect == Spec => []TypeOK
  <1>1. IInv => TypeOK
    BY DEF IInv
  <1> QED BY <1>1, Invariance, PTL

(* Every registration, answer, leave and timeout treats all counters of the *)
(* peer alike, however many connections it has had.                         *)
THEOREM CountersAlwaysAgree == Spec => []CountersAgree
  <1>1. IInv => CountersAgree
    BY DEF IInv
  <1> QED BY <1>1, Invariance, PTL

(* A peer that has been registered once is in the table no longer than      *)
(* Limit periods and one timeout after the last sign of it.                 *)
THEOREM LossIsDetected == Spec => []DetectedInTime
  <1>1. IInv => DetectedInTime
    <2> SUFFICES ASSUME IInv, entry # 0, Len(conns) = 1
                 PROVE  quiet <= Limit * Period + Timeout
      BY DEF DetectedInTime
    <2>1. /\ pending # <<>> /\ conns[1].next # Off
          /\ IF conns[1].wait = Off THEN quiet + conns[1].next <= (pending[1] + 1) * Period
                                    ELSE quiet + conns[1].next <= (pending[1] + 2) * Period
      BY DEF IInv, Alone
    <2>2. /\ 1 \in DOMAIN conns /\ quiet \in Nat
          /\ pending[1] \in Nat /\ pending[1] + 1 <= Limit
          /\ conns[1].next \in Int /\ conns[1].next >= 0
          /\ conns[1].wait \in Int /\ conns[1].wait >= -1
      <3>1. 1 \in DOMAIN conns /\ 1 \in DOMAIN pending
        BY <2>1, Types
      <3>2. /\ conns[1].next \in Int /\ -1 <= conns[1].next
            /\ conns[1].wait \in Int /\ -1 <= conns[1].wait
        BY <3>1, Types
      <3>3. quiet \in Nat /\ pending[1] \in Nat /\ pending[1] < Limit /\ Limit \in Nat
        BY <3>1, Types, Constants
      <3> DEFINE n == conns[1].next
                 w == conns[1].wait
                 k == pending[1]
      <3>4. n \in Int /\ -1 <= n /\ n # -1 /\ w \in Int /\ -1 <= w
        BY <2>1, <3>2 DEF Off
      <3>5. k \in Nat /\ k < Limit /\ Limit \in Nat
        BY <3>3
      <3> HIDE DEF n, w, k
      <3>6. n >= 0 /\ w >= -1 /\ k + 1 <= Limit
        BY <3>4, <3>5
      <3> QED BY <3>1, <3>3, <3>4, <3>6 DEF n, w, k
    <2>3. (pending[1] + 1) * Period <= Limit * Period
      BY <2>2, Products, Constants
    <2>4. /\ (pending[1] + 2) * Period = (pending[1] + 1) * Period + Period
          /\ (pending[1] + 1) * Period \in Nat
      BY <2>2, Constants
    <2>5. conns[1].wait # Off => conns[1].next >= Period - Timeout
      <3>1. conns[1].wait # Off => conns[1].next = Period - Timeout + conns[1].wait
        BY <2>2 DEF IInv, TimersInStep
      <3> QED BY <2>2, <3>1, Constants DEF Off
    <2>6. /\ Limit * Period \in Nat /\ Timeout \in Nat /\ Period \in Nat
      BY Constants
    <2>7. CASE conns[1].wait = Off
      BY <2>1, <2>2, <2>3, <2>4, <2>6, <2>7, SMTT(30)
    <2>8. CASE conns[1].wait # Off
      <3> DEFINE a == (pending[1] + 1) * Period
                 b == Limit * Period
      <3>1. quiet + conns[1].next <= a + Period /\ a \in Nat
        BY <2>1, <2>4, <2>8
      <3>2. a <= b /\ b \in Nat
        BY <2>3, <2>6
      <3> HIDE DEF a, b
      <3>3. quiet <= b + Timeout
        BY <2>2, <2>5, <2>6, <2>8, <3>1, <3>2
      <3> QED BY <3>3 DEF b
    <2> QED BY <2>7, <2>8
  <1> QED BY <1>1, Invariance, PTL

(* However many intervals count at once, a timer drops the peer no earlier  *)
(* than if each of them counts once per period.                             *)
THEOREM OnlyTheSilentAreDropped == Spec => DropsOnlyTheSilent
  <1>1. IInv /\ [Next]_vars =>
          [TimerStep /\ pending # <<>> /\ pending' = <<>>
             => Len(conns) * (quiet \div Period + 1) >= Limit]_vars
    BY DropStep
  <1> QED BY <1>1, Invariance, PTL DEF Spec, DropsOnlyTheSilent
=============================================================================

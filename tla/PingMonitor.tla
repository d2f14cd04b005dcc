----------------------------- MODULE PingMonitor -----------------------------
(***************************************************************************)
(* How the loss of one remote peer is detected: the ping intervals and     *)
(* timeouts of ConnectionManager.addConnection and the unanswered-ping     *)
(* counters of topology.pendingPing, in units of time.                     *)
(*                                                                         *)
(* Peer.tla lets a monitored entry time out at any moment; here the timers *)
(* are what they are in the code.  Every registration of the peer makes a  *)
(* connection object, an interval that holds on to it and a counter, and a *)
(* counter names the peer, not the connection: the intervals of successive *)
(* connections work on each other's counters.                              *)
(*                                                                         *)
(* The sockets are accepted TLS connections, on which a write never fails. *)
(***************************************************************************)
EXTENDS Integers, Sequences

CONSTANTS
  Sockets,   \* the sockets the remote peer is heard on
  Period,    \* chord-ping-interval
  Timeout,   \* how long after a ping its answer is missed (4 s in the code)
  Limit,     \* how many unanswered pings are one too many (5 in the code)
  MaxConns   \* a bound on the registrations of a run

\* The configurations set Period to 20 s and to 5 s.
ASSUME PingAssumption ==
  /\ Period \in Nat /\ Timeout \in Nat \ {0} /\ Timeout < Period
  /\ Limit \in Nat \ {0} /\ MaxConns \in Nat

VARIABLES
  conns,       \* every connection object made, with its two timers
  entry,       \* which of them is in the connection table, 0 when none is
  pending,     \* the cpt of each pendingPing entry of the peer
  sockets,     \* how far along its life each socket is
  responsive,  \* the peer is alive and the network delivers
  quiet        \* time since the counters were last reset

vars == <<conns, entry, pending, sockets, responsive, quiet>>

Off == -1  \* a timer that is not set

\* quiet is not counted beyond what any property asks.
QuietBound == (Limit + 1) * Period

TypeOK ==
  /\ conns \in Seq([socket : Sockets, next : Off .. Period, wait : Off .. Timeout])
  /\ Len(conns) <= MaxConns
  /\ entry \in 0 .. Len(conns)
  /\ pending \in Seq(0 .. Limit - 1)
  /\ sockets \in [Sockets -> {"unused", "open", "closed"}]
  /\ responsive \in BOOLEAN /\ quiet \in 0 .. QuietBound

Init ==
  /\ conns = <<>> /\ entry = 0 /\ pending = <<>>
  /\ sockets = [s \in Sockets |-> "unused"]
  /\ responsive = TRUE /\ quiet = 0

-----------------------------------------------------------------------------
Monitored(c) == conns[c].next # Off

\* What a message on s finds registered: nothing new when the peer has an
\* entry.
Registers(s) == entry = 0 /\ Len(conns) < MaxConns

NewConns(s) == Append(conns, [socket |-> s, next |-> Period, wait |-> Off])

Zeroed == [k \in DOMAIN pending |-> 0]

\* Slip: the counters of earlier connections go on from where they were.
AddConnection_NoReset(s) ==
  /\ Registers(s)
  /\ conns' = NewConns(s) /\ entry' = Len(conns) + 1
  /\ pending' = Append(pending, 0) /\ quiet' = 0

\* addConnection for a peer without an entry: its counters start again, one
\* more joins them, and one more interval starts.
AddConnection(s) ==
  /\ Registers(s)
  /\ conns' = NewConns(s) /\ entry' = Len(conns) + 1
  /\ pending' = Append(Zeroed, 0) /\ quiet' = 0

\* A message other than the two below; the first one comes with the socket.
Message(s) ==
  /\ responsive /\ sockets[s] # "closed"
  /\ sockets' = [sockets EXCEPT ![s] = "open"]
  /\ AddConnection(s) \/ (entry # 0 /\ UNCHANGED <<conns, entry, pending, quiet>>)
  /\ UNCHANGED responsive

\* Slip: the answer is registered and not counted.
PingAnswer_Ignored(s) ==
  /\ responsive /\ sockets[s] = "open"
  /\ \/ AddConnection(s)
     \/ entry # 0 /\ quiet' = 0 /\ UNCHANGED <<conns, entry, pending>>
  /\ UNCHANGED <<sockets, responsive>>

\* An answer resets every counter of the peer, whichever interval pinged it
\* and however late it is.  A peer without an entry is registered first.
PingAnswer(s) ==
  /\ responsive /\ sockets[s] = "open"
  /\ \/ AddConnection(s)
     \/ /\ entry # 0
        /\ pending' = Zeroed /\ quiet' = 0
        /\ UNCHANGED <<conns, entry>>
  /\ UNCHANGED <<sockets, responsive>>

\* LeaveRequest of a peer with an entry: the entry goes, and the counters
\* with it.  The socket stays open.
LeaveRequest(s) ==
  /\ responsive /\ sockets[s] = "open" /\ entry # 0
  /\ entry' = 0 /\ pending' = <<>>
  /\ UNCHANGED <<conns, sockets, responsive, quiet>>

\* The entry, if it is on this socket, goes; the counters stay.
RemoveConnection(s) ==
  entry' = IF entry # 0 /\ conns[entry].socket = s THEN 0 ELSE entry

\* The close handler of the listener.
Close(s) ==
  /\ sockets[s] = "open" /\ sockets' = [sockets EXCEPT ![s] = "closed"]
  /\ RemoveConnection(s)
  /\ UNCHANGED <<conns, pending, responsive, quiet>>

\* The peer or the network is gone and nothing tells: no answer, no close
\* event, no reconnection.
Silence ==
  /\ responsive /\ responsive' = FALSE
  /\ UNCHANGED <<conns, entry, pending, sockets, quiet>>

-----------------------------------------------------------------------------
\* Slip: an interval without counters goes on.
PingTick_Unending(c) ==
  /\ conns[c].next = 0
  /\ conns' = [conns EXCEPT ![c].next = Period, ![c].wait = Timeout]
  /\ UNCHANGED <<entry, pending, sockets, responsive, quiet>>

\* An interval is due: it ends when the peer has no counter left, and pings
\* otherwise.
PingTick(c) ==
  /\ conns[c].next = 0
  /\ conns' = IF pending = <<>> THEN [conns EXCEPT ![c].next = Off]
              ELSE [conns EXCEPT ![c].next = Period, ![c].wait = Timeout]
  /\ UNCHANGED <<entry, pending, sockets, responsive, quiet>>

\* Slip: the test comes before the increment.
PingTimeout_OneMore(c) ==
  /\ conns[c].wait = 0
  /\ IF \E k \in DOMAIN pending : pending[k] = Limit
     THEN /\ RemoveConnection(conns[c].socket)
          /\ sockets' = [sockets EXCEPT ![conns[c].socket] = "closed"]
          /\ conns' = [conns EXCEPT ![c].wait = Off, ![c].next = Off]
          /\ pending' = <<>>
     ELSE /\ conns' = [conns EXCEPT ![c].wait = Off]
          /\ pending' = [k \in DOMAIN pending |-> pending[k] + 1]
          /\ UNCHANGED <<entry, sockets>>
  /\ UNCHANGED <<responsive, quiet>>

\* Slip: the counters are cleared, the entry is left in the table.
PingTimeout_KeepsEntry(c) ==
  /\ conns[c].wait = 0
  /\ IF \E k \in DOMAIN pending : pending[k] + 1 = Limit
     THEN /\ sockets' = [sockets EXCEPT ![conns[c].socket] = "closed"]
          /\ conns' = [conns EXCEPT ![c].wait = Off, ![c].next = Off]
          /\ pending' = <<>>
     ELSE /\ conns' = [conns EXCEPT ![c].wait = Off]
          /\ pending' = [k \in DOMAIN pending |-> pending[k] + 1]
          /\ UNCHANGED sockets
  /\ UNCHANGED <<entry, responsive, quiet>>

\* A ping has not been answered in time, or an answer has come and this
\* counts nevertheless: the timeout knows nothing of answers.  Every counter
\* of the peer grows by one; when one reaches the limit, the connection that
\* PINGED is removed, and all counters are.
PingTimeout(c) ==
  /\ conns[c].wait = 0
  /\ IF \E k \in DOMAIN pending : pending[k] + 1 = Limit
     THEN /\ RemoveConnection(conns[c].socket)
          /\ sockets' = [sockets EXCEPT ![conns[c].socket] = "closed"]
          /\ conns' = [conns EXCEPT ![c].wait = Off, ![c].next = Off]
          /\ pending' = <<>>
     ELSE /\ conns' = [conns EXCEPT ![c].wait = Off]
          /\ pending' = [k \in DOMAIN pending |-> pending[k] + 1]
          /\ UNCHANGED <<entry, sockets>>
  /\ UNCHANGED <<responsive, quiet>>

\* Time passes when no timer is due.
Tick ==
  /\ \A c \in DOMAIN conns : conns[c].next # 0 /\ conns[c].wait # 0
  /\ LET Down(t) == IF t = Off THEN Off ELSE t - 1
     IN  conns' = [c \in DOMAIN conns |-> [conns[c] EXCEPT !.next = Down(@),
                                                          !.wait = Down(@)]]
  /\ quiet' = IF quiet < QuietBound THEN quiet + 1 ELSE quiet
  /\ UNCHANGED <<entry, pending, sockets, responsive>>

TimerStep == \E c \in DOMAIN conns : PingTick(c) \/ PingTimeout(c)

Next ==
  \/ \E s \in Sockets : Message(s) \/ PingAnswer(s) \/ LeaveRequest(s) \/ Close(s)
  \/ Silence \/ TimerStep \/ Tick

\* The event loop runs the timers that are due, and time does not stop.
Spec == Init /\ [][Next]_vars /\ WF_vars(TimerStep) /\ WF_vars(Tick)

-----------------------------------------------------------------------------
(* All counters of the peer agree at all times, so that it does not matter *)
(* which of them reaches the limit, although connections come and go with  *)
(* pings under way (ConnectionManager.js:90-93, 120-136).                  *)
CountersAgree == \A j, k \in DOMAIN pending : pending[j] = pending[k]

(* A peer is given up only after Limit timeouts in a row: with n intervals *)
(* counting at once, no earlier than n of them per Period allow            *)
(* (ConnectionManager.js:120-136, MessageDispatcher.js:120-129).           *)
DropsOnlyTheSilent ==
  [][TimerStep /\ pending # <<>> /\ pending' = <<>>
       => Len(conns) * (quiet \div Period + 1) >= Limit]_vars

(* With one interval only, the entry of a silent peer is gone by the time  *)
(* of the Limit-th timeout after the last sign of it                       *)
(* (ConnectionManager.js:88-138).                                          *)
DetectedInTime ==
  entry # 0 /\ Len(conns) = 1 => quiet <= Limit * Period + Timeout

(* No timer of a lost peer runs for ever: once it is silent, all of its    *)
(* intervals end (ConnectionManager.js:95-107, 126-135).                   *)
TimersEnd ==
  ~responsive ~> \A c \in DOMAIN conns : ~Monitored(c) /\ conns[c].wait = Off

(* An entry that is in the connection table is pinged, so that its loss    *)
(* can be detected (ConnectionManager.js:94-138).                          *)
EntryIsMonitored == entry # 0 => Monitored(entry)
=============================================================================

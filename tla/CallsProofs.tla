---------------------------- MODULE CallsProofs ----------------------------
(***************************************************************************)
(* Proofs about Calls, for any number of threads, connections, statements  *)
(* and requests: who holds the mutex of a connection, that no two calls    *)
(* wait for each other, and that errors stay with their connection.        *)
(***************************************************************************)
EXTENDS Calls, TLAPS

\* The calls that keep the mutex of their connection until they return.
Keeping == {"params", "catalog", "columns", "stream"}

Points == {"Enter", "Lock", "Run", "PutBack", "Report", "Error", "Small", "Install",
           "Refused"}

Rows == [fmt : Formats, id : Ids, session : 0 .. MaxSessions, req : 1 .. MaxRequests,
         size : Sizes, left : BOOLEAN]

InFlight ==
    [at : Points, fn : Fns, id : Ids, sql : Sqls \cup {None}, stmt : StmtIds \cup {None},
     buf : Nat \ {0}, limit : Limits, req : 1 .. MaxRequests, res : Rows \cup {None},
     session : 0 .. MaxSessions]

TypeInv ==
    /\ holder \in [Ids -> Threads \cup {None}] /\ mutex \in [Ids -> Threads \cup {None}]
    /\ shared \subseteq PlainIds
    /\ live \in [DOMAIN live -> 0 .. MaxSessions]
    /\ statements \in [DOMAIN statements -> [id : Ids, sql : Singles]]
    /\ DOMAIN statements \subseteq StmtIds
    /\ sessions \in 0 .. MaxSessions /\ requests \in 0 .. MaxRequests /\ prepared \in Nat
    /\ call \in [Threads -> InFlight \cup {Idle}]
    /\ DOMAIN connErr = Ids /\ DOMAIN outcome = Threads

Busy(t) == call[t].at # "Idle"

\* A call is made on a connection of its thread, or on a shared one with a
\* function that may be called there.
CallInv(t) ==
    Busy(t) =>
        /\ call[t].id \in shared => call[t].fn \in SharedFns
        /\ call[t].id \notin shared => holder[call[t].id] = t
        /\ outcome[t] = Idle

\* A request that ended was made on a connection of its thread or a shared one,
\* and if it failed the connection's error slot says so, or what it said then.
OutcomeInv(t) ==
    outcome[t].at # "Idle" =>
        LET i == outcome[t].call.id IN
        /\ i \in Ids
        /\ i \notin shared =>
              /\ holder[i] = t
              /\ outcome[t].at = "Failed" => connErr[i].req = outcome[t].call.req
              /\ outcome[t].at = "Unnoted" => connErr[i] = outcome[t].slot

\* Who has the mutex of a connection is in a call on it, and unless it runs a
\* statement it is in a call that keeps the mutex.
MutexInv(i) ==
    mutex[i] # None =>
        LET c == call[mutex[i]] IN
        /\ c.at \in {"Run", "Error", "Small", "Install"} /\ c.id = i
        /\ c.at # "Run" => c.fn \in Keeping

LInv ==
    /\ TypeInv
    /\ \A t \in Threads : CallInv(t) /\ OutcomeInv(t)
    /\ \A i \in Ids : MutexInv(i)
-----------------------------------------------------------------------------
(* Steps of a call in flight.                                              *)

\* What a step of t's call may do to the calls and their outcomes: it goes on
\* with the same function on the same connection, or ends.
CallPart(t) ==
    /\ call' \in [Threads -> InFlight \cup {Idle}] /\ DOMAIN outcome' = Threads
    /\ \A u \in Threads \ {t} : call'[u] = call[u] /\ outcome'[u] = outcome[u]
    /\ \/ /\ call'[t] \in InFlight /\ outcome'[t] = Idle
          /\ call'[t].id = call[t].id /\ call'[t].fn = call[t].fn
       \/ call'[t] = Idle /\ outcome'[t] = Idle
       \/ /\ call'[t] = Idle /\ outcome'[t].call = Asked(t)
          /\ outcome'[t].at \in {"Ok", "Failed", "Unnoted"}

\* ... to the error slots: it may overwrite the one of its connection, and does
\* when it fails and has not put the error elsewhere.
ErrorPart(t) ==
    /\ DOMAIN connErr' = Ids
    /\ \A i \in Ids \ {call[t].id} : connErr'[i] = connErr[i]
    /\ outcome'[t].at = "Failed" => connErr'[call[t].id].req = call[t].req
    /\ outcome'[t].at = "Unnoted" => connErr'[call[t].id] = outcome'[t].slot

\* ... and to the mutexes of the connections.
MutexPart(t) ==
    /\ mutex' \in [Ids -> Threads \cup {None}]
    /\ \A i \in Ids : mutex'[i] # t => mutex'[i] \in {None, mutex[i]}
    /\ \A i \in Ids : mutex'[i] = t =>
          /\ i = call[t].id /\ call'[t].at \in {"Run", "Error", "Small", "Install"}
          /\ call'[t].at # "Run" => call[t].fn \in Keeping

LEMMA IdleAt == Idle.at = "Idle" /\ "Idle" \notin Points
BY DEF Idle, Points

LEMMA Shape ==
  ASSUME TypeInv, NEW t \in Threads, Busy(t)
  PROVE  /\ call[t] \in InFlight
         /\ call[t].id \in Ids /\ call[t].fn \in Fns /\ call[t].req \in 1 .. MaxRequests
BY IdleAt DEF TypeInv, Busy, InFlight

LEMMA StepKeeps ==
  ASSUME LInv, NEW t \in Threads, Busy(t), CallPart(t), ErrorPart(t), MutexPart(t),
         live' \in [DOMAIN live' -> 0 .. MaxSessions],
         UNCHANGED <<holder, shared, sessions, statements, prepared, requests>>
  PROVE  LInv'
<1>1. /\ call[t] \in InFlight /\ call[t].id \in Ids /\ TypeInv /\ CallInv(t)
      /\ Idle.at = "Idle"
  BY Shape, IdleAt DEF LInv
<1>2. ASSUME NEW u \in Threads PROVE CallInv(u)'
  <2>1. CASE u = t
    BY <1>1, <2>1 DEF CallInv, CallPart, Busy
  <2>2. CASE u # t
    BY <2>2 DEF LInv, CallInv, CallPart, Busy
  <2> QED
    BY <2>1, <2>2
<1>3. ASSUME NEW u \in Threads PROVE OutcomeInv(u)'
  <2>1. CASE u = t
    <3>1. CASE outcome'[t] = Idle
      BY <1>1, <2>1, <3>1 DEF OutcomeInv
    <3>2. CASE outcome'[t].call = Asked(t) /\ outcome'[t].at \in {"Ok", "Failed", "Unnoted"}
      <4>1. outcome'[t].call.id = call[t].id /\ outcome'[t].call.req = call[t].req
        BY <3>2 DEF Asked
      <4> QED
        BY <1>1, <2>1, <4>1 DEF OutcomeInv, CallInv, ErrorPart, Busy
    <3> QED
      BY <3>1, <3>2 DEF CallPart
  <2>2. CASE u # t
    <3>1. outcome'[u] = outcome[u] /\ OutcomeInv(u)
      BY <2>2 DEF LInv, CallPart
    <3> PICK o : o = outcome[u]
      BY Zenon
    <3>2. o.at # "Idle" /\ o.call.id \in Ids \ shared =>
             o.call.id # call[t].id /\ connErr'[o.call.id] = connErr[o.call.id]
      BY <1>1, <2>2, <3>1 DEF OutcomeInv, CallInv, ErrorPart, Busy
    <3> QED
      BY <3>1, <3>2 DEF OutcomeInv
  <2> QED
    BY <2>1, <2>2
<1>4. ASSUME NEW i \in Ids PROVE MutexInv(i)'
  <2>1. CASE mutex'[i] = t
    BY <2>1 DEF MutexInv, MutexPart, CallPart, Idle
  <2>2. CASE mutex'[i] # t
    BY <2>2 DEF LInv, MutexInv, MutexPart, CallPart, TypeInv
  <2> QED
    BY <2>1, <2>2
<1>5. TypeInv'
  BY <1>1 DEF TypeInv, CallPart, ErrorPart, MutexPart
<1> QED
  BY <1>2, <1>3, <1>4, <1>5 DEF LInv

LEMMA InitKeeps == Init => LInv
BY BoundsAssumption, IdleAt DEF Init, LInv, TypeInv, CallInv, OutcomeInv, MutexInv, Busy, Idle

\* Sharing a connection of a thread that is in no call.
LEMMA ShareKeeps ==
  ASSUME LInv, NEW t \in Threads, NEW i \in Shareable, Share(t, i)
  PROVE  LInv'
<1>1. /\ ~Busy(t) /\ holder[i] = t /\ i \in PlainIds /\ shared' = shared \cup {i}
      /\ UNCHANGED <<live, holder, sessions, statements, prepared, connErr, mutex, call,
                     outcome, requests>>
  BY ShareableAssumption DEF Share, At, Busy
<1>2. TypeInv'
  BY <1>1 DEF LInv, TypeInv
<1>3. \A u \in Threads : CallInv(u)' /\ OutcomeInv(u)'
  BY <1>1 DEF LInv, CallInv, OutcomeInv, Busy
<1>4. \A j \in Ids : MutexInv(j)'
  BY <1>1 DEF LInv, MutexInv
<1> QED
  BY <1>2, <1>3, <1>4 DEF LInv

\* A request starts with a call on a connection its thread may use.
LEMMA BeginKeeps ==
  ASSUME LInv, NEW t \in Threads, NEW fn \in Fns, NEW i \in Ids, NEW sql \in Sqls \cup {None},
         NEW stmt \in StmtIds \cup {None}, NEW limit \in Limits,
         Begin(t, fn, i, sql, stmt, limit)
  PROVE  LInv'
<1>1. PICK n : n = IF i \in DOMAIN live THEN live[i] ELSE 0
  BY Zenon
<1>2. PICK c : c = [at |-> "Enter", fn |-> fn, id |-> i, sql |-> sql, stmt |-> stmt, buf |-> 1,
                    limit |-> limit, req |-> requests + 1, res |-> None, session |-> n]
  BY Zenon
<1>3. n \in 0 .. MaxSessions /\ requests + 1 \in 1 .. MaxRequests /\ ~Busy(t)
  BY <1>1, BoundsAssumption DEF LInv, TypeInv, Begin, At, Busy
<1>4. c \in InFlight /\ c.id = i /\ c.fn = fn /\ c.at = "Enter"
  BY <1>2, <1>3 DEF InFlight, Points
<1>5. /\ call' = [call EXCEPT ![t] = c] /\ outcome' = [outcome EXCEPT ![t] = Idle]
      /\ requests' = requests + 1
      /\ Uses(t, i) /\ (i \in shared => fn \in SharedFns)
      /\ UNCHANGED <<live, holder, shared, sessions, statements, prepared, connErr, mutex>>
  BY Zenon, <1>1, <1>2 DEF Begin, tables
<1>6. TypeInv'
  BY <1>3, <1>4, <1>5 DEF LInv, TypeInv
<1>7. \A u \in Threads : CallInv(u)' /\ OutcomeInv(u)'
  BY <1>4, <1>5, IdleAt DEF LInv, TypeInv, CallInv, OutcomeInv, Busy, Uses
<1>8. \A j \in Ids : MutexInv(j)'
  BY <1>3, <1>5 DEF LInv, TypeInv, MutexInv, Busy
<1> QED
  BY <1>6, <1>7, <1>8 DEF LInv

\* A call that goes on.
LEMMA GoesOn ==
  ASSUME LInv, NEW t \in Threads, Busy(t), UNCHANGED outcome,
         NEW c \in InFlight, c.id = call[t].id, c.fn = call[t].fn,
         call' = [call EXCEPT ![t] = c]
  PROVE  CallPart(t) /\ call'[t] = c /\ outcome'[t] = Idle
BY DEF LInv, TypeInv, CallInv, CallPart

\* A call that is over.
LEMMA Returns ==
  ASSUME LInv, NEW t \in Threads, Busy(t), NEW o,
         o = Idle \/ (o.call = Asked(t) /\ o.at \in {"Ok", "Failed", "Unnoted"}),
         call' = [call EXCEPT ![t] = Idle], outcome' = [outcome EXCEPT ![t] = o]
  PROVE  CallPart(t) /\ call'[t] = Idle /\ outcome'[t] = o
BY DEF LInv, TypeInv, CallPart

LEMMA DeliverPart ==
  ASSUME LInv, NEW t \in Threads, Busy(t), NEW data, Deliver(t, data)
  PROVE  /\ CallPart(t) /\ call'[t] = Idle
         /\ outcome'[t] = [at |-> "Ok", call |-> Asked(t), data |-> data]
<1>1. PICK o : o = [at |-> "Ok", call |-> Asked(t), data |-> data]
  BY Zenon
<1>2. o.call = Asked(t) /\ o.at = "Ok"
  BY <1>1
<1> QED
  BY Zenon, <1>1, <1>2, Returns DEF Deliver

LEMMA FailPart ==
  ASSUME LInv, NEW t \in Threads, Busy(t), Fail(t)
  PROVE  /\ CallPart(t) /\ call'[t] = Idle
         /\ outcome'[t] = [at |-> "Failed", call |-> Asked(t)]
<1>1. PICK o : o = [at |-> "Failed", call |-> Asked(t)]
  BY Zenon
<1>2. o.call = Asked(t) /\ o.at = "Failed"
  BY <1>1
<1> QED
  BY Zenon, <1>1, <1>2, Returns DEF Fail

LEMMA FailUnnotedPart ==
  ASSUME LInv, NEW t \in Threads, Busy(t), FailUnnoted(t)
  PROVE  /\ CallPart(t) /\ call'[t] = Idle
         /\ outcome'[t] = [at |-> "Unnoted", call |-> Asked(t), slot |-> connErr[call[t].id]]
<1>1. PICK o : o = [at |-> "Unnoted", call |-> Asked(t), slot |-> connErr[call[t].id]]
  BY Zenon
<1>2. o.call = Asked(t) /\ o.at = "Unnoted"
  BY <1>1
<1> QED
  BY Zenon, <1>1, <1>2, Returns DEF FailUnnoted

\* The call of a request that has a larger buffer.
Larger(c) == [c EXCEPT !.at = "Enter", !.buf = 2 * @, !.res = None]

LEMMA LargerIs ==
  ASSUME NEW c \in InFlight
  PROVE  /\ Larger(c) \in InFlight /\ Larger(c).at = "Enter" /\ Larger(c).buf = 2 * c.buf
         /\ Larger(c).id = c.id /\ Larger(c).fn = c.fn /\ Larger(c).sql = c.sql
         /\ Larger(c).stmt = c.stmt /\ Larger(c).limit = c.limit /\ Larger(c).req = c.req
         /\ Larger(c).session = c.session
<1>1. PICK d : d = [c EXCEPT !.at = "Enter"]
  BY Zenon
<1>2. /\ d \in InFlight /\ d.at = "Enter" /\ d.buf = c.buf /\ d.id = c.id /\ d.fn = c.fn
      /\ d.sql = c.sql /\ d.stmt = c.stmt /\ d.limit = c.limit /\ d.req = c.req
      /\ d.session = c.session
  BY <1>1 DEF InFlight, Points
<1>3. PICK e : e = [d EXCEPT !.buf = 2 * @]
  BY Zenon
<1>4. 2 * d.buf \in Nat \ {0}
  BY <1>2 DEF InFlight
<1>5. /\ e \in InFlight /\ e.at = "Enter" /\ e.buf = 2 * d.buf /\ e.id = d.id /\ e.fn = d.fn
      /\ e.sql = d.sql /\ e.stmt = d.stmt /\ e.limit = d.limit /\ e.req = d.req
      /\ e.session = d.session
  BY <1>2, <1>3, <1>4 DEF InFlight
<1>6. PICK f : f = [e EXCEPT !.res = None]
  BY Zenon
<1>7. /\ f \in InFlight /\ f.at = "Enter" /\ f.buf = e.buf /\ f.id = e.id /\ f.fn = e.fn
      /\ f.sql = e.sql /\ f.stmt = e.stmt /\ f.limit = e.limit /\ f.req = e.req
      /\ f.session = e.session
  BY <1>5, <1>6 DEF InFlight
<1>8. f = Larger(c)
  BY <1>1, <1>3, <1>6 DEF Larger
<1> QED
  BY <1>2, <1>5, <1>7, <1>8

LEMMA TooSmallPart ==
  ASSUME LInv, NEW t \in Threads, Busy(t), TooSmall(t)
  PROVE  /\ CallPart(t) /\ outcome'[t] = Idle
         /\ \/ 2 * call[t].buf <= call[t].limit /\ call'[t] = Larger(call[t])
            \/ 2 * call[t].buf > call[t].limit /\ call'[t] = Idle
<1>1. call[t] \in InFlight
  BY Shape DEF LInv
<1>2. CASE 2 * call[t].buf <= call[t].limit
  <2>1. PICK c \in InFlight : c = Larger(call[t]) /\ c.id = call[t].id /\ c.fn = call[t].fn
    BY <1>1, LargerIs
  <2>2. UNCHANGED outcome /\ call' = [call EXCEPT ![t] = c]
    <3>1. ~GivesUp(t)
      <4>1. call[t].buf \in Nat /\ call[t].limit \in Nat
        BY Zenon, <1>1, SizesAssumption DEF InFlight
      <4> QED
        BY <1>2, <4>1 DEF GivesUp
    <3> QED
      BY Zenon, <2>1, <3>1 DEF TooSmall, Larger
  <2> QED
    BY Zenon, <1>2, <2>1, <2>2, GoesOn
<1>3. CASE ~(2 * call[t].buf <= call[t].limit)
  <2>1. 2 * call[t].buf > call[t].limit
    <3>1. call[t].buf \in Nat /\ call[t].limit \in Nat
      BY Zenon, <1>1, SizesAssumption DEF InFlight
    <3> QED
      BY <1>3, <3>1
  <2>2. call' = [call EXCEPT ![t] = Idle] /\ outcome' = [outcome EXCEPT ![t] = Idle]
    BY <2>1 DEF TooSmall, GivesUp
  <2> QED
    BY Zenon, <2>1, <2>2, Returns
<1> QED
  BY <1>2, <1>3

\* A step that does not fail may leave the error slots alone.
LEMMA NoError ==
  ASSUME LInv, NEW t \in Threads, UNCHANGED connErr,
         outcome'[t].at \notin {"Failed", "Unnoted"}
  PROVE  ErrorPart(t)
BY DEF LInv, TypeInv, ErrorPart

LEMMA ErrorSet ==
  ASSUME LInv, NEW t \in Threads, Busy(t), outcome'[t].at # "Unnoted",
         SetConnectionError(call[t]) \/ SetConnectionStructuredError(call[t])
  PROVE  ErrorPart(t)
<1>1. call[t].id \in Ids /\ DOMAIN connErr = Ids
  BY Shape DEF LInv, TypeInv
<1>2. PICK e : connErr' = [connErr EXCEPT ![call[t].id] = e] /\ e.req = call[t].req
  BY DEF SetConnectionError, SetConnectionStructuredError
<1> QED
  BY <1>1, <1>2 DEF ErrorPart

\* What TryWritePending, Answer and the other ends of a call do.
EndPart(t) == CallPart(t) /\ ErrorPart(t) /\ call'[t].at \in {"Idle", "Enter"}

LEMMA Delivered ==
  ASSUME LInv, NEW t \in Threads, Busy(t), NEW data, Deliver(t, data), UNCHANGED connErr
  PROVE  EndPart(t)
<1>1. /\ CallPart(t) /\ call'[t] = Idle
      /\ outcome'[t] = [at |-> "Ok", call |-> Asked(t), data |-> data]
  BY DeliverPart
<1>2. outcome'[t].at = "Ok"
  BY <1>1
<1> QED
  BY <1>1, <1>2, NoError, IdleAt DEF EndPart

LEMMA Failed ==
  ASSUME LInv, NEW t \in Threads, Busy(t), Fail(t),
         SetConnectionError(call[t]) \/ SetConnectionStructuredError(call[t])
  PROVE  EndPart(t)
<1>1. /\ CallPart(t) /\ call'[t] = Idle
      /\ outcome'[t] = [at |-> "Failed", call |-> Asked(t)]
  BY FailPart
<1>2. outcome'[t].at = "Failed"
  BY <1>1
<1> QED
  BY <1>1, <1>2, ErrorSet, IdleAt DEF EndPart

\* The error is put elsewhere.
LEMMA FailedUnnoted ==
  ASSUME LInv, NEW t \in Threads, Busy(t), FailUnnoted(t), UNCHANGED connErr
  PROVE  EndPart(t)
<1>1. /\ CallPart(t) /\ call'[t] = Idle
      /\ outcome'[t] = [at |-> "Unnoted", call |-> Asked(t), slot |-> connErr[call[t].id]]
  BY FailUnnotedPart
<1>2. outcome'[t].at = "Unnoted" /\ outcome'[t].slot = connErr[call[t].id]
  BY <1>1
<1>3. ErrorPart(t)
  BY <1>2 DEF LInv, TypeInv, ErrorPart
<1> QED
  BY <1>1, <1>3, IdleAt DEF EndPart

LEMMA ToldTooSmall ==
  ASSUME LInv, NEW t \in Threads, Busy(t), TooSmall(t), SetConnectionError(call[t])
  PROVE  EndPart(t)
<1>1. call[t] \in InFlight
  BY Shape DEF LInv
<1>2. Larger(call[t]).at = "Enter" /\ ErrorPart(t)
  BY <1>1, LargerIs, ErrorSet, TooSmallPart, IdleAt
<1> QED
  BY <1>2, TooSmallPart, IdleAt DEF EndPart

LEMMA TryWriteEnds ==
  ASSUME LInv, NEW t \in Threads, Busy(t), TryWritePending(t)
  PROVE  EndPart(t)
BY Delivered, Failed, ToldTooSmall DEF TryWritePending

LEMMA AnswerEnds ==
  ASSUME LInv, NEW t \in Threads, Busy(t), NEW data, Answer(t, data)
  PROVE  EndPart(t)
BY Delivered, ToldTooSmall DEF Answer

LEMMA Unlocked ==
  ASSUME LInv, NEW t \in Threads, Unlock(t)
  PROVE  MutexPart(t)
BY NoneAssumption DEF LInv, TypeInv, Unlock, MutexPart

\* A call that has no mutex leaves them alone, and one that keeps it goes on.
LEMMA NotLocked ==
  ASSUME LInv, NEW t \in Threads, UNCHANGED mutex,
         call[t].at \in {"Enter", "Lock", "PutBack", "Report", "Refused"}
  PROVE  MutexPart(t)
BY NoneAssumption DEF LInv, TypeInv, MutexInv, MutexPart

LEMMA StillLocked ==
  ASSUME LInv, NEW t \in Threads, UNCHANGED mutex, call[t].at = "Run", call[t].fn \in Keeping,
         call'[t].at \in {"Error", "Small", "Install"}
  PROVE  MutexPart(t)
BY NoneAssumption DEF LInv, TypeInv, MutexInv, MutexPart
\* The call goes on at another point, in a session and with a result.
Moves(t, at, session, res) ==
    /\ call'[t] \in InFlight
    /\ call'[t].at = at /\ call'[t].session = session /\ call'[t].res = res
    /\ call'[t].fn = call[t].fn /\ call'[t].id = call[t].id /\ call'[t].sql = call[t].sql
    /\ call'[t].stmt = call[t].stmt /\ call'[t].buf = call[t].buf
    /\ call'[t].limit = call[t].limit /\ call'[t].req = call[t].req

MovePart(t, at, session, res) ==
    CallPart(t) /\ Moves(t, at, session, res) /\ outcome'[t] = Idle

LEMMA MovesAt ==
  ASSUME LInv, NEW t \in Threads, Busy(t), UNCHANGED outcome,
         NEW at \in Points, call' = [call EXCEPT ![t].at = at]
  PROVE  MovePart(t, at, call[t].session, call[t].res)
<1>1. call[t] \in InFlight
  BY Shape DEF LInv
<1>2. PICK c : c = [call[t] EXCEPT !.at = at]
  BY Zenon
<1>3. /\ c \in InFlight /\ c.at = at /\ c.session = call[t].session /\ c.res = call[t].res
      /\ c.fn = call[t].fn /\ c.id = call[t].id /\ c.sql = call[t].sql
      /\ c.stmt = call[t].stmt /\ c.buf = call[t].buf
      /\ c.limit = call[t].limit /\ c.req = call[t].req
  BY <1>1, <1>2 DEF InFlight
<1>4. CallPart(t) /\ call'[t] = c /\ outcome'[t] = Idle
  <2>1. call' = [call EXCEPT ![t] = c]
    BY Zenon, <1>2
  <2> QED
    BY Zenon, <1>3, <2>1, GoesOn
<1> QED
  BY <1>3, <1>4 DEF MovePart, Moves

LEMMA MovesAtSession ==
  ASSUME LInv, NEW t \in Threads, Busy(t), UNCHANGED outcome,
         NEW at \in Points, NEW s \in 0 .. MaxSessions,
         call' = [call EXCEPT ![t].at = at, ![t].session = s]
  PROVE  MovePart(t, at, s, call[t].res)
<1>1. call[t] \in InFlight
  BY Shape DEF LInv
<1>2. PICK d : d = [call[t] EXCEPT !.at = at]
  BY Zenon
<1>3. PICK c : c = [d EXCEPT !.session = s]
  BY Zenon
<1>4. /\ d \in InFlight /\ d.at = at /\ d.res = call[t].res
      /\ d.fn = call[t].fn /\ d.id = call[t].id /\ d.sql = call[t].sql
      /\ d.stmt = call[t].stmt /\ d.buf = call[t].buf
      /\ d.limit = call[t].limit /\ d.req = call[t].req
  BY <1>1, <1>2 DEF InFlight
<1>5. /\ c \in InFlight /\ c.at = d.at /\ c.session = s /\ c.res = d.res
      /\ c.fn = d.fn /\ c.id = d.id /\ c.sql = d.sql /\ c.stmt = d.stmt /\ c.buf = d.buf
      /\ c.limit = d.limit /\ c.req = d.req
  BY <1>3, <1>4 DEF InFlight
<1>6. CallPart(t) /\ call'[t] = c /\ outcome'[t] = Idle
  <2>1. c \in InFlight /\ c.id = call[t].id /\ c.fn = call[t].fn
    BY <1>4, <1>5
  <2>2. call' = [call EXCEPT ![t] = c]
    BY Zenon, <1>2, <1>3
  <2> QED
    BY Zenon, <2>1, <2>2, GoesOn
<1> QED
  BY <1>4, <1>5, <1>6 DEF MovePart, Moves

LEMMA MovesAtResult ==
  ASSUME LInv, NEW t \in Threads, Busy(t), UNCHANGED outcome,
         NEW at \in Points, NEW r \in Rows \cup {None},
         call' = [call EXCEPT ![t].at = at, ![t].res = r]
  PROVE  MovePart(t, at, call[t].session, r)
<1>1. call[t] \in InFlight
  BY Shape DEF LInv
<1>2. PICK d : d = [call[t] EXCEPT !.at = at]
  BY Zenon
<1>3. PICK c : c = [d EXCEPT !.res = r]
  BY Zenon
<1>4. /\ d \in InFlight /\ d.at = at /\ d.session = call[t].session
      /\ d.fn = call[t].fn /\ d.id = call[t].id /\ d.sql = call[t].sql
      /\ d.stmt = call[t].stmt /\ d.buf = call[t].buf
      /\ d.limit = call[t].limit /\ d.req = call[t].req
  BY <1>1, <1>2 DEF InFlight
<1>5. /\ c \in InFlight /\ c.at = d.at /\ c.session = d.session /\ c.res = r
      /\ c.fn = d.fn /\ c.id = d.id /\ c.sql = d.sql /\ c.stmt = d.stmt /\ c.buf = d.buf
      /\ c.limit = d.limit /\ c.req = d.req
  BY <1>3, <1>4 DEF InFlight
<1>6. CallPart(t) /\ call'[t] = c /\ outcome'[t] = Idle
  <2>1. c \in InFlight /\ c.id = call[t].id /\ c.fn = call[t].fn
    BY <1>4, <1>5
  <2>2. call' = [call EXCEPT ![t] = c]
    BY Zenon, <1>2, <1>3
  <2> QED
    BY Zenon, <2>1, <2>2, GoesOn
<1> QED
  BY <1>4, <1>5, <1>6 DEF MovePart, Moves

LEMMA Dropped ==
  ASSUME NEW f, NEW xs, NEW S, f \in [DOMAIN f -> S]
  PROVE  /\ DOMAIN Drop(f, xs) = DOMAIN f \ xs
         /\ Drop(f, xs) \in [DOMAIN f \ xs -> S]
         /\ \A x \in DOMAIN f \ xs : Drop(f, xs)[x] = f[x]
BY DEF Drop, Restrict

LEMMA PutIn ==
  ASSUME NEW f, NEW x, NEW v, NEW S, f \in [DOMAIN f -> S], v \in S
  PROVE  /\ DOMAIN Put(f, x, v) = DOMAIN f \cup {x}
         /\ Put(f, x, v) \in [DOMAIN f \cup {x} -> S]
         /\ Put(f, x, v)[x] = v
         /\ \A y \in DOMAIN f \ {x} : Put(f, x, v)[y] = f[y]
BY DEF Put-----------------------------------------------------------------------------
(* LInv is inductive.                                                      *)

LEMMA EndKeeps ==
  ASSUME LInv, NEW t \in Threads, Busy(t), EndPart(t), MutexPart(t),
         UNCHANGED <<live, holder, shared, sessions, statements, prepared, requests>>
  PROVE  LInv'
BY StepKeeps DEF EndPart, LInv, TypeInv

LEMMA MoveKeeps ==
  ASSUME LInv, NEW t \in Threads, Busy(t), MutexPart(t), UNCHANGED connErr,
         NEW at, NEW s, NEW r, MovePart(t, at, s, r),
         UNCHANGED <<live, holder, shared, sessions, statements, prepared, requests>>
  PROVE  LInv'
<1>1. ErrorPart(t)
  BY NoError, IdleAt DEF MovePart
<1> QED
  BY <1>1, StepKeeps DEF MovePart, LInv, TypeInv

LEMMA LiveIs ==
  ASSUME LInv, NEW i \in DOMAIN live
  PROVE  live[i] \in 0 .. MaxSessions
BY DEF LInv, TypeInv

LEMMA Reaches ==
  ASSUME NEW i, NEW at \in Reached(i)
  PROVE  at \in Points
BY DEF Reached, Points

LEMMA Goes ==
  ASSUME LInv, NEW t \in Threads, Busy(t), GoOn(t)
  PROVE  \E at : MovePart(t, at, live[call[t].id], call[t].res)
<1>1. PICK at \in Reached(call[t].id) :
         call' = [call EXCEPT ![t].at = at, ![t].session = live[call[t].id]]
  BY Zenon DEF GoOn
<1>2. live[call[t].id] \in 0 .. MaxSessions /\ UNCHANGED outcome
  BY LiveIs DEF GoOn
<1> QED
  BY Zenon, <1>1, <1>2, Reaches, MovesAtSession

LEMMA ExecQueryKeeps ==
  ASSUME LInv, NEW t \in Threads, ExecQuery(t)
  PROVE  LInv'
<1> DEFINE i == call[t].id
<1>1. Busy(t) /\ MutexPart(t)
  BY NotLocked DEF ExecQuery, Entering, At, Busy
<1>2. UNCHANGED <<holder, shared, sessions, statements, prepared, requests>>
  BY DEF ExecQuery
<1>3. CASE Hit(t) /\ TryWritePending(t) /\ UNCHANGED live
  BY <1>1, <1>2, <1>3, TryWriteEnds, EndKeeps
<1>4. CASE SetConnectionError(call[t]) /\ Fail(t) /\ UNCHANGED <<live, pending>>
  BY <1>1, <1>2, <1>4, Failed, EndKeeps
<1>5. CASE /\ i \in DOMAIN live
           /\ \E at \in Reached(i) :
                 call' = [call EXCEPT ![t].at = at, ![t].session = live[i]]
           /\ live' = Drop(live, {i} \cap PooledIds)
           /\ UNCHANGED <<pending, connErr, outcome>>
  <2>1. PICK at \in Reached(i) : call' = [call EXCEPT ![t].at = at, ![t].session = live[i]]
    BY Zenon, <1>5
  <2>2. at \in Points
    BY Zenon, Reaches
  <2>3. MovePart(t, at, live[i], call[t].res)
    BY Zenon, <1>1, <1>5, <2>1, <2>2, LiveIs, MovesAtSession
  <2>4. live' \in [DOMAIN live' -> 0 .. MaxSessions]
    BY Zenon, <1>5, Dropped DEF LInv, TypeInv
  <2>5. ErrorPart(t)
    BY <1>5, <2>3, NoError, IdleAt DEF MovePart
  <2> QED
    BY <1>1, <1>2, <2>3, <2>4, <2>5, StepKeeps DEF MovePart
<1> QED
  BY <1>3, <1>4, <1>5 DEF ExecQuery

LEMMA LockConnectionKeeps ==
  ASSUME LInv, NEW t \in Threads, LockConnection(t)
  PROVE  LInv'
<1>1. /\ Busy(t) /\ call[t].at = "Lock" /\ "Run" \in Points /\ "Refused" \in Points
      /\ UNCHANGED <<connErr, outcome>>
  BY DEF LockConnection, At, Busy, Points
<1>2. UNCHANGED <<live, holder, shared, sessions, statements, prepared, requests>>
  BY DEF LockConnection, tables
<1>3. CASE /\ mutex' = [mutex EXCEPT ![call[t].id] = t]
           /\ call' = [call EXCEPT ![t].at = "Run"]
  <2>1. MovePart(t, "Run", call[t].session, call[t].res)
    BY Zenon, <1>1, <1>3, MovesAt
  <2>2. call[t].id \in Ids /\ mutex[call[t].id] = None
    BY <1>1, Shape DEF LInv, LockConnection
  <2>3. \A i \in Ids : mutex[i] # t
    BY <1>1, <2>2, NoneAssumption DEF LInv, MutexInv
  <2>4. MutexPart(t)
    BY <1>3, <2>1, <2>2, <2>3 DEF LInv, TypeInv, MutexPart, MovePart, Moves
  <2> QED
    BY Zenon, <1>1, <1>2, <2>1, <2>4, MoveKeeps
<1>4. CASE call' = [call EXCEPT ![t].at = "Refused"] /\ UNCHANGED mutex
  <2>1. MovePart(t, "Refused", call[t].session, call[t].res)
    BY Zenon, <1>1, <1>4, MovesAt
  <2>2. MutexPart(t)
    BY <1>1, <1>4, NotLocked
  <2> QED
    BY Zenon, <1>1, <1>2, <2>1, <2>2, MoveKeeps
<1> QED
  BY <1>3, <1>4 DEF LockConnection

LEMMA RefusedReportKeeps ==
  ASSUME LInv, NEW t \in Threads, RefusedReport(t)
  PROVE  LInv'
<1>1. Busy(t) /\ MutexPart(t)
  BY NotLocked DEF RefusedReport, At, Busy
<1>2. EndPart(t)
  BY <1>1, Failed, FailedUnnoted DEF RefusedReport, SetError
<1> QED
  BY <1>1, <1>2, EndKeeps DEF RefusedReport, tables

LEMMA ResultIn ==
  ASSUME LInv, NEW t \in Threads, Busy(t), NEW size \in Sizes
  PROVE  Result(t, size) \in Rows
<1>1. call[t] \in InFlight
  BY Shape DEF LInv
<1>2. Format(call[t].fn) \in Formats
  BY DEF Format, Formats
<1> QED
  BY <1>1, <1>2 DEF InFlight, Result, Rows

LEMMA QueryRunKeeps ==
  ASSUME LInv, NEW t \in Threads, NEW size \in Sizes, QueryRun(t, size)
  PROVE  LInv'
<1>1. Busy(t) /\ MutexPart(t) /\ UNCHANGED <<connErr, outcome>>
  BY Unlocked DEF QueryRun, At, Busy
<1>2. UNCHANGED <<live, holder, shared, sessions, statements, prepared, requests>>
  BY DEF QueryRun, tables
<1>3. PICK r \in Rows \cup {None} :
         call' = [call EXCEPT ![t].at = IF call[t].id \in PooledIds THEN "PutBack"
                                        ELSE AfterRun(r), ![t].res = r]
  BY Zenon, <1>1, ResultIn DEF QueryRun
<1>4. PICK at : at = IF call[t].id \in PooledIds THEN "PutBack" ELSE AfterRun(r)
  BY Zenon
<1>5. at \in Points
  BY <1>4 DEF AfterRun, Points
<1>6. MovePart(t, at, call[t].session, r)
  BY Zenon, <1>1, <1>3, <1>4, <1>5, MovesAtResult
<1> QED
  BY Zenon, <1>1, <1>2, <1>6, MoveKeeps

LEMMA QueryPutBackKeeps ==
  ASSUME LInv, NEW t \in Threads, QueryPutBack(t)
  PROVE  LInv'
<1>1. Busy(t) /\ MutexPart(t) /\ UNCHANGED <<connErr, outcome>>
  BY NotLocked DEF QueryPutBack, At, Busy
<1>2. UNCHANGED <<holder, shared, sessions, statements, prepared, requests>>
  BY DEF QueryPutBack
<1>3. AfterRun(call[t].res) \in Points
  BY DEF AfterRun, Points
<1>4. MovePart(t, AfterRun(call[t].res), call[t].session, call[t].res)
  BY Zenon, <1>1, <1>3, MovesAt DEF QueryPutBack
<1>5. call[t].session \in 0 .. MaxSessions
  BY <1>1, Shape DEF LInv, InFlight
<1>6. live' \in [DOMAIN live' -> 0 .. MaxSessions]
  <2>1. live \in [DOMAIN live -> 0 .. MaxSessions]
    BY DEF LInv, TypeInv
  <2>2. PICK f : f = Put(live, call[t].id, call[t].session)
    BY Zenon
  <2>3. f \in [DOMAIN live \cup {call[t].id} -> 0 .. MaxSessions]
    BY Zenon, <1>5, <2>1, <2>2, PutIn
  <2> QED
    BY <2>2, <2>3 DEF QueryPutBack
<1>7. ErrorPart(t)
  BY <1>1, <1>4, NoError, IdleAt DEF MovePart
<1> QED
  BY Zenon, <1>1, <1>2, <1>4, <1>6, <1>7, StepKeeps DEF MovePart

LEMMA QueryReportKeeps ==
  ASSUME LInv, NEW t \in Threads, QueryReport(t)
  PROVE  LInv'
<1>1. Busy(t) /\ MutexPart(t)
  BY NotLocked DEF QueryReport, At, Busy
<1>2. EndPart(t)
  BY Zenon, <1>1, AnswerEnds DEF QueryReport
<1> QED
  BY <1>1, <1>2, EndKeeps DEF QueryReport, tables

LEMMA ErrorReportKeeps ==
  ASSUME LInv, NEW t \in Threads, ErrorReport(t)
  PROVE  LInv'
<1>1. Busy(t) /\ MutexPart(t)
  BY Unlocked DEF ErrorReport, At, Busy
<1>2. EndPart(t)
  BY <1>1, Failed DEF ErrorReport
<1> QED
  BY <1>1, <1>2, EndKeeps DEF ErrorReport, tables

LEMMA GoOnKeeps ==
  ASSUME LInv, NEW t \in Threads, Busy(t), MutexPart(t), GoOn(t),
         UNCHANGED <<live, holder, shared, sessions, statements, prepared, requests>>
  PROVE  LInv'
<1>1. PICK at : MovePart(t, at, live[call[t].id], call[t].res)
  BY Zenon, Goes
<1>2. UNCHANGED connErr
  BY DEF GoOn
<1> QED
  BY Zenon, <1>1, <1>2, MoveKeeps

LEMMA EnterHoldingKeeps ==
  ASSUME LInv, NEW t \in Threads, NEW fn, EnterHolding(t, fn)
  PROVE  LInv'
<1>1. Busy(t) /\ MutexPart(t)
  BY NotLocked DEF EnterHolding, Entering, At, Busy
<1>2. UNCHANGED <<live, holder, shared, sessions, statements, prepared, requests>>
  BY DEF EnterHolding, tables
<1>3. CASE TryWritePending(t)
  BY <1>1, <1>2, <1>3, TryWriteEnds, EndKeeps
<1>4. CASE GoOn(t)
  BY <1>1, <1>2, <1>4, GoOnKeeps
<1>5. CASE InvalidId(t)
  BY <1>1, <1>2, <1>5, Failed, EndKeeps DEF InvalidId
<1> QED
  BY <1>3, <1>4, <1>5 DEF EnterHolding

LEMMA ExecQueryMultiParamsKeeps ==
  ASSUME LInv, NEW t \in Threads, ExecQueryMultiParams(t)
  PROVE  LInv'
<1>1. CASE EnterHolding(t, "mparams")
  BY <1>1, EnterHoldingKeeps
<1>2. CASE /\ Entering(t, "mparams") /\ call[t].buf = 1
           /\ SetConnectionError(call[t]) /\ Fail(t)
           /\ UNCHANGED <<tables, pending, cached, global, mutex, requests, owed>>
  <2>1. Busy(t) /\ MutexPart(t)
    BY <1>2, NotLocked DEF Entering, At, Busy
  <2> QED
    BY <1>2, <2>1, Failed, EndKeeps DEF tables
<1> QED
  BY <1>1, <1>2 DEF ExecQueryMultiParams

LEMMA ExecuteKeeps ==
  ASSUME LInv, NEW t \in Threads, Execute(t)
  PROVE  LInv'
<1>1. CASE EnterHolding(t, "execute")
  BY <1>1, EnterHoldingKeeps
<1>2. CASE /\ Entering(t, "execute")
           /\ outcome' = [outcome EXCEPT ![t] = Idle]
           /\ call' = [call EXCEPT ![t] = Idle]
           /\ UNCHANGED <<tables, connErr, pending, cached, global, mutex, requests, owed>>
  <2>1. Busy(t) /\ MutexPart(t)
    BY <1>2, NotLocked DEF Entering, At, Busy
  <2>2. CallPart(t) /\ call'[t] = Idle /\ outcome'[t] = Idle
    BY Zenon, <1>2, <2>1, Returns
  <2>3. EndPart(t)
    BY <1>2, <2>2, NoError, IdleAt DEF EndPart
  <2> QED
    BY <1>2, <2>1, <2>3, EndKeeps DEF tables
<1> QED
  BY <1>1, <1>2 DEF Execute

LEMMA HeldRunKeeps ==
  ASSUME LInv, NEW t \in Threads, NEW size \in Sizes, HeldRun(t, size)
  PROVE  LInv'
<1>1. Busy(t) /\ MutexPart(t) /\ "Error" \in Points
  BY Unlocked DEF HeldRun, At, Busy, Points
<1>2. UNCHANGED <<live, holder, shared, sessions, statements, prepared, requests>>
  BY DEF HeldRun, tables
<1>3. CASE Answer(t, Result(t, size))
  BY <1>1, <1>2, <1>3, AnswerEnds, EndKeeps
<1>4. CASE /\ call' = [call EXCEPT ![t].at = "Error"]
           /\ UNCHANGED <<pending, connErr, outcome>>
  BY Zenon, <1>1, <1>2, <1>4, MovesAt, MoveKeeps
<1> QED
  BY <1>3, <1>4 DEF HeldRun
LEMMA EnterKeepingKeeps ==
  ASSUME LInv, NEW t \in Threads, NEW fn, EnterKeeping(t, fn)
  PROVE  LInv'
<1>1. Busy(t) /\ MutexPart(t)
  BY NotLocked DEF EnterKeeping, Entering, At, Busy
<1>2. UNCHANGED <<live, holder, shared, sessions, statements, prepared, requests>>
  BY DEF EnterKeeping, tables
<1>3. CASE GoOn(t)
  BY <1>1, <1>2, <1>3, GoOnKeeps
<1>4. CASE SetConnectionError(call[t]) /\ Fail(t)
  BY <1>1, <1>2, <1>4, Failed, EndKeeps
<1> QED
  BY <1>3, <1>4 DEF EnterKeeping

LEMMA ParamsRunKeeps ==
  ASSUME LInv, NEW t \in Threads, NEW size \in Sizes, ParamsRun(t, size)
  PROVE  LInv'
<1>1. /\ Busy(t) /\ call[t].at = "Run" /\ call[t].fn \in Keeping
      /\ "Error" \in Points
  BY DEF ParamsRun, At, Busy, Points, Keeping
<1>2. UNCHANGED <<live, holder, shared, sessions, statements, prepared, requests>>
  BY DEF ParamsRun, tables
<1>3. CASE TryWritePending(t) /\ Unlock(t)
  BY <1>1, <1>2, <1>3, TryWriteEnds, Unlocked, EndKeeps
<1>4. CASE Answer(t, Result(t, size)) /\ Unlock(t)
  BY Zenon, <1>1, <1>2, <1>4, AnswerEnds, Unlocked, EndKeeps
<1>5. CASE /\ call' = [call EXCEPT ![t].at = "Error"]
           /\ UNCHANGED <<pending, connErr, outcome, mutex>>
  <2>1. MovePart(t, "Error", call[t].session, call[t].res)
    BY Zenon, <1>1, <1>5, MovesAt
  <2>2. MutexPart(t)
    BY <1>1, <1>5, <2>1, StillLocked DEF MovePart, Moves
  <2> QED
    BY Zenon, <1>1, <1>2, <1>5, <2>1, <2>2, MoveKeeps
<1> QED
  BY <1>3, <1>4, <1>5 DEF ParamsRun

LEMMA CatalogColumnsKeeps ==
  ASSUME LInv, NEW t \in Threads, CatalogColumns(t)
  PROVE  LInv'
<1>1. CASE EnterKeeping(t, "columns")
  BY <1>1, EnterKeepingKeeps
<1>2. CASE /\ Entering(t, "columns")
           /\ IF cached[call[t].id].size <= call[t].buf
              THEN Deliver(t, cached[call[t].id])
              ELSE call' = [call EXCEPT ![t].at = "Small"] /\ UNCHANGED outcome
           /\ UNCHANGED <<tables, pending, cached, connErr, global, mutex, requests, owed>>
  <2>1. Busy(t) /\ MutexPart(t) /\ UNCHANGED connErr /\ "Small" \in Points
    BY <1>2, NotLocked DEF Entering, At, Busy, Points
  <2>2. UNCHANGED <<live, holder, shared, sessions, statements, prepared, requests>>
    BY <1>2 DEF tables
  <2>3. CASE Deliver(t, cached[call[t].id])
    BY Zenon, <2>1, <2>2, <2>3, Delivered, EndKeeps
  <2>4. CASE call' = [call EXCEPT ![t].at = "Small"] /\ UNCHANGED outcome
    BY Zenon, <2>1, <2>2, <2>4, MovesAt, MoveKeeps
  <2> QED
    BY <1>2, <2>3, <2>4
<1> QED
  BY <1>1, <1>2 DEF CatalogColumns

LEMMA CatalogRunKeeps ==
  ASSUME LInv, NEW t \in Threads, NEW size \in Sizes, CatalogRun(t, size)
  PROVE  LInv'
<1>1. /\ Busy(t) /\ call[t].at = "Run" /\ call[t].fn \in Keeping /\ UNCHANGED connErr
      /\ "Error" \in Points /\ "Small" \in Points
  BY DEF CatalogRun, At, Busy, Points, Keeping
<1>2. UNCHANGED <<live, holder, shared, sessions, statements, prepared, requests>>
  BY DEF CatalogRun, tables
<1>3. CASE Deliver(t, Result(t, size)) /\ Unlock(t)
  BY Zenon, <1>1, <1>2, <1>3, Delivered, Unlocked, EndKeeps
<1>4. ASSUME NEW at \in {"Small", "Error"}, call' = [call EXCEPT ![t].at = at],
             UNCHANGED <<outcome, mutex>>
      PROVE  LInv'
  <2>1. MovePart(t, at, call[t].session, call[t].res)
    BY Zenon, <1>1, <1>4, MovesAt
  <2>2. MutexPart(t)
    BY <1>1, <1>4, <2>1, StillLocked DEF MovePart, Moves
  <2> QED
    BY Zenon, <1>1, <1>2, <1>4, <2>1, <2>2, MoveKeeps
<1> QED
  BY Zenon, <1>3, <1>4 DEF CatalogRun

LEMMA SmallReportKeeps ==
  ASSUME LInv, NEW t \in Threads, SmallReport(t)
  PROVE  LInv'
<1>1. Busy(t) /\ MutexPart(t)
  BY Unlocked DEF SmallReport, At, Busy
<1>2. EndPart(t)
  BY <1>1, ToldTooSmall DEF SmallReport
<1> QED
  BY <1>1, <1>2, EndKeeps DEF SmallReport, tables

LEMMA StreamRunKeeps ==
  ASSUME LInv, NEW t \in Threads, StreamRun(t)
  PROVE  LInv'
<1>1. /\ Busy(t) /\ call[t].at = "Run" /\ call[t].fn \in Keeping
      /\ UNCHANGED <<connErr, mutex, outcome>>
  BY DEF StreamRun, At, Busy, Keeping
<1>2. UNCHANGED <<live, holder, shared, sessions, statements, prepared, requests>>
  BY DEF StreamRun, tables
<1>3. PICK at \in {"Install", "Error"} : call' = [call EXCEPT ![t].at = at]
  BY Zenon DEF StreamRun
<1>4. MovePart(t, at, call[t].session, call[t].res)
  <2>1. at \in Points
    BY DEF Points
  <2> QED
    BY Zenon, <1>1, <1>3, <2>1, MovesAt
<1>5. MutexPart(t)
  BY <1>1, <1>4, StillLocked DEF MovePart, Moves
<1> QED
  BY Zenon, <1>1, <1>2, <1>4, <1>5, MoveKeeps

LEMMA StreamInstallKeeps ==
  ASSUME LInv, NEW t \in Threads, StreamInstall(t)
  PROVE  LInv'
<1>1. Busy(t) /\ MutexPart(t)
  BY Unlocked DEF StreamInstall, At, Busy
<1>2. EndPart(t)
  BY <1>1, Delivered, Failed DEF StreamInstall
<1> QED
  BY <1>1, <1>2, EndKeeps DEF StreamInstall
\* A call that is one critical section.  It changes the holder and the error slot
\* only of a connection that is free, shared or its thread's own.
LEMMA CallingKeeps ==
  ASSUME LInv, NEW t \in Threads, Calling(t), UNCHANGED shared,
         live' \in [DOMAIN live' -> 0 .. MaxSessions],
         statements' \in [DOMAIN statements' -> [id : Ids, sql : Singles]],
         DOMAIN statements' \subseteq StmtIds,
         sessions' \in 0 .. MaxSessions, prepared' \in Nat,
         holder' \in [Ids -> Threads \cup {None}], DOMAIN connErr' = Ids,
         \A i \in Ids \ shared : holder[i] \notin {None, t} =>
             holder'[i] = holder[i] /\ connErr'[i] = connErr[i]
  PROVE  LInv'
<1>1. /\ UNCHANGED <<mutex, call, requests, shared>> /\ TypeInv /\ ~Busy(t) /\ Idle.at = "Idle"
      /\ DOMAIN outcome' = Threads /\ outcome'[t] = Idle
      /\ \A u \in Threads \ {t} : outcome'[u] = outcome[u]
  BY IdleAt DEF LInv, TypeInv, Calling, At, Busy
<1>2. TypeInv'
  BY <1>1 DEF TypeInv
<1>3. ASSUME NEW u \in Threads PROVE CallInv(u)'
  <2>1. CASE u = t
    BY <1>1, <2>1 DEF CallInv, Busy
  <2>2. CASE u # t /\ Busy(u)
    BY <1>1, <2>2, Shape, NoneAssumption DEF LInv, CallInv, Busy
  <2>3. CASE ~Busy(u)
    BY <1>1, <2>3 DEF CallInv, Busy
  <2> QED
    BY <2>1, <2>2, <2>3
<1>4. ASSUME NEW u \in Threads PROVE OutcomeInv(u)'
  <2>1. CASE u = t
    BY <1>1, <2>1 DEF OutcomeInv
  <2>2. CASE u # t
    BY <1>1, <2>2, NoneAssumption DEF LInv, OutcomeInv
  <2> QED
    BY <2>1, <2>2
<1>5. ASSUME NEW i \in Ids PROVE MutexInv(i)'
  BY <1>1 DEF LInv, MutexInv
<1> QED
  BY <1>2, <1>3, <1>4, <1>5 DEF LInv

LEMMA Types ==
  ASSUME LInv
  PROVE  /\ live \in [DOMAIN live -> 0 .. MaxSessions]
         /\ statements \in [DOMAIN statements -> [id : Ids, sql : Singles]]
         /\ DOMAIN statements \subseteq StmtIds
         /\ sessions \in 0 .. MaxSessions /\ prepared \in Nat
         /\ holder \in [Ids -> Threads \cup {None}] /\ DOMAIN connErr = Ids
BY DEF LInv, TypeInv

LEMMA OpenKeeps ==
  ASSUME LInv, NEW t \in Threads, NEW i \in Ids, Connect(t, i) \/ PoolGet(t, i)
  PROVE  LInv'
<1>1. /\ Calling(t) /\ sessions < MaxSessions /\ holder[i] = None
      /\ live' = Put(live, i, sessions + 1) /\ holder' = [holder EXCEPT ![i] = t]
      /\ sessions' = sessions + 1
      /\ UNCHANGED <<shared, statements, prepared, connErr>>
  BY DEF Connect, PoolGet, create_connection
<1>2. sessions + 1 \in 0 .. MaxSessions
  BY <1>1, Types, BoundsAssumption
<1>3. live' \in [DOMAIN live' -> 0 .. MaxSessions]
  <2>1. PICK f : f = Put(live, i, sessions + 1)
    BY Zenon
  <2>2. f \in [DOMAIN live \cup {i} -> 0 .. MaxSessions]
    BY Zenon, <1>2, <2>1, PutIn, Types
  <2> QED
    BY <1>1, <2>1, <2>2
<1>4. holder' \in [Ids -> Threads \cup {None}] /\ \A j \in Ids \ {i} : holder'[j] = holder[j]
  BY <1>1, Types
<1>5. /\ statements' \in [DOMAIN statements' -> [id : Ids, sql : Singles]]
      /\ DOMAIN statements' \subseteq StmtIds
      /\ prepared' \in Nat /\ DOMAIN connErr' = Ids
  BY <1>1, Types
<1> QED
  BY <1>1, <1>2, <1>3, <1>4, <1>5, CallingKeeps

LEMMA StatementsDropped ==
  ASSUME LInv, NEW xs, statements' = Drop(statements, xs)
  PROVE  /\ statements' \in [DOMAIN statements' -> [id : Ids, sql : Singles]]
         /\ DOMAIN statements' \subseteq StmtIds
<1>1. PICK f : f = Drop(statements, xs)
  BY Zenon
<1>2. /\ f \in [DOMAIN statements \ xs -> [id : Ids, sql : Singles]]
  BY Zenon, <1>1, Dropped, Types
<1> QED
  BY <1>1, <1>2, Types

LEMMA LiveDropped ==
  ASSUME LInv, NEW xs, live' = Drop(live, xs)
  PROVE  live' \in [DOMAIN live' -> 0 .. MaxSessions]
<1>1. PICK f : f = Drop(live, xs)
  BY Zenon
<1>2. f \in [DOMAIN live \ xs -> 0 .. MaxSessions]
  BY Zenon, <1>1, Dropped, Types
<1> QED
  BY <1>1, <1>2

LEMMA DisconnectKeeps ==
  ASSUME LInv, NEW t \in Threads, NEW i \in Ids, Disconnect(t, i)
  PROVE  LInv'
<1>1. /\ Calling(t) /\ (i \in Ids \ shared => holder[i] = t)
      /\ UNCHANGED <<holder, shared, sessions, prepared>>
  BY DEF Disconnect, Uses
<1>2. PICK e : connErr' = [connErr EXCEPT ![i] = e]
  BY DEF Disconnect, SetConnectionError
<1>3. DOMAIN connErr' = Ids /\ \A j \in Ids \ {i} : connErr'[j] = connErr[j]
  BY <1>2, Types
<1>4. live' \in [DOMAIN live' -> 0 .. MaxSessions]
  BY LiveDropped, Types DEF Disconnect, remove_connection
<1>5. /\ statements' \in [DOMAIN statements' -> [id : Ids, sql : Singles]]
      /\ DOMAIN statements' \subseteq StmtIds
  BY StatementsDropped, Types DEF Disconnect
<1>6. sessions' \in 0 .. MaxSessions /\ prepared' \in Nat /\ holder' \in [Ids -> Threads \cup {None}]
  BY <1>1, Types
<1> QED
  BY <1>1, <1>3, <1>4, <1>5, <1>6, CallingKeeps

LEMMA PoolReleaseKeeps ==
  ASSUME LInv, NEW t \in Threads, NEW i \in Ids, PoolRelease(t, i)
  PROVE  LInv'
<1>1. /\ Calling(t) /\ (i \in Ids \ shared => holder[i] = t)
      /\ holder' = [holder EXCEPT ![i] = None] /\ live' = Drop(live, {i})
      /\ statements' = Drop(statements, StatementsOf(i))
      /\ UNCHANGED <<shared, sessions, prepared, connErr>>
  BY DEF PoolRelease, Uses
<1>2. holder' \in [Ids -> Threads \cup {None}] /\ \A j \in Ids \ {i} : holder'[j] = holder[j]
  BY <1>1, Types
<1>3. live' \in [DOMAIN live' -> 0 .. MaxSessions]
  BY Zenon, <1>1, LiveDropped
<1>4. /\ statements' \in [DOMAIN statements' -> [id : Ids, sql : Singles]]
      /\ DOMAIN statements' \subseteq StmtIds
  BY Zenon, <1>1, StatementsDropped
<1>5. sessions' \in 0 .. MaxSessions /\ prepared' \in Nat /\ DOMAIN connErr' = Ids
  BY <1>1, Types
<1> QED
  BY Zenon, <1>1, <1>2, <1>3, <1>4, <1>5, CallingKeeps

LEMMA PrepareKeeps ==
  ASSUME LInv, NEW t \in Threads, NEW i \in Ids, NEW sql \in Singles, Prepare(t, i, sql)
  PROVE  LInv'
<1>1. /\ Calling(t) /\ (i \in Ids \ shared => holder[i] = t) /\ prepared < MaxStmts
      /\ UNCHANGED <<live, holder, shared, sessions>>
  BY DEF Prepare, Uses
<1>2. /\ live' \in [DOMAIN live' -> 0 .. MaxSessions] /\ sessions' \in 0 .. MaxSessions
      /\ holder' \in [Ids -> Threads \cup {None}]
  BY <1>1, Types
<1>3. CASE /\ prepared' = prepared + 1
           /\ statements' = Put(statements, prepared + 1, [id |-> i, sql |-> sql])
           /\ UNCHANGED connErr
  <2>1. prepared + 1 \in StmtIds /\ prepared' \in Nat
    BY <1>1, <1>3, Types, BoundsAssumption DEF StmtIds
  <2>2. PICK n : n = prepared + 1
    BY Zenon
  <2>3. PICK f : f = Put(statements, n, [id |-> i, sql |-> sql])
    BY Zenon
  <2>4. [id |-> i, sql |-> sql] \in [id : Ids, sql : Singles]
    OBVIOUS
  <2>5. f \in [DOMAIN statements \cup {n} -> [id : Ids, sql : Singles]]
    BY Zenon, <2>3, <2>4, PutIn, Types
  <2>6. /\ statements' \in [DOMAIN statements' -> [id : Ids, sql : Singles]]
        /\ DOMAIN statements' \subseteq StmtIds
    BY <1>3, <2>1, <2>2, <2>3, <2>5, Types
  <2>7. DOMAIN connErr' = Ids
    BY <1>3, Types
  <2> QED
    BY <1>1, <1>2, <1>3, <2>1, <2>6, <2>7, CallingKeeps
<1>4. CASE SetConnectionError([id |-> i, req |-> 0]) /\ UNCHANGED <<prepared, statements>>
  <2>1. PICK e : connErr' = [connErr EXCEPT ![i] = e]
    BY Zenon, <1>4 DEF SetConnectionError
  <2>2. DOMAIN connErr' = Ids /\ \A j \in Ids \ {i} : connErr'[j] = connErr[j]
    BY <2>1, Types
  <2>3. /\ statements' \in [DOMAIN statements' -> [id : Ids, sql : Singles]]
        /\ DOMAIN statements' \subseteq StmtIds /\ prepared' \in Nat
    BY <1>4, Types
  <2> QED
    BY <1>1, <1>2, <2>2, <2>3, CallingKeeps
<1> QED
  BY <1>3, <1>4 DEF Prepare
\* The calls that change statements at most.
LEMMA StatementCallKeeps ==
  ASSUME LInv, NEW t \in Threads, Calling(t),
         \/ statements' = <<>>
         \/ UNCHANGED statements
         \/ \E s : statements' = Drop(statements, {s}),
         UNCHANGED <<live, holder, shared, sessions, prepared, connErr>>
  PROVE  LInv'
<1>1. /\ live' \in [DOMAIN live' -> 0 .. MaxSessions] /\ sessions' \in 0 .. MaxSessions
      /\ holder' \in [Ids -> Threads \cup {None}] /\ prepared' \in Nat /\ DOMAIN connErr' = Ids
  BY Types
<1>2. /\ statements' \in [DOMAIN statements' -> [id : Ids, sql : Singles]]
      /\ DOMAIN statements' \subseteq StmtIds
  <2>1. CASE statements' = <<>>
    BY <2>1
  <2>2. CASE UNCHANGED statements
    BY <2>2, Types
  <2>3. CASE \E s : statements' = Drop(statements, {s})
    BY Zenon, <2>3, StatementsDropped
  <2> QED
    BY Zenon, <2>1, <2>2, <2>3
<1> QED
  BY <1>1, <1>2, CallingKeeps

LEMMA OtherKeeps ==
  ASSUME LInv, NEW t \in Threads, Other(t)
  PROVE  LInv'
<1>1. ASSUME NEW i \in Shareable, Share(t, i) PROVE LInv'
  BY <1>1, ShareKeeps
<1>2. ASSUME NEW i \in Ids,
             Connect(t, i) \/ Disconnect(t, i) \/ PoolGet(t, i) \/ PoolRelease(t, i)
      PROVE  LInv'
  BY <1>2, OpenKeeps, DisconnectKeeps, PoolReleaseKeeps
<1>3. ASSUME NEW s, CloseStatement(t, s) PROVE LInv'
  BY Zenon, <1>3, StatementCallKeeps DEF CloseStatement
<1>4. CASE ClearAllStatements(t)
  BY Zenon, <1>4, StatementCallKeeps DEF ClearAllStatements
<1>5. CASE MetadataCacheClear(t) \/ MetadataCacheEnable(t)
  <2>1. /\ Calling(t)
        /\ UNCHANGED <<live, holder, shared, sessions, statements, prepared, connErr>>
    BY <1>5 DEF MetadataCacheClear, MetadataCacheEnable, tables
  <2> QED
    BY <2>1, StatementCallKeeps
<1> QED
  BY <1>1, <1>2, <1>3, <1>4, <1>5, PrepareKeeps DEF Other, Ids

LEMMA EnterKeeps ==
  ASSUME LInv, NEW t \in Threads, Enter(t)
  PROVE  LInv'
BY ExecQueryKeeps, EnterKeepingKeeps, EnterHoldingKeeps, ExecQueryMultiParamsKeeps,
   ExecuteKeeps, CatalogColumnsKeeps
   DEF Enter, ExecQueryParams, ExecQueryMulti, CatalogTables, CatalogTypeInfo,
       CatalogPrimaryKeys, CatalogForeignKeys, CatalogIndexes, StreamStart

LEMMA RequestKeeps ==
  ASSUME LInv, NEW t \in Threads, NEW limit \in Limits, Request(t, limit)
  PROVE  LInv'
<1>1. \A s \in DOMAIN statements :
         statements[s].id \in Ids /\ statements[s].sql \in Singles /\ s \in StmtIds
  BY DEF LInv, TypeInv
<1>2. {"query", "params", "multi", "mparams", "execute", "catalog", "columns", "stream"} = Fns
  BY DEF Fns
<1> QED
  BY Zenon, <1>1, <1>2, BeginKeeps DEF Request, Sqls

LEMMA NextKeeps ==
  ASSUME LInv, [Next]_vars
  PROVE  LInv'
<1>1. ASSUME UNCHANGED <<live, holder, shared, sessions, statements, prepared, requests, connErr,
                         mutex, call, outcome>>
      PROVE  LInv'
  BY <1>1 DEF LInv, TypeInv, CallInv, OutcomeInv, MutexInv, Busy
<1>2. CASE UNCHANGED vars
  BY <1>1, <1>2 DEF vars
<1>3. CASE (\E k \in DOMAIN pending : Expire(k)) \/ (\E i \in DOMAIN cached : CacheExpire(i))
  BY Zenon, <1>1, <1>3 DEF Expire, CacheExpire, tables
<1>4. ASSUME NEW t \in Threads, Run(t) PROVE LInv'
  BY <1>4, QueryRunKeeps, HeldRunKeeps, ParamsRunKeeps, CatalogRunKeeps, StreamRunKeeps DEF Run
<1>5. ASSUME NEW t \in Threads, Finish(t) PROVE LInv'
  BY <1>5, QueryPutBackKeeps, QueryReportKeeps, ErrorReportKeeps, SmallReportKeeps,
     StreamInstallKeeps, RefusedReportKeeps DEF Finish
<1> QED
  BY Zenon, <1>2, <1>3, <1>4, <1>5, RequestKeeps, EnterKeeps, LockConnectionKeeps, OtherKeeps
     DEF Next

\* In every reachable state a connection that is locked is locked by one call,
\* which is at a point where its code holds that mutex; a call is on a connection
\* of its thread or on a shared one; and after a failed request on a connection of
\* its own a thread finds that failure in the connection's error slot, or what was
\* there if the call told the process-wide slot only (the locks of the odbc_* entry
\* points and connection_errors).
THEOREM LockInvariant == Spec => []LInv
BY InitKeeps, NextKeeps, PTL DEF Spec

\* After a failed request the error slot of its connection tells of that failure,
\* whatever other threads do, as long as the connection is its thread's own
\* (set_connection_error and get_structured_error_for_connection).  Where
\* odbc_exec_query or odbc_stream_start could not reach the connection and called
\* set_error, the slot still says what it said before.
THEOREM ErrorIsolation == Spec => []ErrorsAreIsolated
<1>1. LInv => ErrorsAreIsolated
  BY DEF LInv, OutcomeInv, ErrorsAreIsolated, GetStructuredErrorForConnection
<1> QED
  BY <1>1, LockInvariant, PTL

\* If no call that waits for the global mutex with a connection in hand is made
\* on a shared connection, nobody waits for that connection with the global mutex
\* in hand: the lock order of odbc_exec_query_params, the catalog calls and
\* odbc_stream_start is safe on connections used by one thread.
THEOREM NoDeadlock ==
  ASSUME SharedFns \cap Keeping = {}
  PROVE  Spec => []NoCircularWait
<1>1. LInv => NoCircularWait
  <2> SUFFICES ASSUME LInv, NEW t \in Threads, At(t, "Lock"), mutex[call[t].id] # None
               PROVE  At(mutex[call[t].id], "Run")
    BY DEF NoCircularWait
  <2>1. PICK u : u = mutex[call[t].id]
    BY Zenon
  <2>2. Busy(t) /\ call[t].id \in Ids
    BY Shape DEF LInv, At, Busy
  <2>3. u \in Threads /\ MutexInv(call[t].id)
    BY <2>1, <2>2 DEF LInv, TypeInv
  <2>4. /\ call[u].at \in {"Run", "Error", "Small", "Install"} /\ call[u].id = call[t].id
        /\ call[u].at # "Run" => call[u].fn \in Keeping
    BY <2>1, <2>3 DEF MutexInv
  <2>5. u # t
    BY <2>4 DEF At
  <2> QED
    BY <2>1, <2>2, <2>3, <2>4, <2>5 DEF LInv, CallInv, Busy, At
<1> QED
  BY <1>1, LockInvariant, PTL
=============================================================================

------------------------- MODULE AsyncClientProofs -------------------------
(***************************************************************************)
(* Proofs about AsyncClient: for any number of calls and of lost workers   *)
(* an answer belongs to the call that gets it, and executeAsync frees the  *)
(* native request it started.                                              *)
(***************************************************************************)
EXTENDS AsyncClient, FiniteSetTheorems, TLAPS

Kinds == {"start", "poll", "get", "free", "cancel", "other"}
Active == {"polling", "waiting", "getting", "cancelling", "freeing", "returning"}
Over == {"freeing", "returning", "done"}
Pcs == {"idle", "starting", "done"} \cup Active

Results == Int \cup Calls \cup {None, Error}
Entries == [ticket : Calls, outcome : {"Pending", "ReadyOk", "ReadyErr", "Cancelled", "Consumed"},
            live : BOOLEAN]
Messages == [req : Nat, call : Calls, kind : Kinds, id : Nat]
Requests == [call : Calls, kind : Kinds]
Responses == [req : Nat, value : Results]
States == [pc : Pcs, id : Nat, res : Results, due : BOOLEAN]

NativeOK ==
    /\ used \subseteq Calls /\ IsFiniteSet(used)
    /\ table \in [DOMAIN table -> Entries]
    /\ \A i \in DOMAIN table : i \in 1 .. Cardinality(used) /\ table[i].ticket \in used

ClientOK ==
    /\ worker \in {"off", "up", "dead"} /\ restarts \in Nat
    /\ inbox \in Seq(Messages) /\ outbox \in Seq(Responses) /\ orphans \subseteq Messages
    /\ pending \in [DOMAIN pending -> Requests] /\ IsFiniteSet(DOMAIN pending)
    /\ call \in [Calls -> States]

\* No message is left that would start the query of c.
NoStart(c) ==
    /\ \A j \in DOMAIN inbox : inbox[j].kind = "start" => inbox[j].call # c
    /\ \A m \in orphans : m.kind = "start" => m.call # c

\* The native request of c is i, if it is still there.
Known(i, c) ==
    /\ NoStart(c) /\ i \in 0 .. Cardinality(used) /\ (i # 0 => c \in used)
    /\ \A j \in DOMAIN table : table[j].ticket = c <=> j = i

\* c has no native request and will not have one.
Gone(c) ==
    /\ NoStart(c)
    /\ \A j \in DOMAIN table : table[j].ticket # c

Failed(s) == s.pc = "done" /\ s.res = Error

\* Where a call is while a request of its is pending.
PcsOf(kind) ==
    CASE kind = "start" -> {"starting"}
      [] kind = "poll" -> {"polling"}
      [] kind = "cancel" -> {"cancelling"}
      [] kind = "free" -> {"freeing"}
      [] kind = "get" -> {"getting", "freeing", "returning", "done"}
      [] OTHER -> Active \cup {"done"}

\* An id of a message names one message, or its answer.
ReqInv ==
    /\ \A i, j \in DOMAIN inbox : inbox[i].req = inbox[j].req => i = j
    /\ \A i \in DOMAIN inbox, j \in DOMAIN outbox : inbox[i].req # outbox[j].req

\* A message is about the request it belongs to, and about its call's own query.
MessageInv(m) ==
    /\ m.req \in DOMAIN pending => pending[m.req] = [call |-> m.call, kind |-> m.kind]
    /\ m.kind = "start" =>
          \/ Failed(call[m.call])
          \/ m.req \in DOMAIN pending /\ m.call \notin used
    /\ m.kind # "start" => m.id # 0 /\ Known(m.id, m.call)

OrphanInv(m) ==
    /\ m.kind = "start" => Failed(call[m.call])
    /\ m.kind # "start" => m.id # 0 /\ Known(m.id, m.call)

\* An answer that still finds its request is true of the call.
AnswerInv(a) ==
    LET p == pending[a.req] IN
    a.req \in DOMAIN pending =>
       /\ p.kind = "start" => Known(a.value, p.call)
       /\ p.kind = "get" => a.value \in {None, p.call}
       /\ p.kind = "cancel" => a.value = None
       /\ p.kind = "free" => Gone(p.call)

\* A call awaits one request of a kind.
PendingInv(r) ==
    LET p == pending[r] IN
    /\ call[p.call].pc \in PcsOf(p.kind)
    /\ p.kind # "other" => \A q \in DOMAIN pending : pending[q] = p => q = r

\* The free message of c is on its way.
Freeing(c) == \E j \in DOMAIN inbox : inbox[j].kind = "free" /\ inbox[j].call = c

CallInv(c) ==
    LET s == call[c] IN
    /\ s.pc = "idle" => c \notin used /\ NoStart(c)
    /\ s.pc \in {"idle", "starting"} => s.id = 0
    /\ s.pc \in Active => s.id # 0
    /\ s.id # 0 => Known(s.id, c)
    /\ s.pc = "returning" \/ (s.pc = "done" /\ s.res # Error) => Gone(c)
    /\ s.res \in {None, Error, c}
    /\ restarts = 0 /\ s.pc \in Over /\ s.id # 0 => Gone(c) \/ Freeing(c)

WorkerInv ==
    /\ worker = "dead" => restarts # 0
    /\ worker = "off" /\ restarts = 0 =>
          /\ DOMAIN pending = {}
          /\ \A c \in Calls : call[c].pc \in {"idle", "done"} /\ call[c].id = 0

CInv ==
    /\ NativeOK /\ ClientOK /\ ReqInv /\ WorkerInv
    /\ \A j \in DOMAIN inbox : MessageInv(inbox[j])
    /\ \A m \in orphans : OrphanInv(m)
    /\ \A j \in DOMAIN outbox : AnswerInv(outbox[j])
    /\ \A r \in DOMAIN pending : PendingInv(r)
    /\ \A c \in Calls : CallInv(c)
-----------------------------------------------------------------------------
(* Sequences and message ids.                                              *)

\* A message or an answer is put at the end of its queue.
LEMMA AppendIs ==
  ASSUME NEW S, NEW s \in Seq(S), NEW e \in S
  PROVE  /\ Append(s, e) \in Seq(S)
         /\ DOMAIN Append(s, e) = DOMAIN s \cup {Len(s) + 1}
         /\ Append(s, e)[Len(s) + 1] = e
         /\ \A j \in DOMAIN s : Append(s, e)[j] = s[j] /\ j # Len(s) + 1
OBVIOUS

\* The first of a queue is taken, and the others move up.
LEMMA TailIs ==
  ASSUME NEW S, NEW s \in Seq(S), s # <<>>
  PROVE  /\ Tail(s) \in Seq(S) /\ 1 \in DOMAIN s /\ Head(s) = s[1] /\ s[1] \in S
         /\ \A j \in DOMAIN Tail(s) : j + 1 \in DOMAIN s /\ Tail(s)[j] = s[j + 1] /\ j + 1 # 1
         /\ \A j \in DOMAIN s \ {1} : j - 1 \in DOMAIN Tail(s) /\ Tail(s)[j - 1] = s[j]
OBVIOUS

\* The ids on a sequence of messages are finitely many.
LEMMA FiniteIds ==
  ASSUME NEW S, NEW s \in Seq(S)
  PROVE  IsFiniteSet({s[i].req : i \in DOMAIN s})
<1> DEFINE T == {s[i].req : i \in DOMAIN s}
           f == [i \in 1 .. Len(s) |-> s[i].req]
<1>1. Len(s) \in Nat /\ DOMAIN s = 1 .. Len(s)
  OBVIOUS
<1>2. IsFiniteSet(1 .. Len(s))
  BY <1>1, FS_Interval
<1>3. f \in Surjection(1 .. Len(s), T)
  BY <1>1 DEF Surjection
<1> QED
  BY <1>2, <1>3, FS_Surjection

\* The id of a new message is that of no request, message or answer.
LEMMA FreshIs ==
  ASSUME ClientOK
  PROVE  /\ Fresh \in Nat /\ Fresh \notin DOMAIN pending
         /\ \A j \in DOMAIN inbox : inbox[j].req # Fresh
         /\ \A j \in DOMAIN outbox : outbox[j].req # Fresh
<1> DEFINE card == Cardinality(InFlight)
<1>1. IsFiniteSet(InFlight)
  <2>1. IsFiniteSet({inbox[i].req : i \in DOMAIN inbox})
    BY FiniteIds DEF ClientOK
  <2>2. IsFiniteSet({outbox[i].req : i \in DOMAIN outbox})
    BY FiniteIds DEF ClientOK
  <2>3. IsFiniteSet(DOMAIN pending \cup {inbox[i].req : i \in DOMAIN inbox})
    BY Zenon, <2>1, FS_Union DEF ClientOK
  <2> QED
    BY Zenon, <2>2, <2>3, FS_Union DEF InFlight
<1>2. card \in Nat
  BY <1>1, FS_CardinalityType
<1>3. \E n \in 1 .. card + 1 : n \notin InFlight
  <2>1. Cardinality(1 .. card + 1) = card + 1
    BY <1>2, FS_Interval
  <2>2. 1 .. card + 1 \subseteq InFlight => Cardinality(1 .. card + 1) <= card
    BY Zenon, <1>1, FS_Subset
  <2> QED
    BY <1>2, <2>1, <2>2
<1>4. Fresh \in 1 .. card + 1 /\ Fresh \notin InFlight
  BY Zenon, <1>3 DEF Fresh
<1> QED
  BY <1>2, <1>4 DEF InFlight
-----------------------------------------------------------------------------
(* The native side.                                                        *)

\* Requests may change and go.
Quiet ==
    /\ NativeOK' /\ used' = used /\ DOMAIN table' \subseteq DOMAIN table
    /\ \A i \in DOMAIN table' : table'[i].ticket = table[i].ticket

\* The query of k gets a new id.
Starts(k) ==
    LET n == Cardinality(used) + 1 IN
    /\ NativeOK' /\ Cardinality(used) \in Nat /\ Cardinality(used') = n
    /\ k \notin used /\ used' = used \cup {k}
    /\ DOMAIN table' = DOMAIN table \cup {n} /\ n \notin DOMAIN table /\ table'[n].ticket = k
    /\ \A i \in DOMAIN table : table'[i].ticket = table[i].ticket

\* A change that keeps the tickets of the requests is quiet.
LEMMA QuietIs ==
  ASSUME NativeOK, used' = used, DOMAIN table' \subseteq DOMAIN table,
         table' \in [DOMAIN table' -> Entries],
         \A i \in DOMAIN table' : table'[i].ticket = table[i].ticket
  PROVE  Quiet
BY DEF NativeOK, Quiet

\* So is no change.
LEMMA SameIsQuiet ==
  ASSUME NativeOK, UNCHANGED native
  PROVE  Quiet
BY QuietIs DEF NativeOK, native

\* One request changes.
LEMMA UpdateIs ==
  ASSUME NativeOK, used' = used, NEW i \in DOMAIN table,
         NEW e \in Entries, table' = [table EXCEPT ![i] = e], e.ticket = table[i].ticket
  PROVE  Quiet
<1>1. /\ table \in [DOMAIN table -> Entries] /\ table' \in [DOMAIN table -> Entries]
      /\ \A j \in DOMAIN table : table'[j] = IF j = i THEN e ELSE table[j]
  BY DEF NativeOK
<1> QED
  BY <1>1, QuietIs

\* A query that ends keeps its ticket.
LEMMA FinishIs ==
  ASSUME NativeOK, NEW i \in DOMAIN table, Finish(i)
  PROVE  Quiet
<1>1. PICK o \in {"ReadyOk", "ReadyErr", "Cancelled"} :
         table' = [table EXCEPT ![i].outcome = o, ![i].live = FALSE]
  BY Zenon DEF Finish
<1> DEFINE a == [table[i] EXCEPT !.outcome = o]
           b == [a EXCEPT !.live = FALSE]
<1>2. a \in Entries /\ a.ticket = table[i].ticket
  BY DEF NativeOK, Entries
<1>3. table' = [table EXCEPT ![i] = b]
  BY <1>1, ZenonT(30)
<1> HIDE DEF a
<1>4. b \in Entries /\ b.ticket = table[i].ticket
  BY Zenon, <1>2 DEF Entries
<1> HIDE DEF b
<1> QED
  BY Zenon, <1>3, <1>4, UpdateIs DEF Finish

\* odbc_async_cancel changes the outcome of a request and not its ticket.
LEMMA CancelIs ==
  ASSUME NativeOK, NEW i \in DOMAIN table, Cancel(i)
  PROVE  Quiet
<1> DEFINE o == IF table[i].outcome = "Pending" THEN "Cancelled" ELSE table[i].outcome
<1>1. PICK live \in {FALSE, table[i].live} :
         table' = [table EXCEPT ![i].outcome = IF @ = "Pending" THEN "Cancelled" ELSE @,
                                ![i].live = live]
  BY Zenon DEF Cancel
<1> DEFINE a == [table[i] EXCEPT !.outcome = o]
           b == [a EXCEPT !.live = live]
<1>2. a \in Entries /\ a.ticket = table[i].ticket /\ live \in BOOLEAN
  BY Zenon DEF NativeOK, Entries
<1>3. table' = [table EXCEPT ![i] = b]
  BY <1>1, ZenonT(30)
<1> HIDE DEF a
<1>4. b \in Entries /\ b.ticket = table[i].ticket
  BY <1>2 DEF Entries
<1> HIDE DEF b
<1> QED
  BY Zenon, <1>3, <1>4, UpdateIs DEF Cancel

\* odbc_async_get_result takes the outcome and leaves the request.
LEMMA TakeIs ==
  ASSUME NativeOK, NEW i \in DOMAIN table, Take(i)
  PROVE  Quiet
<1> DEFINE b == [table[i] EXCEPT !.outcome = "Consumed"]
<1>1. b \in Entries /\ b.ticket = table[i].ticket
  BY DEF NativeOK, Entries
<1>2. table' = [table EXCEPT ![i] = b]
  BY DEF Take
<1> HIDE DEF b
<1> QED
  BY Zenon, <1>1, <1>2, UpdateIs DEF Take

\* odbc_async_free and odbc_disconnect drop requests.
LEMMA DropIs ==
  ASSUME NativeOK, NEW ids, Drop(ids)
  PROVE  Quiet /\ \A i \in ids : i \notin DOMAIN table'
<1>1. /\ used' = used /\ DOMAIN table' = DOMAIN table \ ids
      /\ table' \in [DOMAIN table' -> Entries]
      /\ \A i \in DOMAIN table' : table'[i] = table[i]
  BY DEF Drop, Restrict, NativeOK
<1> QED
  BY <1>1, QuietIs

\* odbc_execute_async adds a request with a new id.
LEMMA StartIs ==
  ASSUME NativeOK, NEW k \in Calls, Start(Cardinality(used) + 1, k)
  PROVE  Starts(k)
<1> DEFINE n == Cardinality(used) + 1
           e == [ticket |-> k, outcome |-> "Pending", live |-> TRUE]
<1>1. Cardinality(used) \in Nat
  BY FS_CardinalityType DEF NativeOK
<1>2. k \notin used /\ used' = used \cup {k} /\ n \notin DOMAIN table
  BY Zenon DEF Start
<1>3. IsFiniteSet(used') /\ Cardinality(used') = n
  BY Zenon, <1>2, FS_AddElement DEF NativeOK
<1>4. e \in Entries /\ e.ticket = k
  BY DEF Entries
<1>5. table' = [j \in DOMAIN table \cup {n} |-> IF j = n THEN e ELSE table[j]]
  BY Zenon DEF Start
<1> HIDE DEF e
<1>6. /\ DOMAIN table' = DOMAIN table \cup {n} /\ table'[n] = e
      /\ \A j \in DOMAIN table : table'[j] = table[j]
      /\ table' \in [DOMAIN table' -> Entries]
  BY <1>2, <1>4, <1>5 DEF NativeOK
<1>7. \A i \in DOMAIN table' : i \in 1 .. n /\ table'[i].ticket \in used'
  BY <1>1, <1>2, <1>4, <1>6 DEF NativeOK
<1>8. NativeOK'
  BY Zenon, <1>2, <1>3, <1>6, <1>7 DEF NativeOK
<1> QED
  BY <1>1, <1>2, <1>3, <1>4, <1>6, <1>8 DEF Starts

\* What the native call of a message does and answers.
Served(m, answer) ==
    /\ m.kind # "start" => Quiet
    /\ m.kind = "start" =>
          \/ Quiet /\ answer = 0
          \/ Starts(m.call) /\ answer = Cardinality(used) + 1
    /\ m.kind = "get" => answer = None \/ (m.id \in DOMAIN table /\ answer = table[m.id].ticket)
    /\ m.kind \in {"cancel", "free"} => answer = None
    /\ m.kind = "free" => m.id \notin DOMAIN table'

\* _handleRequest makes the one native call a message asks for.
LEMMA ServeIs ==
  ASSUME NativeOK, NEW m \in Messages, NEW answer, Serve(m, answer)
  PROVE  Served(m, answer)
<1>1. m.kind \in Kinds /\ m.call \in Calls
  BY DEF Messages
<1>2. CASE m.kind = "start"
  <2>1. ServeStart(m.call, answer)
    BY <1>2 DEF Serve
  <2>2. CASE answer = Cardinality(used) + 1 /\ Start(answer, m.call)
    BY <1>1, <1>2, <2>2, StartIs DEF Served
  <2>3. CASE answer = 0 /\ UNCHANGED native
    BY <1>2, <2>3, SameIsQuiet DEF Served
  <2> QED
    BY Zenon, <2>1, <2>2, <2>3 DEF ServeStart
<1>3. CASE m.kind = "poll"
  <2>1. UNCHANGED native
    BY <1>3 DEF Serve
  <2> QED
    BY <1>3, <2>1, SameIsQuiet DEF Served
<1>4. CASE m.kind = "get"
  <2>1. ServeGet(m.id, answer)
    BY <1>4 DEF Serve
  <2>2. CASE PollStatus(m.id) = 1
    <3>1. m.id \in DOMAIN table
      BY <2>2 DEF PollStatus
    <3>2. (answer = table[m.id].ticket /\ Take(m.id)) \/ (answer = None /\ UNCHANGED native)
      BY Zenon, <2>1, <2>2 DEF ServeGet
    <3>3. Quiet
      BY Zenon, <3>1, <3>2, TakeIs, SameIsQuiet
    <3> QED
      BY <1>4, <3>1, <3>2, <3>3 DEF Served
  <2>3. CASE PollStatus(m.id) # 1
    <3>1. answer = None /\ ((m.id \in DOMAIN table /\ Take(m.id)) \/ UNCHANGED native)
      BY Zenon, <2>1, <2>3 DEF ServeGet
    <3>2. Quiet
      BY Zenon, <3>1, TakeIs, SameIsQuiet
    <3> QED
      BY <1>4, <3>1, <3>2 DEF Served
  <2> QED
    BY Zenon, <2>2, <2>3
<1>5. CASE m.kind = "free"
  <2>1. answer = None /\ ServeFree(m.id)
    BY <1>5 DEF Serve
  <2>2. Quiet /\ m.id \notin DOMAIN table'
    <3>1. CASE m.id \in DOMAIN table
      BY Zenon, <2>1, <3>1, DropIs DEF ServeFree
    <3>2. CASE m.id \notin DOMAIN table
      <4>1. UNCHANGED native
        BY Zenon, <2>1, <3>2 DEF ServeFree
      <4> QED
        BY <3>2, <4>1, SameIsQuiet DEF native
    <3> QED
      BY Zenon, <3>1, <3>2
  <2> QED
    BY <1>5, <2>1, <2>2 DEF Served
<1>6. CASE m.kind \in {"cancel", "other"}
  <2>1. answer = None /\ ServeCancel(m.id)
    BY Zenon, <1>6 DEF Serve
  <2>2. Quiet
    BY Zenon, <2>1, CancelIs, SameIsQuiet DEF ServeCancel
  <2> QED
    BY <1>6, <2>1, <2>2 DEF Served
<1> QED
  BY <1>1, <1>2, <1>3, <1>4, <1>5, <1>6 DEF Kinds
-----------------------------------------------------------------------------
(* Steps of the native side and of the workers.                            *)

\* What is known of the request of c stays known.
LEMMA Kept ==
  ASSUME NativeOK, NEW c, NEW i, NoStart(c), NoStart(c)',
         Quiet \/ \E k \in Calls : Starts(k) /\ ~NoStart(k)
  PROVE  (Known(i, c) => Known(i, c)') /\ (Gone(c) => Gone(c)')
<1>1. CASE Quiet
  BY <1>1 DEF Quiet, Known, Gone
<1>2. ASSUME NEW k \in Calls, Starts(k), ~NoStart(k)
      PROVE  (Known(i, c) => Known(i, c)') /\ (Gone(c) => Gone(c)')
  <2>1. k # c
    BY <1>2
  <2>2. Known(i, c) => /\ i \in 0 .. Cardinality(used)' /\ i # Cardinality(used) + 1
                      /\ (i # 0 => c \in used')
    BY <1>2 DEF Starts, Known
  <2>3. /\ \A j \in DOMAIN table' : j = Cardinality(used) + 1 \/ j \in DOMAIN table
        /\ \A j \in DOMAIN table : table'[j].ticket = table[j].ticket
        /\ table'[Cardinality(used) + 1].ticket = k
    BY Zenon, <1>2 DEF Starts
  <2> QED
    BY <2>1, <2>2, <2>3 DEF Known, Gone
<1> QED
  BY Zenon, <1>1, <1>2

\* A native call or the end of a query; one that starts the query of k leaves no
\* message of a k that could still use it.
Moved ==
    \/ Quiet
    \/ \E k \in Calls :
          /\ Starts(k) /\ ~NoStart(k)
          /\ \A j \in DOMAIN inbox' :
                inbox'[j].kind = "start" /\ inbox'[j].call = k => Failed(call[k])

\* Messages are taken out.
Taken ==
    /\ inbox' \in Seq(Messages) /\ orphans' \subseteq orphans
    /\ \A j \in DOMAIN inbox' : \E i \in DOMAIN inbox : inbox'[j] = inbox[i]
    /\ UNCHANGED <<worker, pending, call, restarts>>

\* No start message comes up when one message is taken.
LEMMA NoStartKept ==
  ASSUME Taken, NEW c, NoStart(c)
  PROVE  NoStart(c)'
BY DEF Taken, NoStart

\* The other messages stay true when the worker has taken one.
LEMMA TakenKeepsMessages ==
  ASSUME CInv, Moved, Taken
  PROVE  /\ \A j \in DOMAIN inbox' : MessageInv(inbox[j])'
         /\ \A m \in orphans' : OrphanInv(m)'
         /\ \A a : AnswerInv(a) => AnswerInv(a)'
<1>1. \A c, i : Known(i, c) => Known(i, c)'
  BY Kept, NoStartKept DEF CInv, Moved, Known
<1>2. \A c : Gone(c) => Gone(c)'
  BY Kept, NoStartKept DEF CInv, Moved, Gone
<1>3. pending' = pending /\ call' = call
  BY DEF Taken
<1>4. ASSUME NEW j \in DOMAIN inbox' PROVE MessageInv(inbox[j])'
  <2>1. PICK i \in DOMAIN inbox : inbox'[j] = inbox[i]
    BY DEF Taken
  <2>2. MessageInv(inbox[i])
    BY Zenon DEF CInv
  <2>3. ASSUME inbox[i].kind = "start", ~Failed(call[inbox[i].call])
        PROVE  inbox[i].call \notin used'
    <3>1. inbox[i].call \notin used
      BY Zenon, <2>2, <2>3 DEF MessageInv
    <3>2. CASE Quiet
      BY <3>1, <3>2 DEF Quiet
    <3>3. ASSUME NEW k \in Calls, Starts(k),
                 inbox'[j].kind = "start" /\ inbox'[j].call = k => Failed(call[k])
          PROVE  inbox[i].call \notin used'
      <4>1. inbox[i].call # k
        BY Zenon, <2>1, <2>3, <3>3
      <4> QED
        BY <3>1, <3>3, <4>1 DEF Starts
    <3> QED
      BY Zenon, <3>2, <3>3 DEF Moved
  <2> QED
    BY <1>1, <1>3, <2>1, <2>2, <2>3 DEF MessageInv
<1>5. ASSUME NEW m \in orphans' PROVE OrphanInv(m)'
  <2>1. OrphanInv(m)
    BY Zenon DEF Taken, CInv
  <2> QED
    BY <1>1, <1>3, <2>1 DEF OrphanInv
<1>6. ASSUME NEW a, AnswerInv(a) PROVE AnswerInv(a)'
  BY <1>1, <1>2, <1>3, <1>6 DEF AnswerInv
<1> QED
  BY Zenon, <1>4, <1>5, <1>6

\* So do the calls, and what they await.
LEMMA TakenKeepsCalls ==
  ASSUME CInv, Moved, Taken,
         \A c \in Calls : Freeing(c) => Freeing(c)' \/ Gone(c)'
  PROVE  /\ NativeOK' /\ WorkerInv'
         /\ \A r \in DOMAIN pending' : PendingInv(r)'
         /\ \A c \in Calls : CallInv(c)'
<1>1. NativeOK'
  BY DEF Moved, Quiet, Starts
<1>2. UNCHANGED <<worker, pending, call, restarts>>
  BY DEF Taken
<1>3. WorkerInv'
  BY <1>2 DEF CInv, WorkerInv
<1>4. \A r \in DOMAIN pending' : PendingInv(r)'
  BY <1>2 DEF CInv, PendingInv
<1>5. ASSUME NEW c \in Calls PROVE CallInv(c)'
  <2>1. CallInv(c)
    BY Zenon DEF CInv
  <2>2. \A i : Known(i, c) => Known(i, c)'
    BY Kept, NoStartKept DEF CInv, Moved, Known
  <2>3. Gone(c) => Gone(c)'
    BY Kept, NoStartKept DEF CInv, Moved, Gone
  <2>4. call[c].pc = "idle" => c \notin used' /\ NoStart(c)'
    <3> SUFFICES ASSUME call[c].pc = "idle" PROVE c \notin used' /\ NoStart(c)'
      OBVIOUS
    <3>1. c \notin used /\ NoStart(c)
      BY Zenon, <2>1 DEF CallInv
    <3>2. NoStart(c)'
      BY Zenon, <3>1, NoStartKept
    <3>3. CASE Quiet
      BY <3>1, <3>2, <3>3 DEF Quiet
    <3>4. ASSUME NEW k \in Calls, Starts(k), ~NoStart(k) PROVE c \notin used'
      BY <3>1, <3>4 DEF Starts
    <3> QED
      BY Zenon, <3>2, <3>3, <3>4 DEF Moved
  <2>5. Gone(c) \/ Freeing(c) => Gone(c)' \/ Freeing(c)'
    BY Zenon, <2>3
  <2> QED
    BY <1>2, <2>1, <2>2, <2>3, <2>4, <2>5 DEF CallInv
<1> QED
  BY Zenon, <1>1, <1>3, <1>4, <1>5

\* Queries end and are dropped.
LEMMA NativeKeeps ==
  ASSUME CInv, Quiet, UNCHANGED client
  PROVE  CInv'
<1>1. Moved
  BY Zenon DEF Moved
<1>2. Taken /\ outbox' = outbox /\ inbox' = inbox
  BY DEF Taken, client, CInv, ClientOK
<1>3. \A c \in Calls : Freeing(c) => Freeing(c)' \/ Gone(c)'
  BY <1>2 DEF Freeing
<1>4. ClientOK' /\ ReqInv'
  BY DEF CInv, ClientOK, ReqInv, client
<1>5. /\ \A j \in DOMAIN inbox' : MessageInv(inbox[j])'
      /\ \A m \in orphans' : OrphanInv(m)'
      /\ \A a : AnswerInv(a) => AnswerInv(a)'
  BY Zenon, <1>1, <1>2, TakenKeepsMessages
<1>6. \A j \in DOMAIN outbox' : AnswerInv(outbox[j])'
  BY <1>2, <1>5 DEF CInv
<1>7. /\ NativeOK' /\ WorkerInv'
      /\ \A r \in DOMAIN pending' : PendingInv(r)'
      /\ \A c \in Calls : CallInv(c)'
  BY Zenon, <1>1, <1>2, <1>3, TakenKeepsCalls
<1> QED
  BY Zenon, <1>4, <1>5, <1>6, <1>7 DEF CInv

\* A disposed worker finishes the call it is in.
LEMMA OrphanKeeps ==
  ASSUME CInv, NEW m \in orphans, Orphan(m)
  PROVE  CInv'
<1>1. m \in Messages /\ NativeOK /\ OrphanInv(m)
  BY Zenon DEF CInv, ClientOK
<1>2. PICK answer \in Answers : Serve(m, answer)
  BY Zenon DEF Orphan
<1>3. Served(m, answer)
  BY Zenon, <1>1, <1>2, ServeIs
<1>4. /\ orphans' = orphans \ {m} /\ inbox' = inbox /\ outbox' = outbox
      /\ UNCHANGED <<worker, pending, call, restarts>>
  BY Zenon DEF Orphan
<1>5. Moved
  <2>1. CASE Quiet
    BY <2>1 DEF Moved
  <2>2. CASE m.kind = "start" /\ Starts(m.call)
    <3>1. m.call \in Calls /\ ~NoStart(m.call) /\ Failed(call[m.call])
      BY <1>1, <2>2 DEF NoStart, OrphanInv, Messages
    <3> QED
      BY Zenon, <2>2, <3>1 DEF Moved
  <2> QED
    BY <1>3, <2>1, <2>2 DEF Served
<1>6. Taken
  BY <1>4 DEF Taken, CInv, ClientOK
<1>7. \A c \in Calls : Freeing(c) => Freeing(c)' \/ Gone(c)'
  BY <1>4 DEF Freeing
<1>8. ClientOK' /\ ReqInv'
  BY <1>4 DEF CInv, ClientOK, ReqInv
<1>9. /\ \A j \in DOMAIN inbox' : MessageInv(inbox[j])'
      /\ \A n \in orphans' : OrphanInv(n)'
      /\ \A a : AnswerInv(a) => AnswerInv(a)'
  BY Zenon, <1>5, <1>6, TakenKeepsMessages
<1>10. \A j \in DOMAIN outbox' : AnswerInv(outbox[j])'
  BY <1>4, <1>9 DEF CInv
<1>11. /\ NativeOK' /\ WorkerInv'
       /\ \A r \in DOMAIN pending' : PendingInv(r)'
       /\ \A c \in Calls : CallInv(c)'
  BY Zenon, <1>5, <1>6, <1>7, TakenKeepsCalls
<1> QED
  BY Zenon, <1>8, <1>9, <1>10, <1>11 DEF CInv

\* While a call awaits its start no other message starts it.
LEMMA OneStart ==
  ASSUME CInv, NEW i \in DOMAIN inbox, inbox[i].kind = "start",
         ~Failed(call[inbox[i].call]),
         NEW j \in DOMAIN inbox, inbox[j].kind = "start", inbox[j].call = inbox[i].call
  PROVE  i = j
<1>1. MessageInv(inbox[i]) /\ MessageInv(inbox[j])
  BY Zenon DEF CInv
<1>2. /\ inbox[i].req \in DOMAIN pending /\ inbox[j].req \in DOMAIN pending
      /\ pending[inbox[i].req] = pending[inbox[j].req]
      /\ pending[inbox[i].req].kind = "start"
  BY <1>1 DEF MessageInv
<1>3. PendingInv(inbox[i].req)
  BY Zenon, <1>2 DEF CInv
<1>4. inbox[j].req = inbox[i].req
  BY <1>2, <1>3 DEF PendingInv
<1> QED
  BY <1>4 DEF CInv, ReqInv

\* A call that awaits a request has not failed.
LEMMA Awaited ==
  ASSUME CInv, NEW r \in DOMAIN pending, pending[r].kind = "start"
  PROVE  ~Failed(call[pending[r].call]) /\ call[pending[r].call].pc = "starting"
BY DEF CInv, PendingInv, PcsOf, Failed

\* The worker takes a message, makes its call and answers.
LEMMA RespondKeeps ==
  ASSUME CInv, Respond
  PROVE  CInv'
<1>1. PICK m \in Messages : inbox # <<>> /\ m = Head(inbox)
  <2>1. inbox # <<>> /\ inbox \in Seq(Messages)
    BY Zenon DEF Respond, CInv, ClientOK
  <2>2. Head(inbox) \in Messages
    BY <2>1, TailIs
  <2> QED
    BY Zenon, <2>1, <2>2
<1>2. PICK answer \in Answers :
         /\ Serve(m, answer)
         /\ outbox' = Append(outbox, [req |-> m.req, value |-> answer])
  BY Zenon, <1>1 DEF Respond
<1>3. /\ inbox' = Tail(inbox) /\ inbox # <<>> /\ inbox \in Seq(Messages)
      /\ UNCHANGED <<worker, orphans, pending, call, restarts>>
  BY Zenon DEF Respond, CInv, ClientOK
<1>4. /\ inbox' \in Seq(Messages) /\ 1 \in DOMAIN inbox /\ m = inbox[1]
      /\ \A j \in DOMAIN inbox' : j + 1 \in DOMAIN inbox /\ inbox'[j] = inbox[j + 1] /\ j + 1 # 1
      /\ \A j \in DOMAIN inbox \ {1} : j - 1 \in DOMAIN inbox' /\ inbox'[j - 1] = inbox[j]
  BY <1>1, <1>3, TailIs
<1>5. PICK a \in Responses :
         a = [req |-> m.req, value |-> answer] /\ a.req = m.req /\ a.value = answer
  <2>1. answer \in Results /\ m.req \in Nat
    BY DEF Results, Answers, Messages
  <2> DEFINE b == [req |-> m.req, value |-> answer]
  <2>2. b \in Responses /\ b.req = m.req /\ b.value = answer
    BY Zenon, <2>1 DEF Responses
  <2> QED
    BY Zenon, <2>2
<1>6. /\ outbox' \in Seq(Responses) /\ outbox \in Seq(Responses)
      /\ DOMAIN outbox' = DOMAIN outbox \cup {Len(outbox) + 1}
      /\ outbox'[Len(outbox) + 1] = a
      /\ \A j \in DOMAIN outbox : outbox'[j] = outbox[j]
  <2>1. outbox \in Seq(Responses) /\ outbox' = Append(outbox, a)
    BY Zenon, <1>2, <1>5 DEF CInv, ClientOK
  <2> QED
    BY <1>5, <2>1, AppendIs
<1>7. MessageInv(m) /\ NativeOK
  BY Zenon, <1>4 DEF CInv
<1>8. Served(m, answer)
  BY Zenon, <1>2, <1>4, <1>7, ServeIs
<1>9. ASSUME m.kind = "start", ~Failed(call[m.call]),
             NEW j \in DOMAIN inbox', inbox'[j].kind = "start", inbox'[j].call = m.call
      PROVE  FALSE
  BY <1>4, <1>9, OneStart
<1>10. Moved
  <2>1. CASE Quiet
    BY <2>1 DEF Moved
  <2>2. CASE m.kind = "start" /\ Starts(m.call)
    <3>1. m.call \in Calls /\ ~NoStart(m.call)
      BY <1>4, <2>2 DEF NoStart, Messages
    <3>2. \A j \in DOMAIN inbox' :
             inbox'[j].kind = "start" /\ inbox'[j].call = m.call => Failed(call[m.call])
      BY Zenon, <1>9, <2>2
    <3> QED
      BY Zenon, <2>2, <3>1, <3>2 DEF Moved
  <2> QED
    BY <1>8, <2>1, <2>2 DEF Served
<1>11. Taken
  BY <1>3, <1>4 DEF Taken
<1>12. \A c : NoStart(c) => NoStart(c)'
  BY Zenon, <1>11, NoStartKept
<1>13. m.kind = "free" => Gone(m.call)'
  <2> SUFFICES ASSUME m.kind = "free" PROVE Gone(m.call)'
    OBVIOUS
  <2>1. Known(m.id, m.call)
    BY <1>7 DEF MessageInv
  <2>2. NoStart(m.call) /\ NoStart(m.call)'
    BY Zenon, <1>12, <2>1 DEF Known
  <2>3. Quiet /\ m.id \notin DOMAIN table'
    BY <1>8 DEF Served
  <2> QED
    BY <2>1, <2>2, <2>3 DEF Known, Gone, Quiet
<1>14. \A c \in Calls : Freeing(c) => Freeing(c)' \/ Gone(c)'
  <2> SUFFICES ASSUME NEW c \in Calls, Freeing(c) PROVE Freeing(c)' \/ Gone(c)'
    BY Zenon
  <2>1. PICK j \in DOMAIN inbox : inbox[j].kind = "free" /\ inbox[j].call = c
    BY Zenon DEF Freeing
  <2>2. CASE j = 1
    BY Zenon, <1>4, <1>13, <2>1, <2>2
  <2>3. CASE j # 1
    BY <1>4, <2>1, <2>3 DEF Freeing
  <2> QED
    BY Zenon, <2>2, <2>3
<1>15. ClientOK'
  BY <1>3, <1>4, <1>6 DEF CInv, ClientOK
<1>16. ReqInv'
  <2>1. ReqInv
    BY Zenon DEF CInv
  <2>2. \A i, j \in DOMAIN inbox' : inbox'[i].req = inbox'[j].req => i = j
    BY <1>4, <2>1 DEF ReqInv
  <2>3. \A i \in DOMAIN inbox' : inbox'[i].req # a.req
    BY <1>4, <1>5, <2>1 DEF ReqInv
  <2>4. \A i \in DOMAIN inbox', j \in DOMAIN outbox' : inbox'[i].req # outbox'[j].req
    BY <1>4, <1>6, <2>1, <2>3 DEF ReqInv
  <2> QED
    BY Zenon, <2>2, <2>4 DEF ReqInv
<1>17. AnswerInv(a)'
  <2> SUFFICES ASSUME m.req \in DOMAIN pending
               PROVE  /\ m.kind = "start" => Known(answer, m.call)'
                      /\ m.kind = "get" => answer \in {None, m.call}
                      /\ m.kind = "cancel" => answer = None
                      /\ m.kind = "free" => Gone(m.call)'
    <3>1. m.req \in DOMAIN pending => pending[m.req].kind = m.kind /\ pending[m.req].call = m.call
      BY <1>7 DEF MessageInv
    <3> QED
      BY <1>3, <1>5, <3>1 DEF AnswerInv
  <2>1. ASSUME m.kind = "start" PROVE Known(answer, m.call)'
    <3>1. ~Failed(call[m.call]) /\ m.call \notin used
      <4>1. pending[m.req].kind = "start" /\ pending[m.req].call = m.call
        BY <1>7, <2>1 DEF MessageInv
      <4>2. ~Failed(call[m.call])
        BY Zenon, <4>1, Awaited
      <4> QED
        BY <1>7, <2>1, <4>2 DEF MessageInv
    <3>2. NoStart(m.call)'
      <4>1. \A n \in orphans : n.kind = "start" => n.call # m.call
        BY Zenon, <3>1 DEF CInv, OrphanInv
      <4> QED
        BY Zenon, <1>3, <1>9, <2>1, <3>1, <4>1 DEF NoStart
    <3>3. \A j \in DOMAIN table : j \in 1 .. Cardinality(used) /\ table[j].ticket # m.call
      BY <1>7, <3>1 DEF NativeOK
    <3>4. CASE Quiet /\ answer = 0
      <4>1. Cardinality(used) \in Nat
        BY <1>7, FS_CardinalityType DEF NativeOK
      <4> QED
        BY <3>2, <3>3, <3>4, <4>1 DEF Known, Quiet
    <3>5. CASE Starts(m.call) /\ answer = Cardinality(used) + 1
      BY <3>2, <3>3, <3>5 DEF Known, Starts
    <3> QED
      BY Zenon, <1>8, <2>1, <3>4, <3>5 DEF Served
  <2>2. ASSUME m.kind = "get" PROVE answer \in {None, m.call}
    <3>1. Known(m.id, m.call)
      BY <1>7, <2>2 DEF MessageInv
    <3> QED
      BY <1>8, <2>2, <3>1 DEF Known, Served
  <2> QED
    BY <1>8, <1>13, <2>1, <2>2 DEF Served
<1>18. /\ \A j \in DOMAIN inbox' : MessageInv(inbox[j])'
       /\ \A n \in orphans' : OrphanInv(n)'
       /\ \A b : AnswerInv(b) => AnswerInv(b)'
  BY Zenon, <1>10, <1>11, TakenKeepsMessages
<1>19. \A j \in DOMAIN outbox' : AnswerInv(outbox[j])'
  <2> SUFFICES ASSUME NEW j \in DOMAIN outbox' PROVE AnswerInv(outbox[j])'
    BY Zenon
  <2>1. CASE j \in DOMAIN outbox
    <3>1. AnswerInv(outbox[j])
      BY Zenon, <2>1 DEF CInv
    <3>2. outbox'[j] = outbox[j]
      BY Zenon, <1>6, <2>1
    <3> QED
      BY Zenon, <1>18, <3>1, <3>2
  <2>2. CASE j = Len(outbox) + 1
    <3>1. outbox'[j] = a
      BY Zenon, <1>6, <2>2
    <3> QED
      BY Zenon, <1>17, <3>1
  <2> QED
    BY Zenon, <1>6, <2>1, <2>2
<1>20. /\ NativeOK' /\ WorkerInv'
       /\ \A r \in DOMAIN pending' : PendingInv(r)'
       /\ \A c \in Calls : CallInv(c)'
  BY Zenon, <1>10, <1>11, <1>14, TakenKeepsCalls
<1> QED
  BY Zenon, <1>15, <1>16, <1>18, <1>19, <1>20 DEF CInv
-----------------------------------------------------------------------------
(* Steps of the main isolate.                                              *)

\* An id that no request, message or answer has.
Unused(q) ==
    /\ q \in Nat /\ q \notin DOMAIN pending
    /\ \A j \in DOMAIN inbox : inbox[j].req # q
    /\ \A j \in DOMAIN outbox : outbox[j].req # q

\* Call c goes on, in state s.
GoesOn(c, s) ==
    /\ UNCHANGED <<native, worker, orphans, restarts>>
    /\ call' = [call EXCEPT ![c] = s]
    /\ outbox' \in Seq(Responses)
    /\ \A j \in DOMAIN outbox' : \E i \in DOMAIN outbox : outbox'[j] = outbox[i]

\* Requests of c are over, and m is the message of a new one, if any.
Asks(c, m) ==
    /\ pending' \in [DOMAIN pending' -> Requests] /\ IsFiniteSet(DOMAIN pending')
    /\ \A r \in DOMAIN pending' : r = m.req \/ (r \in DOMAIN pending /\ pending'[r] = pending[r])
    /\ \A r \in DOMAIN pending : r \in DOMAIN pending' \/ pending[r].call = c
    /\ m.req \in DOMAIN pending' => pending'[m.req] = [call |-> m.call, kind |-> m.kind]
    /\ inbox' = inbox \/ (inbox' = Append(inbox, m) /\ m.req \in DOMAIN pending')

\* _sendRequest adds at most one message.
LEMMA InboxGrows ==
  ASSUME inbox \in Seq(Messages), NEW m \in Messages, inbox' = inbox \/ inbox' = Append(inbox, m)
  PROVE  /\ inbox' \in Seq(Messages)
         /\ \A j \in DOMAIN inbox : j \in DOMAIN inbox' /\ inbox'[j] = inbox[j]
         /\ \A j \in DOMAIN inbox' : j \in DOMAIN inbox
                \/ (j = Len(inbox) + 1 /\ inbox'[j] = m /\ inbox' = Append(inbox, m))
BY AppendIs

\* The ids stay apart.
LEMMA AsksKeepsIds ==
  ASSUME CInv, NEW c \in Calls, NEW s \in States, NEW m \in Messages, Unused(m.req),
         GoesOn(c, s), Asks(c, m)
  PROVE  ClientOK' /\ ReqInv' /\ NativeOK'
<1>1. ClientOK /\ ReqInv /\ NativeOK
  BY Zenon DEF CInv
<1>2. /\ inbox' \in Seq(Messages)
      /\ \A j \in DOMAIN inbox' : (j \in DOMAIN inbox /\ inbox'[j] = inbox[j])
             \/ (j = Len(inbox) + 1 /\ inbox'[j] = m /\ inbox' = Append(inbox, m))
  BY <1>1, InboxGrows DEF ClientOK, Asks
<1>3. ClientOK'
  BY <1>1, <1>2 DEF ClientOK, GoesOn, Asks
<1>4. NativeOK'
  BY <1>1 DEF NativeOK, GoesOn, native
<1>5. \A i, j \in DOMAIN inbox' : inbox'[i].req = inbox'[j].req => i = j
  BY <1>1, <1>2 DEF ReqInv, Unused
<1>6. \A i \in DOMAIN inbox', j \in DOMAIN outbox' : inbox'[i].req # outbox'[j].req
  BY <1>1, <1>2 DEF ReqInv, Unused, GoesOn
<1> QED
  BY Zenon, <1>3, <1>4, <1>5, <1>6 DEF ReqInv

\* What state s must be for call c to be in it.
StateOK(c, s) ==
    /\ s.pc \notin {"idle", "starting"}
    /\ s.pc \in Active => s.id # 0
    /\ s.id # 0 => Known(s.id, c)
    /\ s.pc = "returning" \/ (s.pc = "done" /\ s.res # Error) => Gone(c)
    /\ s.res \in {None, Error, c}
    /\ NoStart(c) \/ Failed(s)
    /\ worker = "off" /\ restarts = 0 => s.pc = "done" /\ s.id = 0

\* What must hold of the requests of c that are pending then.
RequestsOK(c, s, m) ==
    /\ m.call = c /\ m.kind # "start"
    /\ inbox' # inbox => m.id = s.id /\ s.id # 0
    /\ \A r \in DOMAIN pending' : pending'[r].call = c => s.pc \in PcsOf(pending'[r].kind)
    /\ m.req \in DOMAIN pending' /\ m.kind # "other" =>
          \A r \in DOMAIN pending' :
             pending'[r].call = c /\ pending'[r].kind = m.kind => r = m.req
    /\ restarts = 0 /\ s.pc \in Over /\ s.id # 0 => Gone(c) \/ Freeing(c)'
    /\ worker = "off" /\ restarts = 0 => DOMAIN pending' = {}

\* One call goes on, and with it what is known of all calls.
LEMMA GoesOnKeeps ==
  ASSUME CInv, NEW c \in Calls, NEW s \in States, NEW m \in Messages, Unused(m.req),
         GoesOn(c, s), Asks(c, m), StateOK(c, s), RequestsOK(c, s, m)
  PROVE  CInv'
<1>1. ClientOK' /\ ReqInv' /\ NativeOK'
  BY Zenon, AsksKeepsIds
<1>2. /\ UNCHANGED <<table, used, worker, orphans, restarts>>
      /\ call'[c] = s /\ \A d \in Calls \ {c} : call'[d] = call[d]
  BY Zenon DEF GoesOn, native, CInv, ClientOK
<1>3. /\ \A j \in DOMAIN inbox : j \in DOMAIN inbox' /\ inbox'[j] = inbox[j]
      /\ \A j \in DOMAIN inbox' : j \in DOMAIN inbox
             \/ (j = Len(inbox) + 1 /\ inbox'[j] = m /\ inbox' = Append(inbox, m))
  BY Zenon, InboxGrows DEF Asks, CInv, ClientOK
<1>4. \A d : NoStart(d)' <=> NoStart(d)
  BY Zenon, <1>2, <1>3 DEF NoStart, RequestsOK
<1>5. \A d, i : Known(i, d)' <=> Known(i, d)
  BY Zenon, <1>2, <1>4 DEF Known
<1>6. \A d : Gone(d)' <=> Gone(d)
  BY Zenon, <1>2, <1>4 DEF Gone
<1>7. ASSUME NEW j \in DOMAIN inbox' PROVE MessageInv(inbox[j])'
  <2>1. CASE j \in DOMAIN inbox
    <3>1. PICK n \in Messages : n = inbox[j]
      BY <2>1 DEF CInv, ClientOK
    <3>2. inbox'[j] = n /\ MessageInv(n) /\ n.req # m.req /\ n.call \in Calls
      BY Zenon, <1>3, <2>1, <3>1 DEF CInv, Unused, Messages
    <3>3. n.req \in DOMAIN pending' => pending'[n.req] = [call |-> n.call, kind |-> n.kind]
      BY Zenon, <3>2 DEF MessageInv, Asks
    <3>4. n.kind = "start" =>
             Failed(call'[n.call]) \/ (n.req \in DOMAIN pending' /\ n.call \notin used')
      <4>1. CASE n.call = c
        BY Zenon, <1>2, <2>1, <3>1, <4>1 DEF StateOK, NoStart
      <4>2. CASE n.call # c
        <5>1. n.req \in DOMAIN pending => pending[n.req].call = n.call
          BY <3>2 DEF MessageInv
        <5> QED
          BY Zenon, <1>2, <3>2, <4>2, <5>1 DEF MessageInv, Asks
      <4> QED
        BY Zenon, <4>1, <4>2
    <3>5. n.kind # "start" => Known(n.id, n.call)'
      BY Zenon, <1>5, <3>2 DEF MessageInv
    <3> QED
      BY Zenon, <3>2, <3>3, <3>4, <3>5 DEF MessageInv
  <2>2. CASE j \notin DOMAIN inbox
    <3>1. inbox'[j] = m /\ inbox' # inbox
      BY Zenon, <1>3, <2>2
    <3>2. m.kind # "start" /\ m.id # 0 /\ Known(m.id, m.call)'
      BY Zenon, <1>5, <3>1 DEF RequestsOK, StateOK
    <3>3. m.req \in DOMAIN pending' => pending'[m.req] = [call |-> m.call, kind |-> m.kind]
      BY Zenon DEF Asks
    <3> QED
      BY Zenon, <3>1, <3>2, <3>3 DEF MessageInv
  <2> QED
    BY Zenon, <2>1, <2>2
<1>8. ASSUME NEW n \in orphans' PROVE OrphanInv(n)'
  <2>1. OrphanInv(n) /\ n \in orphans /\ n.call \in Calls
    BY Zenon, <1>2 DEF CInv, ClientOK, Messages
  <2>2. n.kind = "start" => Failed(call'[n.call])
    BY Zenon, <1>2, <2>1 DEF OrphanInv, StateOK, NoStart
  <2> QED
    BY Zenon, <1>5, <2>1, <2>2 DEF OrphanInv
<1>9. ASSUME NEW j \in DOMAIN outbox' PROVE AnswerInv(outbox[j])'
  <2>1. PICK i \in DOMAIN outbox : outbox'[j] = outbox[i]
    BY Zenon DEF GoesOn
  <2>2. PICK a : a = outbox[i]
    BY Zenon
  <2>3. AnswerInv(a) /\ a.req # m.req
    BY Zenon, <2>2 DEF CInv, Unused
  <2>4. a.req \in DOMAIN pending' => a.req \in DOMAIN pending /\ pending'[a.req] = pending[a.req]
    BY Zenon, <2>3 DEF Asks
  <2>5. AnswerInv(a)'
    BY Zenon, <1>5, <1>6, <2>3, <2>4 DEF AnswerInv
  <2> QED
    BY Zenon, <2>1, <2>2, <2>5
<1>10. ASSUME NEW r \in DOMAIN pending' PROVE PendingInv(r)'
  <2>1. pending'[r] \in Requests /\ pending'[r].call \in Calls
    BY Zenon, <1>1 DEF ClientOK, Requests
  <2>2. call'[pending'[r].call].pc \in PcsOf(pending'[r].kind)
    <3>1. CASE pending'[r].call = c
      BY Zenon, <1>2, <3>1 DEF RequestsOK
    <3>2. CASE pending'[r].call # c
      <4>1. r \in DOMAIN pending /\ pending'[r] = pending[r]
        BY <3>2 DEF Asks, RequestsOK
      <4> QED
        BY Zenon, <1>2, <2>1, <3>2, <4>1 DEF CInv, PendingInv
    <3> QED
      BY Zenon, <3>1, <3>2
  <2>3. ASSUME pending'[r].kind # "other", NEW q \in DOMAIN pending', pending'[q] = pending'[r]
        PROVE  q = r
    <3>1. CASE q = m.req \/ r = m.req
      BY <2>3, <3>1 DEF RequestsOK, Asks
    <3>2. CASE q # m.req /\ r # m.req
      <4>1. /\ q \in DOMAIN pending /\ pending'[q] = pending[q]
            /\ r \in DOMAIN pending /\ pending'[r] = pending[r]
        BY Zenon, <3>2 DEF Asks
      <4> QED
        BY Zenon, <2>3, <4>1 DEF CInv, PendingInv
    <3> QED
      BY Zenon, <3>1, <3>2
  <2> QED
    BY Zenon, <2>2, <2>3 DEF PendingInv
<1>11. ASSUME NEW d \in Calls PROVE CallInv(d)'
  <2>1. CASE d = c
    BY Zenon, <1>2, <1>5, <1>6, <2>1 DEF CallInv, StateOK, RequestsOK
  <2>2. CASE d # c
    <3>1. CallInv(d) /\ call'[d] = call[d]
      BY Zenon, <1>2, <2>2 DEF CInv
    <3>2. Freeing(d) => Freeing(d)'
      BY Zenon, <1>3 DEF Freeing
    <3> QED
      BY Zenon, <1>2, <1>4, <1>5, <1>6, <3>1, <3>2 DEF CallInv
  <2> QED
    BY Zenon, <2>1, <2>2
<1>12. WorkerInv'
  BY Zenon, <1>2 DEF CInv, WorkerInv, StateOK, RequestsOK
<1> QED
  BY Zenon, <1>1, <1>7, <1>8, <1>9, <1>10, <1>11, <1>12 DEF CInv

\* What is left of the requests that are pending when some of c are over.
Left(p, c) ==
    /\ p \in [DOMAIN p -> Requests] /\ DOMAIN p \subseteq DOMAIN pending
    /\ \A q \in DOMAIN p : p[q] = pending[q]
    /\ \A q \in DOMAIN pending : q \in DOMAIN p \/ pending[q].call = c

\* m is the message of a new request beside those in p.
Sent(m, c, kind, id, p) ==
    /\ m.call = c /\ m.kind = kind /\ m.id = id
    /\ Unused(m.req) /\ Asks(c, m) /\ m.req \in DOMAIN pending'
    /\ \A q \in DOMAIN pending' :
          q = m.req \/ (q \in DOMAIN p /\ pending'[q] = p[q])
    /\ worker = "up" => inbox' = Append(inbox, m)

\* _sendRequest makes a new request, and a message while the worker is alive.
LEMMA SendIs ==
  ASSUME ClientOK, NEW c \in Calls, NEW kind \in Kinds, NEW id \in Nat,
         NEW p, Left(p, c), SendRequest(p, c, kind, id)
  PROVE  \E m \in Messages : Sent(m, c, kind, id, p)
<1>1. PICK n : n = Fresh
  BY Zenon
<1>2. Unused(n)
  BY Zenon, <1>1, FreshIs DEF Unused
<1> DEFINE m == [req |-> n, call |-> c, kind |-> kind, id |-> id]
           e == [call |-> c, kind |-> kind]
<1>3. m \in Messages /\ m.req = n /\ m.call = c /\ m.kind = kind /\ m.id = id
  BY Zenon, <1>2 DEF Unused, Messages
<1>4. e \in Requests
  BY Zenon DEF Requests
<1>5. /\ pending' = [r \in DOMAIN p \cup {n} |-> IF r = n THEN e ELSE p[r]]
      /\ inbox' = IF worker = "up" THEN Append(inbox, m) ELSE inbox
  BY Zenon, <1>1, <1>3 DEF SendRequest
<1>6. e = [call |-> m.call, kind |-> m.kind]
  BY Zenon, <1>3
<1> HIDE DEF m, e
<1>7. n \notin DOMAIN p
  BY Zenon, <1>2 DEF Left, Unused
<1>8. /\ DOMAIN pending' = DOMAIN p \cup {n} /\ pending'[n] = e
      /\ \A q \in DOMAIN p : pending'[q] = p[q]
      /\ pending' \in [DOMAIN pending' -> Requests]
  BY Zenon, <1>4, <1>5, <1>7 DEF Left
<1>9. IsFiniteSet(DOMAIN pending')
  <2>1. IsFiniteSet(DOMAIN p)
    BY Zenon, FS_Subset DEF Left, ClientOK
  <2> QED
    BY Zenon, <1>8, <2>1, FS_AddElement
<1>10. Asks(c, m)
  BY Zenon, <1>3, <1>5, <1>6, <1>8, <1>9 DEF Asks, Left
<1>11. Sent(m, c, kind, id, p)
  BY Zenon, <1>2, <1>3, <1>5, <1>8, <1>10 DEF Sent
<1> QED
  BY Zenon, <1>3, <1>11

\* Requests of c are over and no new one is made.
LEMMA NoSendIs ==
  ASSUME ClientOK, NEW c \in Calls, NEW p, Left(p, c), pending' = p, inbox' = inbox
  PROVE  \E m \in Messages :
            /\ m.call = c /\ m.kind = "poll"
            /\ Unused(m.req) /\ Asks(c, m) /\ m.req \notin DOMAIN pending'
<1>1. PICK n : n = Fresh
  BY Zenon
<1>2. Unused(n)
  BY Zenon, <1>1, FreshIs DEF Unused
<1> DEFINE m == [req |-> n, call |-> c, kind |-> "poll", id |-> 0]
<1>3. m \in Messages /\ m.req = n /\ m.call = c /\ m.kind = "poll"
  BY Zenon, <1>2 DEF Unused, Messages, Kinds
<1> HIDE DEF m
<1>4. n \notin DOMAIN p
  BY Zenon, <1>2 DEF Left, Unused
<1>5. IsFiniteSet(DOMAIN pending')
  BY Zenon, FS_Subset DEF Left, ClientOK
<1>6. Asks(c, m)
  BY Zenon, <1>3, <1>4, <1>5 DEF Asks, Left
<1> QED
  BY Zenon, <1>2, <1>3, <1>4, <1>6

\* Call c goes on in state s with the requests p, and sends a message of kind send.
LEMMA CallGoesOn ==
  ASSUME CInv, NEW c \in Calls, NEW s \in States, NEW p, Left(p, c),
         NEW send \in (Kinds \ {"start"}) \cup {"none"},
         GoesOn(c, s), StateOK(c, s),
         IF send = "none" THEN pending' = p /\ inbox' = inbox ELSE SendRequest(p, c, send, s.id),
         send # "none" => s.id # 0 /\ s.pc \in PcsOf(send) /\ (worker = "off" => restarts # 0),
         \A q \in DOMAIN p : p[q].call = c =>
            s.pc \in PcsOf(p[q].kind) /\ (p[q].kind = send => send = "other"),
         restarts = 0 /\ s.pc \in Over /\ s.id # 0 => Gone(c) \/ Freeing(c) \/ send = "free"
  PROVE  CInv'
<1>1. ClientOK /\ WorkerInv /\ s.id \in Nat
  BY Zenon DEF CInv, States
<1>2. CASE send = "none"
  <2>1. PICK m \in Messages :
           /\ m.call = c /\ m.kind = "poll"
           /\ Unused(m.req) /\ Asks(c, m) /\ m.req \notin DOMAIN pending'
    BY Zenon, <1>1, <1>2, NoSendIs
  <2>2. Gone(c) \/ Freeing(c) => Gone(c) \/ Freeing(c)'
    BY Zenon, <1>2 DEF Freeing
  <2>3. worker = "off" /\ restarts = 0 => DOMAIN pending' = {}
    BY Zenon, <1>1, <1>2 DEF WorkerInv, Left
  <2>4. RequestsOK(c, s, m)
    BY Zenon, <1>2, <2>1, <2>2, <2>3 DEF RequestsOK
  <2> QED
    BY Zenon, <2>1, <2>4, GoesOnKeeps
<1>3. CASE send # "none"
  <2>1. send \in Kinds /\ send # "start" /\ SendRequest(p, c, send, s.id)
    BY Zenon, <1>3
  <2>2. PICK m \in Messages : Sent(m, c, send, s.id, p)
    BY Zenon, <1>1, <2>1, SendIs
  <2>3. /\ m.call = c /\ m.kind = send /\ m.id = s.id
        /\ Unused(m.req) /\ Asks(c, m) /\ m.req \in DOMAIN pending'
        /\ \A q \in DOMAIN pending' :
              q = m.req \/ (q \in DOMAIN p /\ pending'[q] = p[q])
        /\ worker = "up" => inbox' = Append(inbox, m)
    BY Zenon, <2>2 DEF Sent
  <2>4. pending'[m.req] = [call |-> c, kind |-> send]
    BY Zenon, <2>3 DEF Asks
  <2>5. \A q \in DOMAIN pending' : pending'[q].call = c => s.pc \in PcsOf(pending'[q].kind)
    BY <1>3, <2>3, <2>4
  <2>6. send # "other" =>
           \A q \in DOMAIN pending' : pending'[q].call = c /\ pending'[q].kind = send => q = m.req
    BY Zenon, <2>3
  <2>7. restarts = 0 /\ s.pc \in Over /\ s.id # 0 => Gone(c) \/ Freeing(c)'
    <3>1. restarts = 0 => worker = "up"
      BY Zenon, <1>1, <1>3 DEF WorkerInv, ClientOK
    <3>2. worker = "up" /\ send = "free" => Freeing(c)'
      BY <1>1, <2>3, AppendIs DEF Freeing, ClientOK
    <3>3. Freeing(c) => Freeing(c)'
      BY Zenon, <1>1, <2>3, InboxGrows DEF Freeing, ClientOK, Asks
    <3> QED
      BY Zenon, <3>1, <3>2, <3>3
  <2>8. RequestsOK(c, s, m)
    BY Zenon, <1>3, <2>1, <2>3, <2>5, <2>6, <2>7 DEF RequestsOK
  <2> QED
    BY Zenon, <2>3, <2>8, GoesOnKeeps
<1> QED
  BY Zenon, <1>2, <1>3
-----------------------------------------------------------------------------
(* What a call does when a request of its completes.                       *)

\* A call goes on to another place of executeAsync.
LEMMA GoesIs ==
  ASSUME NEW s \in States, NEW pc \in Pcs, NEW kind
  PROVE  /\ Goes(s, pc, kind).s \in States /\ Goes(s, pc, kind).send = kind
         /\ Goes(s, pc, kind).s.pc = pc /\ Goes(s, pc, kind).s.id = s.id
         /\ Goes(s, pc, kind).s.res = s.res
<1> DEFINE t == [s EXCEPT !.pc = pc]
<1>1. t \in States /\ t.pc = pc /\ t.id = s.id /\ t.res = s.res
  BY Zenon DEF States
<1>2. Goes(s, pc, kind).s = t /\ Goes(s, pc, kind).send = kind
  BY Zenon DEF Goes
<1> HIDE DEF t
<1> QED
  BY Zenon, <1>1, <1>2

\* executeAsync returns or throws.
LEMMA EndsIs ==
  ASSUME NEW s \in States, NEW res \in Results
  PROVE  /\ Ends(s, res).s \in States /\ Ends(s, res).send = "none"
         /\ Ends(s, res).s.pc = "done" /\ Ends(s, res).s.id = s.id
         /\ Ends(s, res).s.res = res
<1> DEFINE a == [s EXCEPT !.pc = "done"]
           t == [a EXCEPT !.res = res]
<1>1. a \in States /\ a.pc = "done" /\ a.id = s.id
  BY Zenon DEF States, Pcs
<1> HIDE DEF a
<1>2. t \in States /\ t.pc = "done" /\ t.id = s.id /\ t.res = res
  BY Zenon, <1>1 DEF States
<1>3. Ends(s, res).s = t /\ Ends(s, res).send = "none"
  BY Zenon DEF Ends, a
<1> HIDE DEF t
<1> QED
  BY Zenon, <1>2, <1>3

\* A call goes on with a result.
LEMMA GoesWithRes ==
  ASSUME NEW s \in States, NEW v \in Results, NEW pc \in Pcs, NEW kind,
         NEW g, g = Goes([s EXCEPT !.res = v], pc, kind)
  PROVE  /\ g.s \in States /\ g.send = kind /\ g.s.pc = pc /\ g.s.id = s.id /\ g.s.res = v
<1> DEFINE u == [s EXCEPT !.res = v]
<1>1. u \in States /\ u.id = s.id /\ u.res = v
  BY Zenon DEF States
<1> HIDE DEF u
<1>2. /\ Goes(u, pc, kind).s \in States /\ Goes(u, pc, kind).send = kind
      /\ Goes(u, pc, kind).s.pc = pc /\ Goes(u, pc, kind).s.id = s.id
      /\ Goes(u, pc, kind).s.res = v
  BY <1>1, GoesIs
<1>3. g = Goes(u, pc, kind)
  BY Zenon DEF u
<1> QED
  BY Zenon, <1>2, <1>3

\* A call goes on with the id of its native request.
LEMMA GoesWithId ==
  ASSUME NEW s \in States, NEW v \in Nat, NEW pc \in Pcs, NEW kind,
         NEW g, g = Goes([s EXCEPT !.id = v], pc, kind)
  PROVE  /\ g.s \in States /\ g.send = kind /\ g.s.pc = pc /\ g.s.id = v /\ g.s.res = s.res
<1> DEFINE u == [s EXCEPT !.id = v]
<1>1. u \in States /\ u.id = v /\ u.res = s.res
  BY Zenon DEF States
<1> HIDE DEF u
<1>2. /\ Goes(u, pc, kind).s \in States /\ Goes(u, pc, kind).send = kind
      /\ Goes(u, pc, kind).s.pc = pc /\ Goes(u, pc, kind).s.id = v
      /\ Goes(u, pc, kind).s.res = s.res
  BY <1>1, GoesIs
<1>3. g = Goes(u, pc, kind)
  BY Zenon DEF u
<1> QED
  BY Zenon, <1>2, <1>3

\* A request of kind k completes with v: the call goes from s to t and sends.
Follows(k, s, v, t, send) ==
    /\ t \in States
    /\ k = "start" =>
          \/ /\ v \in {0, Error} /\ t.pc = "done" /\ t.id = s.id /\ send = "none"
             /\ t.res = IF v = 0 THEN None ELSE Error
          \/ /\ v \notin {0, Error} /\ t.pc = "polling" /\ t.id = v /\ send = "poll"
             /\ t.res = s.res
    /\ k # "start" => t.id = s.id
    /\ k = "poll" =>
          /\ t.res \in {s.res, Error}
          /\ \/ t.pc = "freeing" /\ send = "free"
             \/ t.pc = "getting" /\ send = "get"
             \/ t.pc = "cancelling" /\ send = "cancel"
             \/ t.pc = "waiting" /\ send = "none"
    /\ k = "cancel" => t.res = v /\ t.pc = "freeing" /\ send = "free"
    /\ k = "get" =>
          \/ s.pc = "getting" /\ t.res = v /\ t.pc = "freeing" /\ send = "free"
          \/ s.pc = "freeing" /\ t.res = v /\ t.pc = "freeing" /\ send = "none"
          \/ s.pc = "returning" /\ t.res = v /\ t.pc = "done" /\ send = "none"
          \/ /\ s.pc \notin {"getting", "freeing", "returning"}
             /\ t.res = s.res /\ t.pc = s.pc /\ send = "none"
    /\ k = "free" =>
          /\ send = "none"
          /\ \/ v = Error /\ t.res = Error /\ t.pc = "done"
             \/ v # Error /\ t.res = s.res /\ t.pc \in {"returning", "done"}
    /\ k = "other" => t.res = s.res /\ t.pc = s.pc /\ send = "none"

\* executeAsyncStart is answered.
LEMMA OnStartFollows ==
  ASSUME NEW s \in States, NEW v \in Nat \cup {Error}
  PROVE  Follows("start", s, v, OnStart(s, v).s, OnStart(s, v).send)
<1>1. CASE v \in {0, Error}
  <2>1. PICK res \in Results : res = IF v = 0 THEN None ELSE Error
    BY Zenon DEF Results
  <2>2. OnStart(s, v) = Ends(s, res)
    BY Zenon, <1>1, <2>1 DEF OnStart
  <2> QED
    BY <1>1, <2>1, <2>2, EndsIs DEF Follows
<1>2. CASE v \notin {0, Error}
  <2>1. v \in Nat /\ "polling" \in Pcs
    BY Zenon, <1>2 DEF Pcs, Active
  <2>2. PICK g : g = Goes([s EXCEPT !.id = v], "polling", "poll")
    BY Zenon
  <2>3. g.s \in States /\ g.send = "poll" /\ g.s.pc = "polling" /\ g.s.id = v /\ g.s.res = s.res
    BY <2>1, <2>2, GoesWithId
  <2>4. OnStart(s, v) = g
    BY Zenon, <1>2, <2>2 DEF OnStart
  <2> QED
    BY Zenon, <1>2, <2>3, <2>4 DEF Follows
<1> QED
  BY Zenon, <1>1, <1>2

\* asyncPoll is answered.
LEMMA OnPollFollows ==
  ASSUME NEW s \in States, NEW v
  PROVE  Follows("poll", s, v, OnPoll(s, v).s, OnPoll(s, v).send)
<1>1. {"freeing", "getting", "cancelling", "waiting"} \subseteq Pcs /\ Error \in Results
  BY Zenon DEF Pcs, Active, Results
<1>2. PICK g : g = Goes([s EXCEPT !.res = Error], "freeing", "free")
  BY Zenon
<1>3. g.s \in States /\ g.send = "free" /\ g.s.pc = "freeing" /\ g.s.id = s.id /\ g.s.res = Error
  BY <1>1, <1>2, GoesWithRes
<1>4. \/ OnPoll(s, v) = g
      \/ OnPoll(s, v) = Goes(s, "getting", "get")
      \/ OnPoll(s, v) = Goes(s, "cancelling", "cancel")
      \/ OnPoll(s, v) = Goes(s, "waiting", "none")
      \/ OnPoll(s, v) = Goes(s, "freeing", "free")
  BY <1>2, ValuesAssumption DEF OnPoll
<1>5. CASE OnPoll(s, v) = g
  BY Zenon, <1>3, <1>5 DEF Follows
<1>6. CASE OnPoll(s, v) = Goes(s, "getting", "get")
  <2>1. PICK t, send : t = OnPoll(s, v).s /\ send = OnPoll(s, v).send
    BY Zenon
  <2>2. t \in States /\ send = "get" /\ t.pc = "getting" /\ t.id = s.id /\ t.res = s.res
    BY <1>1, <1>6, <2>1, GoesIs
  <2>3. Follows("poll", s, v, t, send)
    BY Zenon, <2>2 DEF Follows
  <2> QED
    BY Zenon, <2>1, <2>3
<1>7. CASE OnPoll(s, v) = Goes(s, "cancelling", "cancel")
  <2>1. PICK t, send : t = OnPoll(s, v).s /\ send = OnPoll(s, v).send
    BY Zenon
  <2>2. t \in States /\ send = "cancel" /\ t.pc = "cancelling" /\ t.id = s.id /\ t.res = s.res
    BY <1>1, <1>7, <2>1, GoesIs
  <2>3. Follows("poll", s, v, t, send)
    BY Zenon, <2>2 DEF Follows
  <2> QED
    BY Zenon, <2>1, <2>3
<1>8. CASE OnPoll(s, v) = Goes(s, "waiting", "none")
  <2>1. PICK t, send : t = OnPoll(s, v).s /\ send = OnPoll(s, v).send
    BY Zenon
  <2>2. t \in States /\ send = "none" /\ t.pc = "waiting" /\ t.id = s.id /\ t.res = s.res
    BY <1>1, <1>8, <2>1, GoesIs
  <2>3. Follows("poll", s, v, t, send)
    BY Zenon, <2>2 DEF Follows
  <2> QED
    BY Zenon, <2>1, <2>3
<1>9. CASE OnPoll(s, v) = Goes(s, "freeing", "free")
  <2>1. PICK t, send : t = OnPoll(s, v).s /\ send = OnPoll(s, v).send
    BY Zenon
  <2>2. t \in States /\ send = "free" /\ t.pc = "freeing" /\ t.id = s.id /\ t.res = s.res
    BY <1>1, <1>9, <2>1, GoesIs
  <2>3. Follows("poll", s, v, t, send)
    BY Zenon, <2>2 DEF Follows
  <2> QED
    BY Zenon, <2>1, <2>3
<1> QED
  BY Zenon, <1>4, <1>5, <1>6, <1>7, <1>8, <1>9

\* asyncCancel at the deadline is answered.
LEMMA OnCancelFollows ==
  ASSUME NEW s \in States, NEW v \in Results
  PROVE  Follows("cancel", s, v, OnCancel(s, v).s, OnCancel(s, v).send)
<1>1. "freeing" \in Pcs
  BY Zenon DEF Pcs, Active
<1>2. PICK g : g = Goes([s EXCEPT !.res = v], "freeing", "free")
  BY Zenon
<1>3. g.s \in States /\ g.send = "free" /\ g.s.pc = "freeing" /\ g.s.id = s.id /\ g.s.res = v
  BY <1>1, <1>2, GoesWithRes
<1>4. OnCancel(s, v) = g
  BY Zenon, <1>2 DEF OnCancel
<1> QED
  BY Zenon, <1>3, <1>4 DEF Follows

\* asyncGetResult is answered.
LEMMA OnGetFollows ==
  ASSUME NEW s \in States, NEW v \in Results
  PROVE  Follows("get", s, v, OnGet(s, v).s, OnGet(s, v).send)
<1>1. "freeing" \in Pcs /\ s.pc \in Pcs
  BY Zenon DEF Pcs, Active, States
<1>2. CASE s.pc \in {"getting", "freeing"}
  <2>1. PICK send : send = IF s.pc = "getting" THEN "free" ELSE "none"
    BY Zenon
  <2>2. PICK g : g = Goes([s EXCEPT !.res = v], "freeing", send)
    BY Zenon
  <2>3. g.s \in States /\ g.send = send /\ g.s.pc = "freeing" /\ g.s.id = s.id /\ g.s.res = v
    BY <1>1, <2>2, GoesWithRes
  <2>4. OnGet(s, v) = g
    BY Zenon, <1>2, <2>1, <2>2 DEF OnGet
  <2> QED
    BY Zenon, <1>2, <2>1, <2>3, <2>4 DEF Follows
<1>3. CASE s.pc = "returning"
  <2>1. OnGet(s, v) = Ends(s, v)
    BY Zenon, <1>3 DEF OnGet
  <2> QED
    BY <1>3, <2>1, EndsIs DEF Follows
<1>4. CASE s.pc \notin {"getting", "freeing", "returning"}
  <2>1. OnGet(s, v) = Goes(s, s.pc, "none")
    BY Zenon, <1>4 DEF OnGet
  <2> QED
    BY <1>1, <1>4, <2>1, GoesIs DEF Follows
<1> QED
  BY Zenon, <1>2, <1>3, <1>4

\* asyncFree in the finally block is answered.
LEMMA OnFreeFollows ==
  ASSUME NEW s \in States, NEW v, NEW getting \in BOOLEAN
  PROVE  Follows("free", s, v, OnFree(s, v, getting).s, OnFree(s, v, getting).send)
<1>1. "returning" \in Pcs /\ s.res \in Results /\ Error \in Results
  BY Zenon DEF Pcs, Active, States, Results
<1>2. \/ v = Error /\ OnFree(s, v, getting) = Ends(s, Error)
      \/ v # Error /\ OnFree(s, v, getting) = Goes(s, "returning", "none")
      \/ v # Error /\ OnFree(s, v, getting) = Ends(s, s.res)
  BY Zenon DEF OnFree
<1>3. PICK g : g = OnFree(s, v, getting)
  BY Zenon
<1>4. CASE v = Error /\ g = Ends(s, Error)
  <2>1. PICK t, send : t = g.s /\ send = g.send
    BY Zenon
  <2>2. t \in States /\ send = "none" /\ t.pc = "done" /\ t.id = s.id /\ t.res = Error
    BY Zenon, <1>1, <1>4, <2>1, EndsIs
  <2>3. Follows("free", s, v, t, send)
    BY Zenon, <1>4, <2>2 DEF Follows
  <2> QED
    BY Zenon, <1>3, <2>1, <2>3
<1>5. CASE v # Error /\ g = Goes(s, "returning", "none")
  <2>1. PICK t, send : t = g.s /\ send = g.send
    BY Zenon
  <2>2. t \in States /\ send = "none" /\ t.pc = "returning" /\ t.id = s.id /\ t.res = s.res
    BY <1>1, <1>5, <2>1, GoesIs
  <2>3. Follows("free", s, v, t, send)
    BY Zenon, <1>5, <2>2 DEF Follows
  <2> QED
    BY Zenon, <1>3, <2>1, <2>3
<1>6. CASE v # Error /\ g = Ends(s, s.res)
  <2>1. PICK t, send : t = g.s /\ send = g.send
    BY Zenon
  <2>2. t \in States /\ send = "none" /\ t.pc = "done" /\ t.id = s.id /\ t.res = s.res
    BY Zenon, <1>1, <1>6, <2>1, EndsIs
  <2>3. Follows("free", s, v, t, send)
    BY Zenon, <1>6, <2>2 DEF Follows
  <2> QED
    BY Zenon, <1>3, <2>1, <2>3
<1> QED
  BY Zenon, <1>2, <1>3, <1>4, <1>5, <1>6

\* An asyncCancel from elsewhere is answered: executeAsync does not wait for it.
LEMMA OtherFollows ==
  ASSUME NEW s \in States, NEW v
  PROVE  Follows("other", s, v, Goes(s, s.pc, "none").s, Goes(s, s.pc, "none").send)
<1>1. s.pc \in Pcs
  BY Zenon DEF States
<1> QED
  BY <1>1, GoesIs DEF Follows

\* Call c goes on in state t and sends a message, with the requests p left.
Proceeds(c, t, send, p) ==
    /\ call' = [call EXCEPT ![c] = t]
    /\ IF send = "none"
       THEN pending' = p /\ inbox' = inbox
       ELSE SendRequest(p, c, send, t.id)

\* A request completes: its call, and no other, goes on.
LEMMA CompleteIs ==
  ASSUME ClientOK, NEW r \in DOMAIN pending, NEW v \in Results, Complete(r, v),
         pending[r].kind = "start" => v \in Nat \cup {Error},
         NEW c \in Calls, c = pending[r].call, NEW k \in Kinds, k = pending[r].kind,
         NEW s \in States, s = call[c], NEW p, p = Without(r)
  PROVE  \E t \in States : \E send : Follows(k, s, v, t, send) /\ Proceeds(c, t, send, p)
<1> DEFINE getting == \E q \in DOMAIN pending : pending[q] = [call |-> c, kind |-> "get"]
           next == CASE k = "start" -> OnStart(s, v)
                     [] k = "poll" -> OnPoll(s, v)
                     [] k = "cancel" -> OnCancel(s, v)
                     [] k = "get" -> OnGet(s, v)
                     [] k = "free" -> OnFree(s, v, getting)
                     [] OTHER -> Goes(s, s.pc, "none")
<1>1. Proceeds(c, next.s, next.send, p)
  BY Zenon DEF Complete, Proceeds
<1> HIDE DEF getting
<1>2. Follows(k, s, v, next.s, next.send)
  <2>1. CASE k = "start"
    <3>1. next = OnStart(s, v)
      BY Zenon, <2>1
    <3> QED
      BY Zenon, <2>1, <3>1, OnStartFollows
  <2>2. CASE k = "poll"
    <3>1. next = OnPoll(s, v)
      BY Zenon, <2>2
    <3> QED
      BY Zenon, <2>2, <3>1, OnPollFollows
  <2>3. CASE k = "cancel"
    <3>1. next = OnCancel(s, v)
      BY Zenon, <2>3
    <3> QED
      BY Zenon, <2>3, <3>1, OnCancelFollows
  <2>4. CASE k = "get"
    <3>1. next = OnGet(s, v)
      BY Zenon, <2>4
    <3> QED
      BY Zenon, <2>4, <3>1, OnGetFollows
  <2>5. CASE k = "free"
    <3>1. next = OnFree(s, v, getting)
      BY Zenon, <2>5
    <3> QED
      BY Zenon, <2>5, <3>1, OnFreeFollows DEF getting
  <2>6. CASE k = "other"
    <3>1. next = Goes(s, s.pc, "none")
      BY Zenon, <2>6
    <3> QED
      BY Zenon, <2>6, <3>1, OtherFollows
  <2> QED
    BY Zenon, <2>1, <2>2, <2>3, <2>4, <2>5, <2>6 DEF Kinds
<1> HIDE DEF next
<1>3. next.s \in States
  BY Zenon, <1>2 DEF Follows
<1> QED
  BY Zenon, <1>1, <1>2, <1>3

\* What the answer v to request r tells, unless there is none.
Tells(r, v) ==
    LET p == pending[r] IN
    v # Error =>
       /\ p.kind = "start" => Known(v, p.call)
       /\ p.kind = "get" => v \in {None, p.call}
       /\ p.kind = "cancel" => v = None
       /\ p.kind = "free" => Gone(p.call)

\* The new state and message of a call fit.
Fits(c, t, send, p) ==
    /\ StateOK(c, t) /\ send \in (Kinds \ {"start"}) \cup {"none"}
    /\ send # "none" => t.id # 0 /\ t.pc \in PcsOf(send)
    /\ \A q \in DOMAIN p : p[q].call = c =>
          t.pc \in PcsOf(p[q].kind) /\ (p[q].kind = send => send = "other")
    /\ restarts = 0 /\ t.pc \in Over /\ t.id # 0 => Gone(c) \/ Freeing(c) \/ send = "free"

\* What a call does with a true answer, or with none, fits what is known of it.
LEMMA FollowsFits ==
  ASSUME CInv, NEW r \in DOMAIN pending, NEW v \in Results, Tells(r, v),
         NEW c \in Calls, c = pending[r].call, NEW k \in Kinds, k = pending[r].kind,
         NEW s \in States, s = call[c],
         NEW t, NEW send, Follows(k, s, v, t, send),
         NEW p, p = Without(r)
  PROVE  Fits(c, t, send, p)
<1>1. CallInv(c) /\ s.pc \in PcsOf(k) /\ s.pc \in Pcs
  BY Zenon DEF CInv, PendingInv, States
<1>2. worker = "off" => restarts # 0
  BY Zenon DEF CInv, WorkerInv
<1>3. \A q \in DOMAIN p : p[q].call = c =>
         p[q].kind \in Kinds /\ s.pc \in PcsOf(p[q].kind) /\ (p[q].kind = k => k = "other")
  <2> SUFFICES ASSUME NEW q \in DOMAIN p, p[q].call = c
               PROVE  p[q].kind \in Kinds /\ s.pc \in PcsOf(p[q].kind) /\ (p[q].kind = k => k = "other")
    BY Zenon
  <2>1. q \in DOMAIN pending /\ q # r /\ p[q] = pending[q]
    BY Zenon DEF Without, Restrict
  <2>2. PendingInv(q) /\ PendingInv(r) /\ pending[q] \in Requests /\ pending[r] \in Requests
    BY Zenon, <2>1 DEF CInv, ClientOK
  <2>3. pending[q].kind = k => pending[q] = pending[r]
    BY <2>1, <2>2 DEF Requests
  <2> QED
    BY Zenon, <2>1, <2>2, <2>3 DEF PendingInv, Requests
<1>4. CASE k = "start"
  <2>1. s.id = 0 /\ s.res \in {None, Error, c} /\ s.pc = "starting"
    BY Zenon, <1>1, <1>4 DEF CallInv, PcsOf
  <2>2. \A q \in DOMAIN p : p[q].call # c
    BY Zenon, <1>3, <1>4, <2>1 DEF PcsOf, Kinds, Active
  <2>3. CASE v = Error
    <3>1. t.pc = "done" /\ t.id = 0 /\ t.res = Error /\ send = "none"
      BY <1>4, <2>1, <2>3, ValuesAssumption DEF Follows
    <3> QED
      BY Zenon, <1>2, <2>2, <3>1 DEF Fits, StateOK, Failed, Active
  <2>4. CASE v # Error
    <3>1. Known(v, c) /\ NoStart(c)
      BY Zenon, <1>4, <2>4 DEF Tells, Known
    <3>2. v = 0 => Gone(c)
      BY <3>1 DEF Known, Gone, CInv, NativeOK
    <3> QED
      BY Zenon, <1>2, <1>4, <2>1, <2>2, <2>4, <3>1, <3>2
         DEF Follows, Fits, StateOK, Kinds, Active, Over, PcsOf
  <2> QED
    BY Zenon, <2>3, <2>4
<1>5. CASE k # "start"
  <2>1. t.id = s.id /\ s.pc \in Active \cup {"done"}
    BY Zenon, <1>1, <1>5 DEF Follows, PcsOf, Kinds, Active
  <2>2. /\ NoStart(c) \/ Failed(s)
        /\ s.id # 0 => Known(s.id, c)
        /\ s.pc \in Active => s.id # 0
        /\ s.res \in {None, Error, c}
        /\ s.pc = "returning" \/ (s.pc = "done" /\ s.res # Error) => Gone(c)
        /\ restarts = 0 /\ s.pc \in Over /\ s.id # 0 => Gone(c) \/ Freeing(c)
    BY Zenon, <1>1, <2>1 DEF CallInv, Known, Gone, Failed
  <2>3. CASE k = "poll"
    <3>1. s.pc = "polling"
      BY Zenon, <1>1, <2>3 DEF PcsOf
    <3>2. \A q \in DOMAIN p : p[q].call = c => p[q].kind = "other"
      BY Zenon, <1>3, <2>3, <3>1 DEF PcsOf, Kinds
    <3>3. s.id # 0 /\ NoStart(c) /\ ~Failed(s)
      BY Zenon, <2>2, <3>1 DEF Active, Failed
    <3> QED
      BY Zenon, <1>2, <2>1, <2>2, <2>3, <3>2, <3>3
         DEF Follows, Fits, StateOK, Kinds, Active, Over, PcsOf
  <2>4. CASE k = "cancel"
    <3>1. s.pc = "cancelling" /\ v \in {None, Error}
      BY Zenon, <1>1, <2>4 DEF PcsOf, Tells
    <3>2. \A q \in DOMAIN p : p[q].call = c => p[q].kind = "other"
      BY Zenon, <1>3, <2>4, <3>1 DEF PcsOf, Kinds
    <3>3. s.id # 0 /\ NoStart(c)
      BY Zenon, <2>2, <3>1 DEF Active, Failed
    <3> QED
      BY Zenon, <1>2, <2>1, <2>2, <2>4, <3>1, <3>2, <3>3
         DEF Follows, Fits, StateOK, Kinds, Active, Over, PcsOf
  <2>5. CASE k = "get"
    <3>1. s.pc \in {"getting", "freeing", "returning", "done"} /\ v \in {None, Error, c}
      BY Zenon, <1>1, <2>5 DEF PcsOf, Tells
    <3>2. \A q \in DOMAIN p : p[q].call = c =>
             p[q].kind = "other" \/ (p[q].kind = "free" /\ s.pc = "freeing")
      BY Zenon, <1>3, <2>5, <3>1 DEF PcsOf, Kinds
    <3>3. s.pc \in {"getting", "freeing", "returning"} => s.id # 0 /\ NoStart(c)
      BY Zenon, <2>2 DEF Active, Failed
    <3>4. CASE s.pc \in {"getting", "freeing"}
      BY Zenon, <1>2, <2>1, <2>2, <2>5, <3>1, <3>2, <3>3, <3>4
         DEF Follows, Fits, StateOK, Kinds, Active, Over, PcsOf
    <3>5. CASE s.pc \in {"returning", "done"}
      BY Zenon, <1>2, <2>1, <2>2, <2>5, <3>1, <3>2, <3>3, <3>5
         DEF Follows, Fits, StateOK, Kinds, Active, Over, PcsOf, Failed
    <3> QED
      BY Zenon, <3>1, <3>4, <3>5
  <2>6. CASE k = "free"
    <3>1. s.pc = "freeing" /\ (v # Error => Gone(c))
      BY Zenon, <1>1, <2>6 DEF PcsOf, Tells
    <3>2. \A q \in DOMAIN p : p[q].call = c => p[q].kind \in {"other", "get"}
      BY Zenon, <1>3, <2>6, <3>1 DEF PcsOf, Kinds
    <3>3. s.id # 0 /\ NoStart(c)
      BY Zenon, <2>2, <3>1 DEF Active, Failed
    <3> QED
      BY Zenon, <1>2, <2>1, <2>2, <2>6, <3>1, <3>2, <3>3
         DEF Follows, Fits, StateOK, Kinds, Active, Over, PcsOf
  <2>7. CASE k = "other"
    <3>1. t.pc = s.pc /\ t.res = s.res /\ send = "none"
      BY Zenon, <2>7 DEF Follows
    <3>2. \A q \in DOMAIN p : p[q].call = c => s.pc \in PcsOf(p[q].kind) /\ p[q].kind # "none"
      BY Zenon, <1>3 DEF Kinds
    <3> QED
      BY Zenon, <1>2, <2>1, <2>2, <3>1, <3>2 DEF Fits, StateOK, Active, Failed
  <2> QED
    BY Zenon, <1>5, <2>3, <2>4, <2>5, <2>6, <2>7 DEF Kinds
<1> QED
  BY Zenon, <1>4, <1>5

\* Call c is in state t, and has sent its message; answers may be dropped.
LEMMA ProceedsKeeps ==
  ASSUME CInv, NEW c \in Calls, NEW t \in States, NEW send, NEW p, Left(p, c),
         Proceeds(c, t, send, p), Fits(c, t, send, p),
         send # "none" /\ worker = "off" => restarts # 0,
         UNCHANGED <<native, worker, orphans, restarts>>, outbox' \in Seq(Responses),
         \A j \in DOMAIN outbox' : \E i \in DOMAIN outbox : outbox'[j] = outbox[i]
  PROVE  CInv'
<1>1. GoesOn(c, t)
  BY Zenon DEF GoesOn, Proceeds
<1>2. /\ StateOK(c, t) /\ send \in (Kinds \ {"start"}) \cup {"none"}
      /\ send # "none" => t.id # 0 /\ t.pc \in PcsOf(send) /\ (worker = "off" => restarts # 0)
      /\ \A q \in DOMAIN p : p[q].call = c =>
            t.pc \in PcsOf(p[q].kind) /\ (p[q].kind = send => send = "other")
      /\ restarts = 0 /\ t.pc \in Over /\ t.id # 0 => Gone(c) \/ Freeing(c) \/ send = "free"
  BY Zenon DEF Fits
<1>3. IF send = "none"
      THEN pending' = p /\ inbox' = inbox
      ELSE SendRequest(p, c, send, t.id)
  BY Zenon DEF Proceeds
<1> QED
  BY Zenon, <1>1, <1>2, <1>3, CallGoesOn

\* A request completes with a true answer, or with none.
LEMMA CompleteKeeps ==
  ASSUME CInv, NEW r \in DOMAIN pending, NEW v \in Results, Tells(r, v), Complete(r, v),
         pending[r].kind = "start" => v \in Nat \cup {Error},
         UNCHANGED <<native, worker, orphans, restarts>>, outbox' \in Seq(Responses),
         \A j \in DOMAIN outbox' : \E i \in DOMAIN outbox : outbox'[j] = outbox[i]
  PROVE  CInv'
<1>1. ClientOK /\ WorkerInv
  BY Zenon DEF CInv
<1>2. PICK c \in Calls, k \in Kinds : c = pending[r].call /\ k = pending[r].kind
  BY Zenon, <1>1 DEF ClientOK, Requests
<1>3. PICK s \in States : s = call[c]
  BY Zenon, <1>1 DEF ClientOK
<1>4. PICK p : p = Without(r)
  BY Zenon
<1>5. PICK t \in States : \E send : Follows(k, s, v, t, send) /\ Proceeds(c, t, send, p)
  BY Zenon, <1>1, <1>2, <1>3, <1>4, CompleteIs
<1>6. PICK send : Follows(k, s, v, t, send) /\ Proceeds(c, t, send, p)
  BY Zenon, <1>5
<1>7. Fits(c, t, send, p)
  BY Zenon, <1>2, <1>3, <1>4, <1>6, FollowsFits
<1>8. Left(p, c)
  BY Zenon, <1>1, <1>2, <1>4 DEF Left, Without, Restrict, ClientOK
<1>9. worker = "off" => restarts # 0
  BY Zenon, <1>1 DEF WorkerInv
<1> QED
  BY Zenon, <1>6, <1>7, <1>8, <1>9, ProceedsKeeps

\* Nothing but answers that nobody awaits is lost.
LEMMA OutboxShrinks ==
  ASSUME CInv, UNCHANGED <<native, worker, inbox, orphans, pending, call, restarts>>,
         outbox' \in Seq(Responses),
         \A j \in DOMAIN outbox' : \E i \in DOMAIN outbox : outbox'[j] = outbox[i]
  PROVE  CInv'
<1>1. /\ table' = table /\ used' = used /\ worker' = worker /\ inbox' = inbox
      /\ orphans' = orphans /\ pending' = pending /\ call' = call /\ restarts' = restarts
  BY Zenon DEF native
<1>2. NativeOK' /\ ClientOK' /\ WorkerInv'
  BY Zenon, <1>1 DEF CInv, NativeOK, ClientOK, WorkerInv
<1>3. ReqInv'
  BY Zenon, <1>1 DEF CInv, ReqInv
<1>4. \A d, i : (Known(i, d)' <=> Known(i, d)) /\ (Gone(d)' <=> Gone(d)) /\ (NoStart(d)' <=> NoStart(d))
  BY Zenon, <1>1 DEF Known, Gone, NoStart
<1>5. ASSUME NEW j \in DOMAIN inbox' PROVE MessageInv(inbox[j])'
  <2>1. PICK m : m = inbox[j]
    BY Zenon
  <2>2. MessageInv(m) /\ inbox'[j] = m
    BY Zenon, <1>1, <1>5, <2>1 DEF CInv
  <2> QED
    BY Zenon, <1>1, <1>4, <2>2 DEF MessageInv
<1>6. ASSUME NEW m \in orphans' PROVE OrphanInv(m)'
  <2>1. OrphanInv(m)
    BY Zenon, <1>1, <1>6 DEF CInv
  <2> QED
    BY Zenon, <1>1, <1>4, <2>1 DEF OrphanInv
<1>7. ASSUME NEW j \in DOMAIN outbox' PROVE AnswerInv(outbox[j])'
  <2>1. PICK i \in DOMAIN outbox : outbox'[j] = outbox[i]
    BY Zenon, <1>7
  <2>2. PICK a : a = outbox[i]
    BY Zenon
  <2>3. AnswerInv(a)
    BY Zenon, <2>2 DEF CInv
  <2>4. AnswerInv(a)'
    BY Zenon, <1>1, <1>4, <2>3 DEF AnswerInv
  <2> QED
    BY Zenon, <2>1, <2>2, <2>4
<1>8. ASSUME NEW r \in DOMAIN pending' PROVE PendingInv(r)'
  BY Zenon, <1>1, <1>8 DEF CInv, PendingInv
<1>9. ASSUME NEW c \in Calls PROVE CallInv(c)'
  <2>1. CallInv(c) /\ (Freeing(c)' <=> Freeing(c))
    BY Zenon, <1>1, <1>9 DEF CInv, Freeing
  <2> QED
    BY Zenon, <1>1, <1>4, <2>1 DEF CallInv
<1> QED
  BY Zenon, <1>2, <1>3, <1>5, <1>6, <1>7, <1>8, <1>9 DEF CInv

\* _handleResponse finds the request of an answer, or drops the answer.
LEMMA HandleResponseKeeps ==
  ASSUME CInv, HandleResponse
  PROVE  CInv'
<1>1. PICK a : a = Head(outbox)
  BY Zenon
<1>2. /\ outbox # <<>> /\ outbox' = Tail(outbox) /\ UNCHANGED <<native, worker, orphans, restarts>>
      /\ IF a.req \in DOMAIN pending
         THEN Complete(a.req, a.value)
         ELSE UNCHANGED <<call, pending, inbox>>
  BY Zenon, <1>1 DEF HandleResponse
<1>3. ClientOK /\ outbox \in Seq(Responses)
  BY Zenon DEF CInv, ClientOK
<1>4. /\ outbox' \in Seq(Responses) /\ a \in Responses /\ 1 \in DOMAIN outbox /\ a = outbox[1]
      /\ \A j \in DOMAIN outbox' : j + 1 \in DOMAIN outbox /\ outbox'[j] = outbox[j + 1]
  BY Zenon, <1>1, <1>2, <1>3, TailIs
<1>5. \A j \in DOMAIN outbox' : \E i \in DOMAIN outbox : outbox'[j] = outbox[i]
  BY Zenon, <1>4
<1>6. AnswerInv(a) /\ a.value \in Results
  BY Zenon, <1>4 DEF CInv, Responses
<1>7. CASE a.req \in DOMAIN pending
  <2>1. Tells(a.req, a.value) /\ (pending[a.req].kind = "start" => a.value \in Nat \cup {Error})
    <3>1. Tells(a.req, a.value)
      BY Zenon, <1>6, <1>7 DEF AnswerInv, Tells
    <3>2. pending[a.req].kind = "start" => a.value \in Nat
      BY <1>6, <1>7 DEF AnswerInv, Known
    <3> QED
      BY Zenon, <3>1, <3>2
  <2> QED
    BY Zenon, <1>2, <1>4, <1>5, <1>6, <1>7, <2>1, CompleteKeeps
<1>8. CASE a.req \notin DOMAIN pending
  BY Zenon, <1>2, <1>4, <1>5, <1>8, OutboxShrinks
<1> QED
  BY Zenon, <1>7, <1>8

\* The timer of a request runs out.
LEMMA OnTimeoutKeeps ==
  ASSUME CInv, NEW r \in DOMAIN pending, OnTimeout(r)
  PROVE  CInv'
<1>1. outbox' = outbox /\ outbox \in Seq(Responses)
  BY Zenon DEF OnTimeout, CInv, ClientOK
<1>2. Error \in Results /\ Tells(r, Error)
  BY Zenon DEF Results, Tells
<1>3. /\ Complete(r, Error) /\ UNCHANGED <<native, worker, orphans, restarts>>
  BY Zenon DEF OnTimeout
<1> QED
  BY Zenon, <1>1, <1>2, <1>3, CompleteKeeps

\* What a call does of its own accord.
Acts(s, t, send) ==
    /\ t.id = s.id
    /\ \/ s.pc = "waiting" /\ t.pc = "done" /\ t.res = Error /\ send = "none" /\ worker = "off"
       \/ s.pc = "waiting" /\ t.pc = "polling" /\ t.res = s.res /\ send = "poll"
       \/ s.pc = "getting" /\ t.pc = "freeing" /\ t.res = s.res /\ send = "free"
       \/ /\ s.pc \in {"polling", "waiting"} /\ send \in {"none", "other"}
          /\ t.pc = s.pc /\ t.res = s.res

\* A call acts of its own accord.
LEMMA ActsKeeps ==
  ASSUME CInv, NEW c \in Calls, NEW s \in States, s = call[c],
         NEW t \in States, NEW send, Acts(s, t, send), Proceeds(c, t, send, pending),
         UNCHANGED <<native, worker, orphans, outbox, restarts>>
  PROVE  CInv'
<1>1. CallInv(c) /\ ClientOK /\ WorkerInv
  BY Zenon DEF CInv
<1>2. s.pc \in {"polling", "waiting", "getting"}
  BY Zenon DEF Acts
<1>3. /\ s.id # 0 /\ Known(s.id, c) /\ NoStart(c)
      /\ s.res \in {None, Error, c}
  BY Zenon, <1>1, <1>2 DEF CallInv, Known, Active
<1>4. worker = "off" => restarts # 0
  BY Zenon, <1>1, <1>2 DEF WorkerInv
<1>5. \A q \in DOMAIN pending : pending[q].call = c =>
         pending[q].kind \in Kinds /\ s.pc \in PcsOf(pending[q].kind)
  BY Zenon, <1>1 DEF CInv, PendingInv, ClientOK, Requests
<1>6. \A q \in DOMAIN pending : pending[q].call = c =>
         \/ pending[q].kind = "other"
         \/ s.pc = "polling" /\ pending[q].kind = "poll"
         \/ s.pc = "getting" /\ pending[q].kind = "get"
  BY Zenon, <1>2, <1>5 DEF PcsOf, Kinds
<1>7. StateOK(c, t)
  BY Zenon, <1>3, <1>4 DEF StateOK, Acts, Active, Failed
<1>8. \A q \in DOMAIN pending : pending[q].call = c =>
         t.pc \in PcsOf(pending[q].kind) /\ (pending[q].kind = send => send = "other")
  BY Zenon, <1>6 DEF Acts, PcsOf, Active
<1>9. /\ send \in (Kinds \ {"start"}) \cup {"none"}
      /\ send # "none" => t.id # 0 /\ t.pc \in PcsOf(send)
      /\ restarts = 0 /\ t.pc \in Over /\ t.id # 0 => Gone(c) \/ Freeing(c) \/ send = "free"
  BY Zenon, <1>3, <1>4 DEF Acts, PcsOf, Kinds, Active, Over
<1>10. Fits(c, t, send, pending)
  BY Zenon, <1>7, <1>8, <1>9 DEF Fits
<1>11. Left(pending, c)
  BY Zenon, <1>1 DEF Left, ClientOK
<1>12. outbox' = outbox /\ outbox \in Seq(Responses)
  BY Zenon, <1>1 DEF ClientOK
<1> QED
  BY Zenon, <1>4, <1>10, <1>11, <1>12, ProceedsKeeps

\* The poll interval is over.
LEMMA WakeKeeps ==
  ASSUME CInv, NEW c \in Calls, Wake(c)
  PROVE  CInv'
<1>1. ClientOK
  BY Zenon DEF CInv
<1>2. PICK s \in States : s = call[c]
  BY Zenon, <1>1 DEF ClientOK
<1>3. s.pc = "waiting" /\ UNCHANGED <<native, worker, orphans, outbox, restarts>>
  BY Zenon, <1>2 DEF Wake
<1>4. CASE worker = "off"
  <2>1. PICK t : t = Ends(s, Error).s
    BY Zenon
  <2>2. t \in States /\ t.pc = "done" /\ t.id = s.id /\ t.res = Error
    <3>1. Error \in Results
      BY Zenon DEF Results
    <3> QED
      BY Zenon, <2>1, <3>1, EndsIs
  <2>3. call' = [call EXCEPT ![c] = t] /\ pending' = pending /\ inbox' = inbox
    BY Zenon, <1>2, <1>4, <2>1 DEF Wake
  <2>4. Acts(s, t, "none") /\ Proceeds(c, t, "none", pending)
    BY Zenon, <1>3, <1>4, <2>2, <2>3 DEF Acts, Proceeds
  <2> QED
    BY Zenon, <1>2, <1>3, <2>2, <2>4, ActsKeeps
<1>5. CASE worker # "off"
  <2>1. PICK t : t = [s EXCEPT !.pc = "polling"]
    BY Zenon
  <2>2. t \in States /\ t.pc = "polling" /\ t.id = s.id /\ t.res = s.res
    BY Zenon, <2>1 DEF States, Pcs, Active
  <2>3. call' = [call EXCEPT ![c] = t] /\ SendRequest(pending, c, "poll", t.id)
    BY Zenon, <1>2, <1>5, <2>1, <2>2 DEF Wake
  <2>4. Acts(s, t, "poll") /\ Proceeds(c, t, "poll", pending)
    BY Zenon, <1>3, <2>2, <2>3 DEF Acts, Proceeds
  <2> QED
    BY Zenon, <1>2, <1>3, <2>2, <2>4, ActsKeeps
<1> QED
  BY Zenon, <1>4, <1>5

\* The finally block does not wait for the result.
LEMMA FreeAtOnceKeeps ==
  ASSUME CInv, NEW c \in Calls, FreeAtOnce(c)
  PROVE  CInv'
<1>1. ClientOK
  BY Zenon DEF CInv
<1>2. PICK s \in States : s = call[c]
  BY Zenon, <1>1 DEF ClientOK
<1>3. s.pc = "getting" /\ UNCHANGED <<native, worker, orphans, outbox, restarts>>
  BY Zenon, <1>2 DEF FreeAtOnce
<1>4. PICK t : t = [s EXCEPT !.pc = "freeing"]
  BY Zenon
<1>5. t \in States /\ t.pc = "freeing" /\ t.id = s.id /\ t.res = s.res
  BY Zenon, <1>4 DEF States, Pcs, Active
<1>6. call' = [call EXCEPT ![c] = t] /\ SendRequest(pending, c, "free", t.id)
  BY Zenon, <1>2, <1>4, <1>5 DEF FreeAtOnce
<1>7. Acts(s, t, "free") /\ Proceeds(c, t, "free", pending)
  BY Zenon, <1>3, <1>5, <1>6 DEF Acts, Proceeds
<1> QED
  BY Zenon, <1>2, <1>3, <1>5, <1>7, ActsKeeps

\* The deadline passes, or another part of the program cancels.
LEMMA DueKeeps ==
  ASSUME CInv, NEW c \in Calls, Due(c) \/ CancelElsewhere(c)
  PROVE  CInv'
<1>1. ClientOK
  BY Zenon DEF CInv
<1>2. PICK s \in States : s = call[c]
  BY Zenon, <1>1 DEF ClientOK
<1>3. s.pc \in {"polling", "waiting"} /\ UNCHANGED <<native, worker, orphans, outbox, restarts>>
  BY Zenon, <1>2 DEF Due, CancelElsewhere
<1>4. PICK t : t = [s EXCEPT !.due = TRUE]
  BY Zenon
<1>5. t \in States /\ t.pc = s.pc /\ t.id = s.id /\ t.res = s.res
  BY Zenon, <1>4 DEF States
<1>6. call' = [call EXCEPT ![c] = t]
  BY Zenon, <1>2, <1>4 DEF Due, CancelElsewhere
<1>7. CASE Due(c)
  <2>1. Acts(s, t, "none") /\ Proceeds(c, t, "none", pending)
    BY Zenon, <1>3, <1>5, <1>6, <1>7 DEF Acts, Proceeds, Due
  <2> QED
    BY Zenon, <1>2, <1>3, <1>5, <2>1, ActsKeeps
<1>8. CASE CancelElsewhere(c)
  <2>1. SendRequest(pending, c, "other", t.id)
    BY Zenon, <1>2, <1>5, <1>8 DEF CancelElsewhere
  <2>2. Acts(s, t, "other") /\ Proceeds(c, t, "other", pending)
    BY Zenon, <1>3, <1>5, <1>6, <2>1 DEF Acts, Proceeds
  <2> QED
    BY Zenon, <1>2, <1>3, <1>5, <2>2, ActsKeeps
<1> QED
  BY Zenon, <1>7, <1>8

\* Nothing is known of a call that has not begun.
LEMMA IdleIs ==
  ASSUME CInv, NEW c \in Calls, call[c].pc = "idle"
  PROVE  /\ c \notin used /\ NoStart(c) /\ call[c].id = 0 /\ call[c].res \in {None, Error, c}
         /\ \A q \in DOMAIN pending : pending[q].call # c
         /\ \A j \in DOMAIN inbox : inbox[j].call # c
         /\ \A m \in orphans : m.call # c
<1>1. CallInv(c)
  BY Zenon DEF CInv
<1>2. c \notin used /\ NoStart(c) /\ call[c].id = 0 /\ call[c].res \in {None, Error, c}
  BY Zenon, <1>1 DEF CallInv
<1>3. ASSUME NEW q \in DOMAIN pending, pending[q].call = c PROVE FALSE
  <2>1. pending[q].kind \in Kinds /\ call[c].pc \in PcsOf(pending[q].kind)
    BY Zenon, <1>3 DEF CInv, PendingInv, ClientOK, Requests
  <2> QED
    BY Zenon, <2>1 DEF PcsOf, Kinds, Active
<1>4. ASSUME NEW j \in DOMAIN inbox, inbox[j].call = c PROVE FALSE
  <2>1. MessageInv(inbox[j])
    BY Zenon DEF CInv
  <2>2. inbox[j].kind # "start"
    BY Zenon, <1>2, <1>4 DEF NoStart
  <2> QED
    BY Zenon, <1>2, <1>4, <2>1, <2>2 DEF MessageInv, Known
<1>5. ASSUME NEW m \in orphans, m.call = c PROVE FALSE
  <2>1. OrphanInv(m) /\ m.kind # "start"
    BY Zenon, <1>2, <1>5 DEF CInv, NoStart
  <2> QED
    BY Zenon, <1>2, <1>5, <2>1 DEF OrphanInv, Known
<1> QED
  BY Zenon, <1>2, <1>3, <1>4, <1>5

\* A call sends its start message.
LEMMA StartingKeeps ==
  ASSUME CInv, NEW c \in Calls, call[c].pc = "idle", worker # "off",
         NEW t \in States, t.pc = "starting", t.id = 0, t.res = call[c].res,
         call' = [call EXCEPT ![c] = t], SendRequest(pending, c, "start", 0),
         UNCHANGED <<native, worker, orphans, outbox, restarts>>
  PROVE  CInv'
<1>1. ClientOK /\ WorkerInv
  BY Zenon DEF CInv
<1>2. /\ c \notin used /\ NoStart(c) /\ t.res \in {None, Error, c}
      /\ \A q \in DOMAIN pending : pending[q].call # c
      /\ \A j \in DOMAIN inbox : inbox[j].call # c
      /\ \A n \in orphans : n.call # c
  BY Zenon, IdleIs
<1>3. Left(pending, c)
  BY Zenon, <1>1 DEF Left, ClientOK
<1>4. PICK m \in Messages : Sent(m, c, "start", 0, pending)
  BY <1>1, <1>3, SendIs DEF Kinds
<1>5. /\ m.call = c /\ m.kind = "start" /\ Unused(m.req) /\ Asks(c, m) /\ m.req \in DOMAIN pending'
      /\ \A q \in DOMAIN pending' : q = m.req \/ (q \in DOMAIN pending /\ pending'[q] = pending[q])
  BY Zenon, <1>4 DEF Sent
<1>6. GoesOn(c, t)
  BY Zenon, <1>1 DEF GoesOn, ClientOK
<1>7. ClientOK' /\ ReqInv' /\ NativeOK'
  BY Zenon, <1>5, <1>6, AsksKeepsIds
<1>8. /\ UNCHANGED <<table, used, worker, orphans, restarts>>
      /\ call'[c] = t /\ \A d \in Calls \ {c} : call'[d] = call[d]
  BY Zenon, <1>1 DEF native, ClientOK
<1>9. /\ \A j \in DOMAIN inbox : j \in DOMAIN inbox' /\ inbox'[j] = inbox[j]
      /\ \A j \in DOMAIN inbox' : j \in DOMAIN inbox \/ inbox'[j] = m
  BY Zenon, <1>1, <1>5, InboxGrows DEF Asks, ClientOK
<1>10. pending'[m.req] = [call |-> c, kind |-> "start"]
  BY Zenon, <1>5 DEF Asks
<1>11. \A d : d # c => (NoStart(d)' <=> NoStart(d))
  BY Zenon, <1>5, <1>8, <1>9 DEF NoStart
<1>12. \A d, i : d # c => (Known(i, d)' <=> Known(i, d)) /\ (Gone(d)' <=> Gone(d))
  BY Zenon, <1>8, <1>11 DEF Known, Gone
<1>13. ASSUME NEW j \in DOMAIN inbox' PROVE MessageInv(inbox[j])'
  <2>1. CASE inbox'[j] = m
    BY Zenon, <1>2, <1>5, <1>8, <1>10, <2>1 DEF MessageInv
  <2>2. CASE inbox'[j] # m
    <3>1. PICK n \in Messages : n = inbox[j]
      BY <1>1, <1>9, <2>2 DEF ClientOK
    <3>2. MessageInv(n) /\ n.call # c /\ inbox'[j] = n /\ n.call \in Calls /\ n.req # m.req
      BY Zenon, <1>2, <1>5, <1>9, <1>13, <2>2, <3>1 DEF CInv, Messages, Unused
    <3>3. /\ n.req \in DOMAIN pending' <=> n.req \in DOMAIN pending
          /\ n.req \in DOMAIN pending' => pending'[n.req] = pending[n.req]
      BY Zenon, <1>2, <1>5, <3>2 DEF Asks
    <3>4. MessageInv(n)'
      BY Zenon, <1>8, <1>12, <3>2, <3>3 DEF MessageInv
    <3> QED
      BY Zenon, <3>2, <3>4
  <2> QED
    BY Zenon, <2>1, <2>2
<1>14. ASSUME NEW n \in orphans' PROVE OrphanInv(n)'
  <2>1. OrphanInv(n) /\ n.call # c /\ n.call \in Calls
    BY Zenon, <1>1, <1>2, <1>8 DEF CInv, ClientOK, Messages
  <2> QED
    BY Zenon, <1>8, <1>12, <2>1 DEF OrphanInv
<1>15. ASSUME NEW j \in DOMAIN outbox' PROVE AnswerInv(outbox[j])'
  <2>1. PICK a : a = outbox[j]
    BY Zenon
  <2>2. AnswerInv(a) /\ outbox'[j] = a /\ a.req # m.req
    BY Zenon, <1>5, <1>15, <2>1 DEF CInv, Unused
  <2>3. a.req \in DOMAIN pending' =>
           a.req \in DOMAIN pending /\ pending'[a.req] = pending[a.req] /\ pending[a.req].call # c
    BY Zenon, <1>2, <1>5, <2>2
  <2>4. AnswerInv(a)'
    BY Zenon, <1>12, <2>2, <2>3 DEF AnswerInv
  <2> QED
    BY Zenon, <2>2, <2>4
<1>16. ASSUME NEW r \in DOMAIN pending' PROVE PendingInv(r)'
  <2>1. CASE r = m.req
    BY <1>2, <1>5, <1>8, <1>10, <2>1 DEF PendingInv, PcsOf
  <2>2. CASE r # m.req
    <3>1. /\ r \in DOMAIN pending /\ pending'[r] = pending[r] /\ pending[r].call # c
          /\ PendingInv(r) /\ pending[r].call \in Calls
      BY Zenon, <1>1, <1>2, <1>5, <2>2 DEF CInv, ClientOK, Requests
    <3>2. \A q \in DOMAIN pending' :
             pending'[q] = pending'[r] => q \in DOMAIN pending /\ pending[q] = pending[r]
      BY <1>5, <1>10, <3>1
    <3> QED
      BY Zenon, <1>8, <3>1, <3>2 DEF PendingInv
  <2> QED
    BY Zenon, <2>1, <2>2
<1>17. ASSUME NEW d \in Calls PROVE CallInv(d)'
  <2>1. CASE d = c
    BY Zenon, <1>2, <1>8, <2>1 DEF CallInv, Active, Over
  <2>2. CASE d # c
    <3>1. CallInv(d) /\ call'[d] = call[d]
      BY Zenon, <1>8, <2>2 DEF CInv
    <3>2. Freeing(d) => Freeing(d)'
      BY Zenon, <1>9 DEF Freeing
    <3> QED
      BY Zenon, <1>8, <1>11, <1>12, <2>2, <3>1, <3>2 DEF CallInv
  <2> QED
    BY Zenon, <2>1, <2>2
<1>18. WorkerInv'
  BY Zenon, <1>1, <1>8 DEF WorkerInv
<1> QED
  BY Zenon, <1>7, <1>13, <1>14, <1>15, <1>16, <1>17, <1>18 DEF CInv

\* executeAsync begins.
LEMMA BeginKeeps ==
  ASSUME CInv, NEW c \in Calls, Begin(c)
  PROVE  CInv'
<1>1. ClientOK
  BY Zenon DEF CInv
<1>2. PICK s \in States : s = call[c]
  BY Zenon, <1>1 DEF ClientOK
<1>3. s.pc = "idle" /\ UNCHANGED <<native, worker, orphans, outbox, restarts>>
  BY Zenon, <1>2 DEF Begin
<1>4. /\ NoStart(c) /\ s.id = 0 /\ s.res \in {None, Error, c}
      /\ \A q \in DOMAIN pending : pending[q].call # c
  BY Zenon, <1>2, <1>3, IdleIs
<1>5. CASE worker = "off"
  <2>1. PICK t : t = Ends(s, Error).s
    BY Zenon
  <2>2. t \in States /\ t.pc = "done" /\ t.id = s.id /\ t.res = Error
    <3>1. Error \in Results
      BY Zenon DEF Results
    <3> QED
      BY Zenon, <2>1, <3>1, EndsIs
  <2>3. call' = [call EXCEPT ![c] = t] /\ pending' = pending /\ inbox' = inbox
    BY Zenon, <1>2, <1>5, <2>1 DEF Begin
  <2>4. Proceeds(c, t, "none", pending)
    BY Zenon, <2>3 DEF Proceeds
  <2>5. StateOK(c, t)
    BY Zenon, <1>4, <2>2 DEF StateOK, Active
  <2>6. Fits(c, t, "none", pending)
    BY Zenon, <1>4, <2>2, <2>5 DEF Fits
  <2>7. Left(pending, c)
    BY Zenon, <1>1 DEF Left, ClientOK
  <2>8. outbox' = outbox /\ outbox \in Seq(Responses)
    BY Zenon, <1>1, <1>3 DEF ClientOK
  <2> QED
    BY Zenon, <1>3, <2>2, <2>4, <2>6, <2>7, <2>8, ProceedsKeeps
<1>6. CASE worker # "off"
  <2>1. PICK t : t = [s EXCEPT !.pc = "starting"]
    BY Zenon
  <2>2. t \in States /\ t.pc = "starting" /\ t.id = 0 /\ t.res = s.res
    BY Zenon, <1>4, <2>1 DEF States, Pcs
  <2>3. call' = [call EXCEPT ![c] = t] /\ SendRequest(pending, c, "start", 0)
    BY Zenon, <1>2, <1>6, <2>1 DEF Begin
  <2> QED
    BY Zenon, <1>2, <1>3, <1>6, <2>2, <2>3, StartingKeeps
<1> QED
  BY Zenon, <1>5, <1>6
-----------------------------------------------------------------------------
(* The life of a worker.                                                   *)

\* A worker is spawned.
LEMMA InitializeKeeps ==
  ASSUME CInv, Initialize
  PROVE  CInv'
<1>1. /\ table' = table /\ used' = used /\ worker' = "up" /\ inbox' = inbox /\ outbox' = outbox
      /\ orphans' = orphans /\ pending' = pending /\ call' = call /\ restarts' = restarts
  BY Zenon DEF Initialize, native
<1>2. NativeOK' /\ ClientOK' /\ WorkerInv' /\ ReqInv'
  BY Zenon, <1>1 DEF CInv, NativeOK, ClientOK, WorkerInv, ReqInv
<1>3. \A d, i : (Known(i, d)' <=> Known(i, d)) /\ (Gone(d)' <=> Gone(d)) /\ (NoStart(d)' <=> NoStart(d))
  BY Zenon, <1>1 DEF Known, Gone, NoStart
<1>4. ASSUME NEW j \in DOMAIN inbox' PROVE MessageInv(inbox[j])'
  <2>1. PICK m : m = inbox[j]
    BY Zenon
  <2>2. MessageInv(m) /\ inbox'[j] = m
    BY Zenon, <1>1, <1>4, <2>1 DEF CInv
  <2> QED
    BY Zenon, <1>1, <1>3, <2>2 DEF MessageInv
<1>5. ASSUME NEW m \in orphans' PROVE OrphanInv(m)'
  <2>1. OrphanInv(m)
    BY Zenon, <1>1, <1>5 DEF CInv
  <2> QED
    BY Zenon, <1>1, <1>3, <2>1 DEF OrphanInv
<1>6. ASSUME NEW j \in DOMAIN outbox' PROVE AnswerInv(outbox[j])'
  <2>1. PICK a : a = outbox[j]
    BY Zenon
  <2>2. AnswerInv(a) /\ outbox'[j] = a
    BY Zenon, <1>1, <1>6, <2>1 DEF CInv
  <2> QED
    BY Zenon, <1>1, <1>3, <2>2 DEF AnswerInv
<1>7. ASSUME NEW r \in DOMAIN pending' PROVE PendingInv(r)'
  BY Zenon, <1>1, <1>7 DEF CInv, PendingInv
<1>8. ASSUME NEW c \in Calls PROVE CallInv(c)'
  <2>1. CallInv(c) /\ (Freeing(c)' <=> Freeing(c))
    BY Zenon, <1>1, <1>8 DEF CInv, Freeing
  <2> QED
    BY Zenon, <1>1, <1>3, <2>1 DEF CallInv
<1> QED
  BY Zenon, <1>2, <1>4, <1>5, <1>6, <1>7, <1>8 DEF CInv

\* The messages of a worker are lost, but for one it may be handling.
LEMMA InboxLost ==
  ASSUME CInv, UNCHANGED native, inbox' = <<>>,
         \A m \in orphans' : m \in orphans \/ \E j \in DOMAIN inbox : m = inbox[j]
  PROVE  /\ NativeOK' /\ ReqInv' /\ inbox' \in Seq(Messages) /\ DOMAIN inbox' = {}
         /\ orphans' \subseteq Messages
         /\ \A d, i : /\ NoStart(d) => NoStart(d)'
                      /\ Known(i, d) => Known(i, d)'
                      /\ Gone(d) => Gone(d)'
<1>1. table' = table /\ used' = used
  BY Zenon DEF native
<1>2. DOMAIN inbox' = {} /\ inbox' \in Seq(Messages)
  OBVIOUS
<1>3. NativeOK'
  BY Zenon, <1>1 DEF CInv, NativeOK
<1>4. ReqInv'
  BY Zenon, <1>2 DEF ReqInv
<1>5. \A d : NoStart(d) => NoStart(d)'
  BY Zenon, <1>2 DEF NoStart
<1>6. orphans' \subseteq Messages
  BY DEF CInv, ClientOK
<1> QED
  BY Zenon, <1>1, <1>2, <1>3, <1>4, <1>5, <1>6 DEF Known, Gone

\* The worker dies: its messages are lost, and nobody is told.
LEMMA DieKeeps ==
  ASSUME CInv, Die
  PROVE  CInv'
<1>1. /\ UNCHANGED <<native, orphans, outbox, pending, call>>
      /\ worker' = "dead" /\ inbox' = <<>> /\ restarts' = restarts + 1
  BY Zenon DEF Die
<1>2. ClientOK
  BY Zenon DEF CInv
<1>3. /\ NativeOK' /\ ReqInv' /\ inbox' \in Seq(Messages) /\ DOMAIN inbox' = {}
      /\ \A d, i : /\ NoStart(d) => NoStart(d)'
                   /\ Known(i, d) => Known(i, d)'
                   /\ Gone(d) => Gone(d)'
  BY Zenon, <1>1, InboxLost
<1>4. restarts' \in Nat /\ restarts' # 0
  BY <1>1, <1>2 DEF ClientOK
<1>5. ClientOK' /\ WorkerInv'
  BY Zenon, <1>1, <1>2, <1>3, <1>4 DEF ClientOK, WorkerInv
<1>6. ASSUME NEW m \in orphans' PROVE OrphanInv(m)'
  <2>1. OrphanInv(m)
    BY Zenon, <1>1, <1>6 DEF CInv
  <2> QED
    BY Zenon, <1>1, <1>3, <2>1 DEF OrphanInv
<1>7. ASSUME NEW j \in DOMAIN outbox' PROVE AnswerInv(outbox[j])'
  <2>1. PICK a : a = outbox[j]
    BY Zenon
  <2>2. AnswerInv(a) /\ outbox'[j] = a
    BY Zenon, <1>1, <1>7, <2>1 DEF CInv
  <2> QED
    BY Zenon, <1>1, <1>3, <2>2 DEF AnswerInv
<1>8. ASSUME NEW r \in DOMAIN pending' PROVE PendingInv(r)'
  BY Zenon, <1>1, <1>8 DEF CInv, PendingInv
<1>9. ASSUME NEW c \in Calls PROVE CallInv(c)'
  <2>1. CallInv(c) /\ call'[c] = call[c] /\ used' = used
    BY Zenon, <1>1, <1>9 DEF CInv, native
  <2> QED
    BY Zenon, <1>3, <1>4, <2>1 DEF CallInv
<1> QED
  BY Zenon, <1>3, <1>5, <1>6, <1>7, <1>8, <1>9 DEF CInv

\* The worker is disposed of: what is pending fails, and the call it is in goes on.
LEMMA DisposeKeeps ==
  ASSUME CInv, Dispose
  PROVE  CInv'
<1>1. ClientOK
  BY Zenon DEF CInv
<1>2. /\ UNCHANGED native /\ InCall
      /\ worker' = "off" /\ inbox' = <<>> /\ outbox' = <<>> /\ pending' = <<>>
      /\ restarts' = restarts + 1
  BY Zenon DEF Dispose
<1>3. \A m \in orphans' : m \in orphans \/ \E j \in DOMAIN inbox : m = inbox[j]
  <2>1. CASE orphans' = orphans
    BY Zenon, <2>1
  <2>2. CASE inbox # <<>> /\ orphans' = orphans \cup {Head(inbox)}
    <3>1. 1 \in DOMAIN inbox /\ Head(inbox) = inbox[1]
      BY Zenon, <1>1, <2>2, TailIs DEF ClientOK
    <3> QED
      BY Zenon, <2>2, <3>1
  <2> QED
    BY Zenon, <1>2, <2>1, <2>2 DEF InCall
<1>4. /\ NativeOK' /\ ReqInv' /\ inbox' \in Seq(Messages) /\ DOMAIN inbox' = {}
      /\ orphans' \subseteq Messages
      /\ \A d, i : /\ NoStart(d) => NoStart(d)'
                   /\ Known(i, d) => Known(i, d)'
                   /\ Gone(d) => Gone(d)'
  BY Zenon, <1>2, <1>3, InboxLost
<1>5. restarts' \in Nat /\ restarts' # 0
  BY <1>1, <1>2 DEF ClientOK
<1>6. \A c \in Calls :
         /\ Ends(call[c], Error).s \in States
         /\ Failed(Ends(call[c], Error).s) /\ Ends(call[c], Error).s.id = call[c].id
  <2>1. Error \in Results /\ \A c \in Calls : call[c] \in States
    BY Zenon, <1>1 DEF Results, ClientOK
  <2> QED
    BY Zenon, <2>1, EndsIs DEF Failed
<1>7. \A c \in Calls :
         /\ call'[c] = call[c] \/ call'[c] = Ends(call[c], Error).s
         /\ (\E r \in DOMAIN pending : pending[r].call = c /\ pending[r].kind # "other")
               => call'[c] = Ends(call[c], Error).s
  BY Zenon DEF Dispose
<1>8. call' \in [Calls -> States]
  <2>1. \A c \in Calls : call[c] \in States
    BY Zenon, <1>1 DEF ClientOK
  <2> QED
    BY Zenon, <1>6, <2>1 DEF Dispose
<1>9. \A c \in Calls :
         /\ Failed(call[c]) => Failed(call'[c])
         /\ (\E r \in DOMAIN pending : pending[r].call = c /\ pending[r].kind # "other")
               => Failed(call'[c])
         /\ call'[c] = call[c] \/ (Failed(call'[c]) /\ call'[c].id = call[c].id)
  BY Zenon, <1>6, <1>7
<1>10. /\ DOMAIN pending' = {} /\ pending' \in [DOMAIN pending' -> Requests]
       /\ DOMAIN outbox' = {} /\ outbox' \in Seq(Responses)
  BY <1>2
<1>11. ClientOK'
  <2>1. IsFiniteSet(DOMAIN pending')
    BY Zenon, <1>10, FS_EmptySet
  <2> QED
    BY Zenon, <1>2, <1>4, <1>5, <1>8, <1>10, <2>1 DEF ClientOK
<1>12. WorkerInv'
  BY Zenon, <1>2, <1>5 DEF WorkerInv
<1>13. ASSUME NEW m \in orphans' PROVE OrphanInv(m)'
  <2>1. m \in Messages /\ m.call \in Calls
    BY Zenon, <1>4, <1>13 DEF Messages
  <2>2. CASE m \in orphans
    <3>1. OrphanInv(m)
      BY Zenon, <2>2 DEF CInv
    <3> QED
      BY Zenon, <1>4, <1>9, <2>1, <3>1 DEF OrphanInv
  <2>3. ASSUME NEW j \in DOMAIN inbox, m = inbox[j] PROVE OrphanInv(m)'
    <3>1. MessageInv(m)
      BY Zenon, <2>3 DEF CInv
    <3>2. m.kind = "start" => Failed(call'[m.call])
      <4>1. CASE m.req \in DOMAIN pending /\ m.kind = "start"
        <5>1. pending[m.req].call = m.call /\ pending[m.req].kind # "other"
          BY <3>1, <4>1 DEF MessageInv
        <5> QED
          BY Zenon, <1>9, <2>1, <4>1, <5>1
      <4>2. CASE m.req \notin DOMAIN pending
        BY Zenon, <1>9, <2>1, <3>1, <4>2 DEF MessageInv
      <4> QED
        BY Zenon, <4>1, <4>2
    <3> QED
      BY Zenon, <1>4, <3>1, <3>2 DEF MessageInv, OrphanInv
  <2> QED
    BY Zenon, <1>3, <1>13, <2>2, <2>3
<1>14. ASSUME NEW c \in Calls PROVE CallInv(c)'
  <2>1. CallInv(c) /\ used' = used
    BY Zenon, <1>2 DEF CInv, native
  <2>2. CASE call'[c] = call[c]
    BY Zenon, <1>4, <1>5, <2>1, <2>2 DEF CallInv
  <2>3. CASE Failed(call'[c]) /\ call'[c].id = call[c].id
    <3>1. PICK i : i = call[c].id
      BY Zenon
    <3>2. i # 0 => Known(i, c)'
      BY Zenon, <1>4, <2>1, <3>1 DEF CallInv
    <3> QED
      BY Zenon, <1>5, <2>3, <3>1, <3>2 DEF CallInv, Failed, Active
  <2> QED
    BY Zenon, <1>9, <2>2, <2>3
<1> QED
  BY Zenon, <1>4, <1>10, <1>11, <1>12, <1>13, <1>14 DEF CInv
-----------------------------------------------------------------------------
(* The theorems.                                                           *)

\* The invariant holds before the first call.
LEMMA InitCInv ==
  ASSUME CInit
  PROVE  CInv
<1>1. /\ DOMAIN table = {} /\ table \in [DOMAIN table -> Entries] /\ used = {}
      /\ DOMAIN pending = {} /\ pending \in [DOMAIN pending -> Requests]
  BY Zenon DEF CInit, TInit
<1>2. /\ inbox \in Seq(Messages) /\ DOMAIN inbox = {}
      /\ outbox \in Seq(Responses) /\ DOMAIN outbox = {}
  BY DEF CInit
<1>3. NativeOK
  BY Zenon, <1>1, FS_EmptySet DEF NativeOK
<1>4. \A c \in Calls : /\ call[c] \in States
                       /\ call[c].pc = "idle" /\ call[c].id = 0 /\ call[c].res = None
  BY Zenon DEF CInit, States, Pcs, Results
<1>5. ClientOK
  <2>1. call \in [Calls -> States]
    BY Zenon, <1>4 DEF CInit
  <2> QED
    BY Zenon, <1>1, <1>2, <2>1, FS_EmptySet DEF ClientOK, CInit
<1>6. ReqInv
  BY Zenon, <1>2 DEF ReqInv
<1>7. WorkerInv
  BY Zenon, <1>1, <1>4 DEF WorkerInv, CInit
<1>8. \A c \in Calls : CallInv(c)
  <2>1. \A c \in Calls : NoStart(c)
    BY Zenon, <1>2 DEF NoStart, CInit
  <2> QED
    BY Zenon, <1>1, <1>4, <2>1 DEF CallInv, Active, Over
<1>9. orphans = {}
  BY Zenon DEF CInit
<1> QED
  BY Zenon, <1>1, <1>2, <1>3, <1>5, <1>6, <1>7, <1>8, <1>9 DEF CInv

\* Every step keeps it.
LEMMA NextCInv ==
  ASSUME CInv, [CNext]_cvars
  PROVE  CInv'
<1>1. NativeOK
  BY Zenon DEF CInv
<1>2. CASE Respond
  BY Zenon, <1>2, RespondKeeps
<1>3. ASSUME NEW m \in orphans, Orphan(m) PROVE CInv'
  BY Zenon, <1>3, OrphanKeeps
<1>4. CASE HandleResponse
  BY Zenon, <1>4, HandleResponseKeeps
<1>5. ASSUME NEW r \in DOMAIN pending, OnTimeout(r) PROVE CInv'
  BY Zenon, <1>5, OnTimeoutKeeps
<1>6. ASSUME NEW c \in Calls,
             Begin(c) \/ Wake(c) \/ FreeAtOnce(c) \/ Due(c) \/ CancelElsewhere(c)
      PROVE  CInv'
  BY Zenon, <1>6, BeginKeeps, WakeKeeps, FreeAtOnceKeeps, DueKeeps
<1>7. ASSUME NEW c \in Calls, Query(c) PROVE CInv'
  <2>1. Quiet /\ UNCHANGED client
    BY Zenon, <1>1, <1>7, FinishIs DEF Query
  <2> QED
    BY Zenon, <2>1, NativeKeeps
<1>8. CASE Disconnect
  <2>1. Quiet /\ UNCHANGED client
    BY Zenon, <1>1, <1>8, DropIs DEF Disconnect
  <2> QED
    BY Zenon, <2>1, NativeKeeps
<1>9. CASE Initialize \/ Die \/ Dispose
  BY Zenon, <1>9, InitializeKeeps, DieKeeps, DisposeKeeps
<1>10. CASE UNCHANGED cvars
  <2>1. Quiet /\ UNCHANGED client
    BY Zenon, <1>1, <1>10, SameIsQuiet DEF cvars
  <2> QED
    BY Zenon, <2>1, NativeKeeps
<1> QED
  BY Zenon, <1>2, <1>3, <1>4, <1>5, <1>6, <1>7, <1>8, <1>9, <1>10 DEF CNext

\* What the main isolate and the workers know of each other, through lost
\* workers, timers that run out and answers that come late: an id a call has, and
\* one on a message of its, is that of the native request it started; an answer
\* that still finds its request is true of the call that awaits it; a start that
\* may still be made is that of a call that awaits it or has failed; and while no
\* worker was lost, a call in or past its finally block has freed its request or
\* has the free on its way.
THEOREM ClientInvariant == CSpec => []CInv
<1>1. CInit => CInv
  BY Zenon, InitCInv
<1>2. CInv /\ [CNext]_cvars => CInv'
  BY Zenon, NextCInv
<1> QED
  BY <1>1, <1>2, PTL DEF CSpec

\* _handleResponse gives an answer to the call it belongs to: the id that
\* executeAsyncStart returned is that of the caller's own native request, and the
\* data that asyncGetResult returned is of the caller's own query, for any number
\* of calls and of lost workers, and whichever timers run out.
THEOREM OwnAnswers == CSpec => []AnswersAreOwn
<1>1. CInv => AnswersAreOwn
  <2> SUFFICES ASSUME CInv, NEW c \in Calls
               PROVE  /\ call[c].id \in DOMAIN table => table[call[c].id].ticket = c
                      /\ call[c].res \in Tickets => call[c].res = c
    BY Zenon DEF AnswersAreOwn
  <2>1. CallInv(c) /\ NativeOK
    BY Zenon DEF CInv
  <2>2. call[c].id \in DOMAIN table => call[c].id # 0
    BY <2>1 DEF NativeOK
  <2>3. call[c].id # 0 /\ call[c].id \in DOMAIN table => table[call[c].id].ticket = c
    BY Zenon, <2>1 DEF CallInv, Known
  <2>4. call[c].res \in {None, Error, c}
    BY Zenon, <2>1 DEF CallInv
  <2> QED
    BY Zenon, <2>2, <2>3, <2>4, ValuesAssumption
<1> QED
  BY <1>1, ClientInvariant, PTL

\* executeAsync leaves nothing behind: a call that returned has freed its native
\* request in its finally block, and one that failed has too once the worker is
\* through with its messages, unless it never learned the id or a worker was lost.
THEOREM Freed == CSpec => []NothingLeftBehind
<1>1. CInv => NothingLeftBehind
  <2> SUFFICES ASSUME CInv, NEW i \in DOMAIN table, NEW c, c = table[i].ticket
               PROVE  /\ call[c].pc = "done" => call[c].res = Error
                      /\ restarts = 0 /\ inbox = <<>>
                            => call[c].pc # "done" \/ call[c].id = 0
    BY Zenon DEF NothingLeftBehind
  <2>1. c \in Calls
    BY Zenon DEF CInv, NativeOK
  <2>2. CallInv(c) /\ ~Gone(c)
    BY Zenon, <2>1 DEF CInv, Gone
  <2>3. inbox = <<>> => ~Freeing(c)
    BY DEF Freeing
  <2> QED
    BY Zenon, <2>2, <2>3 DEF CallInv, Over
<1> QED
  BY <1>1, ClientInvariant, PTL
=============================================================================

--------------------------- MODULE DiscoveryProofs ---------------------------
(***************************************************************************)
(* Model discovery for any number of requests and admin calls, any lists   *)
(* of the upstream and any periods: one call serves everybody, a list      *)
(* lives as long as it should, and a model that every list names is        *)
(* always offered.                                                         *)
(***************************************************************************)
EXTENDS Discovery, SequenceTheorems, FiniteSetTheorems, TLAPS

Fields ==
  /\ list \subseteq Models /\ listAge \in 0..Cap /\ failAge \in 0..Cap
  /\ task \in [Task -> TaskPhase] /\ request \in [Requests -> RequestState]
  /\ closed \in BOOLEAN

(* Every task that waits for the lock is in the queue, once.               *)
QueueOK ==
  /\ queue \in Seq(Task)
  /\ ToSet(queue) = {t \in Task : task[t] = "lock"} /\ IsInjective(queue)

(* One task calls, while the list is old and no failure is recent.         *)
OneCaller ==
  /\ \A t, u \in Calling : t = u
  /\ Calling # {} => ~Fresh /\ ~Pausing

(* What is cached was an answer, and is not older than the last failure    *)
(* allows.                                                                 *)
ListFromAnswer == list # {} => list \in Answers
ListYoung == list # {} /\ failAge < Cap => listAge <= failAge + StaleAfter

IInv ==
  /\ Fields /\ QueueOK /\ OneCaller
  /\ ListFromAnswer /\ ListYoung /\ SteadyModelOffered

-----------------------------------------------------------------------------
LEMMA ConstantFacts ==
  /\ Answers \subseteq SUBSET Models /\ FreeModels \subseteq Models
  /\ Refresh \in Nat /\ StaleAfter \in Nat /\ FailurePause \in Nat
  /\ Refresh >= 1 /\ StaleAfter >= 1 /\ FailurePause >= 1 /\ FailurePause <= Refresh
  /\ MaxWait \in Nat /\ Cap \in Nat /\ Cap > Refresh /\ Cap > StaleAfter + FailurePause
BY DiscoveryConstants

(* The queue: who joins it at the end, leaves it at the front, or is       *)
(* cancelled in the middle.                                                *)
LEMMA Joins ==
  ASSUME NEW S, NEW q \in Seq(S), IsInjective(q), NEW e \in S, e \notin ToSet(q)
  PROVE  /\ Append(q, e) \in Seq(S)
         /\ ToSet(Append(q, e)) = ToSet(q) \cup {e}
         /\ IsInjective(Append(q, e))
<1>1. /\ Append(q, e) \in Seq(S) /\ Len(Append(q, e)) = Len(q) + 1 /\ Len(q) \in Nat
      /\ \A i \in 1..Len(q) : Append(q, e)[i] = q[i]
      /\ Append(q, e)[Len(q) + 1] = e
      /\ DOMAIN q = 1..Len(q) /\ DOMAIN Append(q, e) = 1..(Len(q) + 1)
  OBVIOUS
<1>2. 1..(Len(q) + 1) = (1..Len(q)) \cup {Len(q) + 1}
  BY <1>1
<1>3. \A i \in 1..Len(q) : q[i] # e
  BY <1>1 DEF ToSet
<1> QED
  BY <1>1, <1>2, <1>3 DEF ToSet, IsInjective

LEMMA LeavesFront ==
  ASSUME NEW S, NEW q \in Seq(S), IsInjective(q), q # <<>>
  PROVE  /\ Head(q) \in ToSet(q) /\ Tail(q) \in Seq(S)
         /\ ToSet(Tail(q)) = ToSet(q) \ {Head(q)}
         /\ IsInjective(Tail(q))
<1>1. /\ Tail(q) \in Seq(S) /\ Len(q) \in Nat /\ Len(q) >= 1 /\ Len(Tail(q)) = Len(q) - 1
      /\ \A i \in 1..(Len(q) - 1) : Tail(q)[i] = q[i + 1]
      /\ Head(q) = q[1]
      /\ DOMAIN q = 1..Len(q) /\ DOMAIN Tail(q) = 1..(Len(q) - 1)
  OBVIOUS
<1>2. Head(q) \in ToSet(q)
  BY <1>1 DEF ToSet
<1>3. IsInjective(Tail(q))
  <2> SUFFICES ASSUME NEW i \in 1..(Len(q) - 1), NEW j \in 1..(Len(q) - 1),
                      Tail(q)[i] = Tail(q)[j]
               PROVE  i = j
    BY <1>1 DEF IsInjective
  <2>1. q[i + 1] = q[j + 1] /\ i + 1 \in 1..Len(q) /\ j + 1 \in 1..Len(q)
    BY <1>1
  <2>2. i + 1 = j + 1
    BY <1>1, <2>1 DEF IsInjective
  <2> QED
    BY <2>2
<1>4. ASSUME NEW x PROVE x \in ToSet(Tail(q)) <=> x \in ToSet(q) \ {Head(q)}
  <2>1. ASSUME NEW i \in 1..(Len(q) - 1)
        PROVE  Tail(q)[i] \in ToSet(q) /\ Tail(q)[i] # Head(q)
    <3>1. i + 1 \in 1..Len(q) /\ i + 1 # 1 /\ 1 \in 1..Len(q) /\ Tail(q)[i] = q[i + 1]
      BY <1>1
    <3>2. q[i + 1] # q[1]
      BY <1>1, <3>1 DEF IsInjective
    <3> QED
      BY <1>1, <3>1, <3>2 DEF ToSet
  <2>2. ASSUME NEW i \in 1..Len(q), q[i] # Head(q)
        PROVE  q[i] \in ToSet(Tail(q))
    <3>1. i # 1
      BY <1>1, <2>2
    <3>2. i - 1 \in 1..(Len(q) - 1) /\ (i - 1) + 1 = i
      BY <1>1, <3>1
    <3>3. Tail(q)[i - 1] = q[i]
      BY <1>1, <3>2
    <3> QED
      BY <1>1, <3>2, <3>3 DEF ToSet
  <2> QED
    BY <1>1, <2>1, <2>2 DEF ToSet
<1> QED
  BY <1>1, <1>2, <1>3, <1>4

LEMMA LeavesMiddle ==
  ASSUME NEW S, NEW q \in Seq(S), IsInjective(q), NEW e
  PROVE  /\ RemoveFirst(q, e) \in Seq(S)
         /\ ToSet(RemoveFirst(q, e)) = ToSet(q) \ {e}
         /\ IsInjective(RemoveFirst(q, e))
<1> DEFINE n == Len(q)
<1>1. n \in Nat /\ DOMAIN q = 1..n /\ \A i \in 1..n : q[i] \in S
  OBVIOUS
<1>2. CASE e \notin ToSet(q)
  <2>1. ~ \E i \in 1..Len(q) : q[i] = e
    BY <1>1, <1>2 DEF ToSet
  <2>2. RemoveFirst(q, e) = q
    BY <2>1 DEF RemoveFirst
  <2> QED
    BY <1>2, <2>2
<1>3. CASE e \in ToSet(q)
  <2>1. PICK k \in 1..n : q[k] = e
    BY <1>1, <1>3 DEF ToSet
  <2>2. \A i \in 1..n : q[i] = e => i = k
    BY <1>1, <2>1 DEF IsInjective
  <2>3. SelectInSeq(q, LAMBDA v : v = e) = k
    <3>1. {i \in 1..Len(q) : q[i] = e} = {k}
      BY <2>1, <2>2
    <3>2. Min({k}) = k
      BY <2>1 DEF Min
    <3> QED
      BY <3>1, <3>2 DEF SelectInSeq
  <2> DEFINE a == SubSeq(q, 1, k - 1)
             b == SubSeq(q, k + 1, n)
             r == a \o b
  <2>4. RemoveFirst(q, e) = r
    BY <2>1, <2>3 DEF RemoveFirst, RemoveAt
  <2>5. /\ a \in Seq(S) /\ Len(a) = k - 1
        /\ \A i \in 1..(k - 1) : a[i] = q[i]
    BY <1>1, SubSeqProperties
  <2>6. /\ b \in Seq(S) /\ Len(b) = n - k
        /\ \A i \in 1..(n - k) : b[i] = q[k + i]
    <3>1. /\ b \in Seq(S) /\ Len(b) = IF k + 1 <= n THEN n - (k + 1) + 1 ELSE 0
          /\ \A i \in 1..(n - (k + 1) + 1) : b[i] = q[(k + 1) + i - 1]
      BY <1>1, SubSeqProperties
    <3> HIDE DEF b, n
    <3>2. n - (k + 1) + 1 = n - k /\ (~(k + 1 <= n) => n - k = 0)
      BY <1>1
    <3>3. \A i \in 1..(n - k) : (k + 1) + i - 1 = k + i
      BY <1>1
    <3> QED
      BY <3>1, <3>2, <3>3
  <2>7. /\ r \in Seq(S) /\ Len(r) = n - 1
        /\ \A i \in 1..(n - 1) : r[i] = IF i <= k - 1 THEN a[i] ELSE b[i - (k - 1)]
    <3> HIDE DEF a, b, n
    <3>1. /\ a \o b \in Seq(S) /\ Len(a \o b) = Len(a) + Len(b)
          /\ \A i \in 1..Len(a) + Len(b) :
               (a \o b)[i] = IF i <= Len(a) THEN a[i] ELSE b[i - Len(a)]
      BY <2>5, <2>6, ConcatProperties
    <3>2. Len(a) + Len(b) = n - 1
      BY <1>1, <2>5, <2>6
    <3> QED
      BY <3>1, <3>2, <2>5
  <2> HIDE DEF a, b, r, n
  <2> DEFINE from(i) == IF i < k THEN i ELSE i + 1
  <2>8. ASSUME NEW i \in 1..(n - 1)
        PROVE  from(i) \in 1..n /\ from(i) # k /\ r[i] = q[from(i)]
    <3>1. CASE i < k
      <4>1. i \in 1..(k - 1) /\ i <= k - 1 /\ from(i) = i /\ i \in 1..n
        BY <1>1, <3>1
      <4> QED
        BY <2>5, <2>7, <3>1, <4>1
    <3>2. CASE ~(i < k)
      <4>1. /\ i - (k - 1) \in 1..(n - k) /\ ~(i <= k - 1) /\ from(i) = i + 1
            /\ i + 1 \in 1..n /\ i + 1 # k /\ k + (i - (k - 1)) = i + 1
        BY <1>1, <3>2
      <4>2. b[i - (k - 1)] = q[i + 1]
        BY <2>6, <4>1
      <4> QED
        BY <2>7, <4>1, <4>2
    <3> QED
      BY <3>1, <3>2
  <2>9. ASSUME NEW j \in 1..n, j # k
        PROVE  \E i \in 1..(n - 1) : from(i) = j
    <3>1. CASE j < k
      <4>1. j \in 1..(n - 1) /\ from(j) = j
        BY <1>1, <3>1
      <4> QED
        BY <4>1
    <3>2. CASE ~(j < k)
      <4>1. j - 1 \in 1..(n - 1) /\ from(j - 1) = j
        BY <1>1, <2>9, <3>2
      <4> HIDE DEF from
      <4> QED
        BY <4>1
    <3> QED
      BY <3>1, <3>2
  <2>10. \A i, j \in 1..(n - 1) : from(i) = from(j) => i = j
    BY <1>1
  <2>11. DOMAIN r = 1..(n - 1)
    BY <2>7
  <2> HIDE DEF from
  <2>12. IsInjective(r)
    <3> SUFFICES ASSUME NEW i \in 1..(n - 1), NEW j \in 1..(n - 1), r[i] = r[j]
                 PROVE  i = j
      BY <2>11 DEF IsInjective
    <3>1. from(i) = from(j)
      BY <1>1, <2>8 DEF IsInjective
    <3> QED
      BY <3>1, <2>10
  <2>13. ToSet(r) = ToSet(q) \ {e}
    <3>1. ASSUME NEW i \in 1..(n - 1) PROVE r[i] \in ToSet(q) \ {e}
      BY <1>1, <2>2, <2>8 DEF ToSet
    <3>2. ASSUME NEW j \in 1..n, q[j] # e PROVE q[j] \in ToSet(r)
      <4>1. PICK i \in 1..(n - 1) : from(i) = j
        BY <2>1, <2>9, <3>2
      <4>2. r[i] = q[j]
        BY <2>8, <4>1
      <4> QED
        BY <2>11, <4>2 DEF ToSet
    <3> QED
      BY <1>1, <2>11, <3>1, <3>2 DEF ToSet
  <2> QED
    BY <2>4, <2>7, <2>12, <2>13
<1> QED
  BY <1>2, <1>3

-----------------------------------------------------------------------------
(* What the end of a task does to the requests: they keep what they were   *)
(* offered.                                                                *)
LEMMA GivenType ==
  ASSUME NEW q \in RequestState, NEW models \in SUBSET Models
  PROVE  Given(q, models) \in RequestState /\ Given(q, models).offered = q.offered
<1>1. 0 \in 0..MaxWait
  BY ConstantFacts
<1> QED
  BY <1>1 DEF Given, RequestState

(* A step keeps the requests well-typed and what they were offered.        *)
OffersKept ==
  /\ request' \in [Requests -> RequestState]
  /\ \A r \in Requests : request'[r].offered = request[r].offered

LEMMA ReturnKeeps ==
  ASSUME Fields, NEW t \in Task, NEW models \in SUBSET Models, Return(t, models)
  PROVE  OffersKept /\ task' = [task EXCEPT ![t] = "idle"]
<1>1. ASSUME NEW r \in Requests
      PROVE  request'[r] \in RequestState /\ request'[r].offered = request[r].offered
  BY GivenType DEF Fields, Return
<1>2. request' = [r \in Requests |-> request'[r]]
  BY DEF Return
<1> QED
  BY <1>1, <1>2 DEF OffersKept, Return

LEMMA ProceedKeeps ==
  ASSUME Fields, NEW t \in Task, Proceed(t)
  PROVE  /\ OffersKept
         /\ \/ task' = [task EXCEPT ![t] = "idle"]
            \/ ~Fresh /\ ~Pausing /\ task' = [task EXCEPT ![t] = "calling"]
<1>1. list \in SUBSET Models
  BY DEF Fields
<1>2. CASE Return(t, list)
  BY <1>1, <1>2, ReturnKeeps
<1>3. CASE ~Fresh /\ ~Pausing /\ task' = [task EXCEPT ![t] = "calling"] /\ UNCHANGED request
  BY <1>3 DEF Fields, OffersKept
<1> QED
  BY <1>2, <1>3 DEF Proceed

(* Every step, as far as the requests are concerned.                       *)
LEMMA RequestStep ==
  ASSUME IInv, [Next]_vars
  PROVE  request' \in [Requests -> RequestState] /\ SteadyModelOffered'
<1>0. Fields /\ SteadyModelOffered /\ list \in SUBSET Models
  BY DEF IInv, Fields
<1>1. CASE OffersKept
  BY <1>0, <1>1 DEF OffersKept, SteadyModelOffered
<1>2. ASSUME NEW t \in Task, Enter(t) PROVE OffersKept
  BY <1>0, <1>2, ProceedKeeps DEF Enter, OffersKept, Fields
<1>3. ASSUME NEW t \in Task, Fail(t) PROVE OffersKept
  BY <1>0, <1>3, ReturnKeeps DEF Fail
<1>4. ASSUME NEW t \in Task, NEW models \in Answers, Answer(t, models) PROVE OffersKept
  BY <1>0, <1>4, ReturnKeeps, ConstantFacts DEF Answer
<1>5. CASE Granted
  <2>1. Head(queue) \in Task
    BY <1>5 DEF IInv, QueueOK, Granted
  <2> QED
    BY <1>0, <1>1, <1>5, <2>1, ProceedKeeps DEF Granted
<1>6. ASSUME NEW r \in Requests, Ask(r) \/ TimeOut(r) PROVE OffersKept
  <2> DEFINE q == request[r]
  <2>1. q \in RequestState /\ request \in [Requests -> RequestState]
    BY <1>0 DEF Fields
  <2>2. /\ Given(q, list) \in RequestState /\ Given(q, list).offered = q.offered
        /\ Given(q, {}) \in RequestState /\ Given(q, {}).offered = q.offered
    BY <1>0, <2>1, GivenType
  <2>3. /\ [q EXCEPT !.pc = "waiting"] \in RequestState
        /\ [q EXCEPT !.pc = "waiting"].offered = q.offered
    BY <2>1 DEF RequestState
  <2>4. \E n : /\ request' = [request EXCEPT ![r] = n]
               /\ n \in RequestState /\ n.offered = q.offered
    <3>1. CASE TimeOut(r)
      <4>1. request' = [request EXCEPT ![r] = Given(q, {})]
        BY <3>1 DEF TimeOut
      <4> QED
        BY <4>1, <2>2
    <3>2. CASE Ask(r)
      <4> DEFINE n == IF list # {} THEN Given(q, list) ELSE [q EXCEPT !.pc = "waiting"]
      <4>1. request' = [request EXCEPT ![r] = n]
        BY <3>2, Zenon DEF Ask
      <4>2. n \in RequestState /\ n.offered = q.offered
        BY <2>2, <2>3
      <4> HIDE DEF n
      <4> QED
        BY <4>1, <4>2
    <3> QED
      BY <1>6, <3>1, <3>2
  <2> QED
    BY <2>1, <2>4 DEF OffersKept
<1>7. ASSUME NEW r \in Requests, Resolve(r)
      PROVE  request' \in [Requests -> RequestState] /\ SteadyModelOffered'
  <2> DEFINE q == request[r]
             offer == (FreeModels \cap KnownModelIds) \cup q.got
             n == [q EXCEPT !.pc = "idle", !.got = {}, !.offered = offer]
  <2>1. q \in RequestState /\ request \in [Requests -> RequestState]
    BY <1>0 DEF Fields
  <2>2. offer \in SUBSET Models /\ Steady \subseteq offer
    <3>1. q.got \subseteq Models
      BY <2>1 DEF RequestState
    <3>2. Steady \subseteq KnownModelIds
      BY ConstantFacts DEF IInv, ListFromAnswer, KnownModelIds, Steady
    <3> QED
      BY <3>1, <3>2, ConstantFacts DEF Steady
  <2>3. request' = [request EXCEPT ![r] = n]
    BY <1>7 DEF Resolve
  <2> HIDE DEF offer
  <2>4. n \in RequestState /\ n.offered = offer
    BY <2>1, <2>2 DEF RequestState
  <2> HIDE DEF n
  <2> QED
    BY <1>0, <2>1, <2>2, <2>3, <2>4 DEF SteadyModelOffered
<1>8. ASSUME NEW a \in Admins, AdminAsk(a) PROVE OffersKept
  BY <1>0, <1>8 DEF AdminAsk, Fields, OffersKept
<1>9. CASE Close
  <2>1. ASSUME NEW r \in Requests
        PROVE  request'[r] \in RequestState /\ request'[r].offered = request[r].offered
    <3>1. request[r] \in RequestState
      BY <1>0 DEF Fields
    <3>a. 0 \in 0..MaxWait
      BY ConstantFacts
    <3>2. /\ [request[r] EXCEPT !.pc = "idle", !.wait = 0] \in RequestState
          /\ [request[r] EXCEPT !.pc = "idle", !.wait = 0].offered = request[r].offered
      BY <3>1, <3>a DEF RequestState
    <3>3. \/ request'[r] = [request[r] EXCEPT !.pc = "idle", !.wait = 0]
          \/ request'[r] = request[r]
      BY <1>9 DEF Close
    <3> QED
      BY <3>1, <3>2, <3>3
  <2>2. request' = [r \in Requests |-> request'[r]]
    BY <1>9 DEF Close
  <2>3. OffersKept
    BY <2>1, <2>2 DEF OffersKept
  <2> QED
    BY <2>3, <1>1
<1>10. CASE Tick
  <2>1. ASSUME NEW r \in Requests
        PROVE  request'[r] \in RequestState /\ request'[r].offered = request[r].offered
    <3>1. request[r] \in RequestState
      BY <1>0 DEF Fields
    <3>2. CASE request[r].pc = "waiting" /\ request[r].wait < MaxWait
      <4>1. request[r].wait + 1 \in 0..MaxWait
        BY <3>1, <3>2, ConstantFacts DEF RequestState
      <4>2. request'[r] = [request[r] EXCEPT !.wait = @ + 1]
        BY <1>10, <3>2 DEF Tick
      <4> QED
        BY <3>1, <4>1, <4>2 DEF RequestState
    <3>3. CASE ~(request[r].pc = "waiting" /\ request[r].wait < MaxWait)
      BY <1>10, <3>1, <3>3 DEF Tick
    <3> QED
      BY <3>2, <3>3
  <2>2. request' = [r \in Requests |-> request'[r]]
    BY <1>10 DEF Tick
  <2>3. OffersKept
    BY <2>1, <2>2 DEF OffersKept
  <2> QED
    BY <2>3, <1>1
<1>11. CASE UNCHANGED vars
  BY <1>0, <1>11 DEF vars, Fields, SteadyModelOffered
<1> QED
  BY <1>1, <1>2, <1>3, <1>4, <1>5, <1>6, <1>7, <1>8, <1>9, <1>10, <1>11 DEF Next

-----------------------------------------------------------------------------
(* Every step, as far as the list and its age are concerned.               *)
LEMMA AgesStep ==
  ASSUME IInv, [Next]_vars
  PROVE  /\ list' \subseteq Models /\ listAge' \in 0..Cap /\ failAge' \in 0..Cap
         /\ closed' \in BOOLEAN
         /\ ListFromAnswer' /\ ListYoung'
<1>0. /\ Fields /\ ListFromAnswer /\ ListYoung
      /\ listAge \in Nat /\ failAge \in Nat /\ listAge <= Cap /\ failAge <= Cap
      /\ 0 \in 0..Cap /\ Cap \in 0..Cap
  BY ConstantFacts DEF IInv, Fields
<1>1. CASE UNCHANGED <<list, listAge, failAge>> /\ closed' \in BOOLEAN
  BY <1>0, <1>1 DEF Fields, ListFromAnswer, ListYoung
<1>2. ASSUME NEW t \in Task, NEW models \in Answers, Answer(t, models)
      PROVE  /\ list' \subseteq Models /\ listAge' \in 0..Cap /\ failAge' \in 0..Cap
             /\ closed' \in BOOLEAN
             /\ ListFromAnswer' /\ ListYoung'
  BY <1>0, <1>2, ConstantFacts DEF Answer, Fields, ListFromAnswer, ListYoung
<1>3. ASSUME NEW t \in Task, Fail(t)
      PROVE  /\ list' \subseteq Models /\ listAge' \in 0..Cap /\ failAge' \in 0..Cap
             /\ closed' \in BOOLEAN
             /\ ListFromAnswer' /\ ListYoung'
  <2>1. /\ list' = IF listAge > StaleAfter THEN {} ELSE list
        /\ failAge' = 0 /\ listAge' = listAge /\ closed' = closed
    BY <1>3 DEF Fail
  <2>2. ListYoung'
    BY <1>0, <2>1, ConstantFacts DEF ListYoung
  <2> QED
    BY <1>0, <2>1, <2>2 DEF Fields, ListFromAnswer
<1>4. CASE Tick
  <2>1. listAge' = Older(listAge) /\ failAge' = Older(failAge) /\ UNCHANGED <<list, closed>>
    BY <1>4 DEF Tick
  <2>2. \A age \in 0..Cap : /\ Older(age) \in 0..Cap
                            /\ Older(age) <= age + 1
                            /\ Older(age) < Cap => Older(age) = age + 1
    BY ConstantFacts DEF Older
  <2>3. ListYoung'
    <3> SUFFICES ASSUME list # {}, failAge' < Cap PROVE listAge' <= failAge' + StaleAfter
      BY <2>1 DEF ListYoung
    <3>1. failAge' = failAge + 1 /\ listAge' <= listAge + 1 /\ listAge' \in Nat
      BY <1>0, <2>1, <2>2, ConstantFacts
    <3>2. failAge < Cap
      BY <1>0, <3>1, ConstantFacts
    <3>3. listAge <= failAge + StaleAfter
      BY <1>0, <3>2 DEF ListYoung
    <3> QED
      BY <1>0, <3>1, <3>3, ConstantFacts
  <2> QED
    BY <1>0, <2>1, <2>2, <2>3 DEF Fields, ListFromAnswer
<1>5. CASE \/ \E t \in Task : Enter(t)
           \/ \E r \in Requests : Ask(r) \/ TimeOut(r) \/ Resolve(r)
           \/ \E a \in Admins : AdminAsk(a)
           \/ Granted \/ Close \/ UNCHANGED vars
  <2>1. UNCHANGED <<list, listAge, failAge>> /\ closed' \in BOOLEAN
    BY <1>0, <1>5
    DEF Fields, Enter, Ask, TimeOut, Resolve, AdminAsk, Granted, Close, vars
  <2> QED
    BY <1>1, <2>1
<1> QED
  BY <1>2, <1>3, <1>4, <1>5 DEF Next

-----------------------------------------------------------------------------
(* Every step, as far as the tasks and the lock are concerned.  A task     *)
(* that neither joins the queue nor leaves it does not disturb it.         *)
LEMMA QueueKept ==
  ASSUME Fields, QueueOK, UNCHANGED queue,
         NEW t \in Task, NEW phase \in TaskPhase, task[t] # "lock", phase # "lock",
         task' = [task EXCEPT ![t] = phase]
  PROVE  task' \in [Task -> TaskPhase] /\ QueueOK'
<1>1. task \in [Task -> TaskPhase]
  BY DEF Fields
<1>2. {u \in Task : task'[u] = "lock"} = {u \in Task : task[u] = "lock"}
  BY <1>1
<1> QED
  BY <1>1, <1>2 DEF QueueOK

(* The caller is alone before and after a step that adds none and leaves   *)
(* the reasons for a call alone.                                           *)
LEMMA CallerKept ==
  ASSUME OneCaller, UNCHANGED <<list, listAge, failAge>>, Calling' \subseteq Calling
  PROVE  OneCaller'
<1>1. Fresh' = Fresh /\ Pausing' = Pausing
  BY DEF Fresh, Pausing
<1> QED
  BY <1>1 DEF OneCaller

(* A task begins the call when nobody else is calling.                     *)
LEMMA CallerBegins ==
  ASSUME Fields, UNCHANGED <<list, listAge, failAge>>, Calling = {}, ~Fresh, ~Pausing,
         NEW t \in Task, task' = [task EXCEPT ![t] = "calling"]
  PROVE  OneCaller'
<1>1. Fresh' = Fresh /\ Pausing' = Pausing
  BY DEF Fresh, Pausing
<1>2. Calling' = {t}
  BY DEF Calling, Fields
<1> QED
  BY <1>1, <1>2 DEF OneCaller

LEMMA CallerEnds ==
  ASSUME Fields, OneCaller, NEW t \in Task, task[t] = "calling",
         task' = [task EXCEPT ![t] = "idle"]
  PROVE  OneCaller'
<1>1. Calling' = {}
  BY DEF Calling, Fields, OneCaller
<1> QED
  BY <1>1 DEF OneCaller

LEMMA TaskStep ==
  ASSUME IInv, [Next]_vars
  PROVE  task' \in [Task -> TaskPhase] /\ QueueOK' /\ OneCaller'
<1>0. /\ Fields /\ QueueOK /\ OneCaller /\ task \in [Task -> TaskPhase]
      /\ list \in SUBSET Models /\ Refresher \in Task
      /\ \A t \in Task : t \in ToSet(queue) <=> task[t] = "lock"
  BY DEF IInv, Fields, QueueOK, Task
<1> DEFINE Goal == task' \in [Task -> TaskPhase] /\ QueueOK' /\ OneCaller'
<1>1. ASSUME NEW t \in Task, Enter(t) PROVE Goal
  <2>0. task[t] = "start" /\ UNCHANGED <<list, listAge, failAge>>
    BY <1>1 DEF Enter
  <2>1. CASE /\ Fresh \/ Pausing \/ (Calling = {} /\ queue = <<>>)
             /\ Proceed(t) /\ UNCHANGED queue
    <3>1. CASE task' = [task EXCEPT ![t] = "idle"]
      <4>1. Calling' \subseteq Calling
        BY <1>0, <3>1 DEF Calling
      <4>2. task' \in [Task -> TaskPhase] /\ QueueOK'
        BY <1>0, <2>0, <2>1, <3>1, QueueKept DEF TaskPhase
      <4> QED
        BY <1>0, <2>0, <4>1, <4>2, CallerKept
    <3>2. CASE ~Fresh /\ ~Pausing /\ task' = [task EXCEPT ![t] = "calling"]
      <4>1. task' \in [Task -> TaskPhase] /\ QueueOK'
        BY <1>0, <2>0, <2>1, <3>2, QueueKept DEF TaskPhase
      <4>2. Calling = {}
        BY <2>1, <3>2
      <4> QED
        BY <1>0, <2>0, <3>2, <4>1, <4>2, CallerBegins
    <3> QED
      BY <1>0, <2>1, <3>1, <3>2, ProceedKeeps
  <2>2. CASE /\ task' = [task EXCEPT ![t] = "lock"]
             /\ queue' = Append(queue, t)
    <3>1. /\ Append(queue, t) \in Seq(Task)
          /\ ToSet(Append(queue, t)) = ToSet(queue) \cup {t}
          /\ IsInjective(Append(queue, t))
      BY <1>0, <2>0, Joins DEF QueueOK
    <3>2. {u \in Task : task'[u] = "lock"} = {u \in Task : task[u] = "lock"} \cup {t}
      BY <1>0, <2>2
    <3>3. QueueOK'
      BY <1>0, <2>2, <3>1, <3>2 DEF QueueOK
    <3>4. Calling' \subseteq Calling
      BY <1>0, <2>2 DEF Calling
    <3>5. task' \in [Task -> TaskPhase]
      BY <1>0, <2>2 DEF TaskPhase
    <3> QED
      BY <1>0, <2>0, <3>3, <3>4, <3>5, CallerKept
  <2> QED
    BY <1>1, <2>1, <2>2 DEF Enter
<1>2. ASSUME NEW t \in Task, Fail(t) PROVE Goal
  <2>1. task[t] = "calling" /\ UNCHANGED queue /\ task' = [task EXCEPT ![t] = "idle"]
    BY <1>2 DEF Fail, Return
  <2>2. task' \in [Task -> TaskPhase] /\ QueueOK'
    BY <1>0, <2>1, QueueKept DEF TaskPhase
  <2> QED
    BY <1>0, <2>1, <2>2, CallerEnds
<1>3. ASSUME NEW t \in Task, NEW models \in Answers, Answer(t, models) PROVE Goal
  <2>1. task[t] = "calling" /\ UNCHANGED queue /\ task' = [task EXCEPT ![t] = "idle"]
    BY <1>3 DEF Answer, Return
  <2>2. task' \in [Task -> TaskPhase] /\ QueueOK'
    BY <1>0, <2>1, QueueKept DEF TaskPhase
  <2> QED
    BY <1>0, <2>1, <2>2, CallerEnds
<1>4. CASE Granted
  <2> DEFINE t == Head(queue)
  <2>1. /\ queue # <<>> /\ Calling = {} /\ queue' = Tail(queue) /\ Proceed(t)
        /\ UNCHANGED <<list, listAge, failAge>>
    BY <1>4 DEF Granted
  <2>2. /\ t \in ToSet(queue) /\ Tail(queue) \in Seq(Task)
        /\ ToSet(Tail(queue)) = ToSet(queue) \ {t}
        /\ IsInjective(Tail(queue))
    BY <1>0, <2>1, LeavesFront DEF QueueOK
  <2>3. t \in Task /\ task[t] = "lock"
    BY <1>0, <2>2 DEF QueueOK
  <2> HIDE DEF t
  <2>4. \/ task' = [task EXCEPT ![t] = "idle"]
        \/ ~Fresh /\ ~Pausing /\ task' = [task EXCEPT ![t] = "calling"]
    BY <1>0, <2>1, <2>3, ProceedKeeps
  <2>5. {u \in Task : task'[u] = "lock"} = {u \in Task : task[u] = "lock"} \ {t}
    BY <1>0, <2>3, <2>4
  <2>6. QueueOK'
    BY <1>0, <2>1, <2>2, <2>5 DEF QueueOK
  <2>7. task' \in [Task -> TaskPhase]
    BY <1>0, <2>4 DEF TaskPhase
  <2>8. OneCaller'
    <3>1. CASE task' = [task EXCEPT ![t] = "idle"]
      <4>1. Calling' \subseteq Calling
        BY <1>0, <3>1 DEF Calling
      <4> QED
        BY <1>0, <2>1, <4>1, CallerKept
    <3>2. CASE ~Fresh /\ ~Pausing /\ task' = [task EXCEPT ![t] = "calling"]
      BY <1>0, <2>1, <2>3, <3>2, CallerBegins
    <3> QED
      BY <2>4, <3>1, <3>2
  <2> QED
    BY <2>6, <2>7, <2>8
<1>5. ASSUME NEW t \in Task, task[t] = "idle", task' = [task EXCEPT ![t] = "start"],
             UNCHANGED <<list, listAge, failAge, queue>>
      PROVE  Goal
  <2>1. task' \in [Task -> TaskPhase] /\ QueueOK'
    BY <1>0, <1>5, QueueKept DEF TaskPhase
  <2>2. Calling' \subseteq Calling
    BY <1>0, <1>5 DEF Calling
  <2> QED
    BY <1>0, <1>5, <2>1, <2>2, CallerKept
<1>6. CASE UNCHANGED <<list, listAge, failAge, queue, task>>
  <2>1. Calling' \subseteq Calling
    BY <1>6 DEF Calling
  <2> QED
    BY <1>0, <1>6, <2>1, CallerKept DEF QueueOK
<1>7. ASSUME NEW r \in Requests, Ask(r) PROVE Goal
  <2>1. UNCHANGED <<list, listAge, failAge, queue>>
    BY <1>7 DEF Ask
  <2>2. \/ task[Refresher] = "idle" /\ task' = [task EXCEPT ![Refresher] = "start"]
        \/ UNCHANGED task
    BY <1>7 DEF Ask, Idle
  <2> QED
    BY <1>0, <1>5, <1>6, <2>1, <2>2
<1>8. ASSUME NEW r \in Requests, TimeOut(r) \/ Resolve(r) PROVE Goal
  BY <1>6, <1>8 DEF TimeOut, Resolve
<1>9. ASSUME NEW a \in Admins, AdminAsk(a) PROVE Goal
  <2>1. a \in Task
    BY DEF Task
  <2> QED
    BY <1>5, <1>9, <2>1 DEF AdminAsk, Idle
<1>10. CASE Close
  <2>1. /\ task' = [task EXCEPT ![Refresher] = "idle"]
        /\ queue' = RemoveFirst(queue, Refresher)
        /\ UNCHANGED <<list, listAge, failAge>>
    BY <1>10 DEF Close
  <2>2. /\ RemoveFirst(queue, Refresher) \in Seq(Task)
        /\ ToSet(RemoveFirst(queue, Refresher)) = ToSet(queue) \ {Refresher}
        /\ IsInjective(RemoveFirst(queue, Refresher))
    BY <1>0, LeavesMiddle DEF QueueOK
  <2>3. {u \in Task : task'[u] = "lock"} = {u \in Task : task[u] = "lock"} \ {Refresher}
    BY <1>0, <2>1
  <2>4. QueueOK'
    BY <1>0, <2>1, <2>2, <2>3 DEF QueueOK
  <2>5. task' \in [Task -> TaskPhase]
    BY <1>0, <2>1 DEF TaskPhase
  <2>6. Calling' \subseteq Calling
    BY <1>0, <2>1 DEF Calling
  <2> QED
    BY <1>0, <2>1, <2>4, <2>5, <2>6, CallerKept
<1>11. CASE Tick
  <2>1. /\ listAge' = Older(listAge) /\ failAge' = Older(failAge)
        /\ UNCHANGED <<list, task, queue>>
    BY <1>11 DEF Tick
  <2>2. Calling' = Calling
    BY <2>1 DEF Calling
  <2>3. (~Fresh => ~Fresh') /\ (~Pausing => ~Pausing')
    <3>1. /\ listAge \in Nat /\ failAge \in Nat
          /\ listAge <= Cap /\ failAge <= Cap
      BY <1>0, ConstantFacts DEF Fields
    <3>2. (~(listAge < Refresh) => ~(listAge' < Refresh))
      BY <2>1, <3>1, ConstantFacts DEF Older
    <3>3. (~(failAge < FailurePause) => ~(failAge' < FailurePause))
      BY <2>1, <3>1, ConstantFacts DEF Older
    <3> QED
      BY <2>1, <3>2, <3>3 DEF Fresh, Pausing
  <2>4. OneCaller'
    BY <1>0, <2>2, <2>3 DEF OneCaller
  <2> QED
    BY <1>0, <2>1, <2>4 DEF QueueOK
<1>12. CASE UNCHANGED vars
  BY <1>6, <1>12 DEF vars
<1> QED
  BY <1>1, <1>2, <1>3, <1>4, <1>7, <1>8, <1>9, <1>10, <1>11, <1>12 DEF Next

-----------------------------------------------------------------------------
LEMMA InitInvariant == Init => IInv
<1> SUFFICES ASSUME Init PROVE IInv
  OBVIOUS
<1>1. Fields
  <2>1. 0 \in 0..MaxWait /\ Cap \in 0..Cap /\ FreeModels \in SUBSET Models
    BY ConstantFacts
  <2>2. request \in [Requests -> RequestState]
    BY <2>1 DEF Init, RequestState
  <2> QED
    BY <2>1, <2>2 DEF Init, Fields, TaskPhase
<1>2. QueueOK
  BY DEF Init, QueueOK, ToSet, IsInjective
<1>3. OneCaller
  BY DEF Init, OneCaller, Calling
<1>4. ListFromAnswer /\ ListYoung
  BY DEF Init, ListFromAnswer, ListYoung
<1>5. SteadyModelOffered
  BY DEF Init, SteadyModelOffered, Steady
<1> QED
  BY <1>1, <1>2, <1>3, <1>4, <1>5 DEF IInv

LEMMA NextInvariant == IInv /\ [Next]_vars => IInv'
BY RequestStep, AgesStep, TaskStep DEF IInv, Fields

THEOREM Invariance == Spec => []IInv
BY InitInvariant, NextInvariant, PTL DEF Spec

(* Types, and the lock: who waits for it is in the queue, once, whoever    *)
(* joins, is granted it, or is cancelled (discover_models, aclose).        *)
THEOREM TypeCorrect == Spec => []TypeOK
<1>1. IInv => TypeOK
  BY DEF IInv, Fields, QueueOK, TypeOK
<1> QED
  BY <1>1, Invariance, PTL

(* While one task calls the upstream no other does, and there is neither a *)
(* fresh list nor a recent failure: the checks of discover_models before   *)
(* the lock and under it.                                                  *)
THEOREM OneCallForAll == Spec => []OneCallServesAll
<1>1. ASSUME IInv PROVE OneCallServesAll
  <2>1. Cardinality(Calling) <= 1
    <3>1. CASE Calling = {}
      BY <3>1, FS_EmptySet
    <3>2. ASSUME NEW t \in Calling PROVE Cardinality(Calling) <= 1
      <4>1. Calling = {t}
        BY <1>1, <3>2 DEF IInv, OneCaller
      <4>2. Cardinality({t}) = 1
        BY FS_Singleton
      <4> QED
        BY <4>1, <4>2
    <3> QED
      BY <3>1, <3>2
  <2> QED
    BY <1>1, <2>1 DEF IInv, OneCaller, OneCallServesAll
<1> QED
  BY <1>1, Invariance, PTL

(* A configured free model that every answer names is offered to every     *)
(* request at every moment (known_model_ids, resolve).                     *)
THEOREM SteadyModelsOffered == Spec => []SteadyModelOffered
<1>1. IInv => SteadyModelOffered
  BY DEF IInv
<1> QED
  BY <1>1, Invariance, PTL

(* No failure later than the stale window leaves a list behind it, and no  *)
(* failure within the window takes one away (is_stale).                    *)
THEOREM ListLivesItsTime == Spec => ListLifetime
<1> DEFINE Lifetime ==
      /\ list' # {} /\ failAge' < Cap => listAge' - failAge' <= StaleAfter
      /\ list # {} /\ list' = {} => listAge > StaleAfter \/ listAge' = 0
<1>1. ASSUME IInv, IInv', [Next]_vars PROVE [Lifetime]_vars
  <2>1. list' # {} /\ failAge' < Cap => listAge' - failAge' <= StaleAfter
    <3>1. listAge' \in Nat /\ failAge' \in Nat
      BY <1>1, ConstantFacts DEF IInv, Fields
    <3>2. list' # {} /\ failAge' < Cap => listAge' <= failAge' + StaleAfter
      BY <1>1 DEF IInv, ListYoung
    <3>3. \A a, b \in Nat : a <= b + StaleAfter => a - b <= StaleAfter
      BY ConstantFacts
    <3> QED
      BY <3>1, <3>2, <3>3, Zenon
  <2>2. list # {} /\ list' = {} => listAge > StaleAfter \/ listAge' = 0
    <3> SUFFICES ASSUME list # {}, list' = {} PROVE listAge > StaleAfter \/ listAge' = 0
      OBVIOUS
    <3>1. ASSUME NEW t \in Task, Fail(t) PROVE listAge > StaleAfter
      BY <3>1 DEF Fail
    <3>2. ASSUME NEW t \in Task, NEW models \in Answers, Answer(t, models)
          PROVE  listAge' = 0
      BY <3>2 DEF Answer
    <3>3. CASE \/ \E t \in Task : Enter(t)
               \/ \E r \in Requests : Ask(r) \/ TimeOut(r) \/ Resolve(r)
               \/ \E a \in Admins : AdminAsk(a)
               \/ Granted \/ Close \/ Tick \/ UNCHANGED vars
      BY <3>3 DEF Enter, Ask, TimeOut, Resolve, AdminAsk, Granted, Close, Tick, vars
    <3> QED
      BY <1>1, <3>1, <3>2, <3>3 DEF Next
  <2> QED
    BY <2>1, <2>2
<1> QED
  BY <1>1, Invariance, PTL DEF Spec, ListLifetime
=============================================================================

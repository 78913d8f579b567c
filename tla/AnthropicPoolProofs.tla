-------------------------- MODULE AnthropicPoolProofs --------------------------
(***************************************************************************)
(* Proofs about AnthropicPool, for any accounts, any number of requests    *)
(* and admin requests that overlap as the code lets them, and any number   *)
(* of failures and restarts.                                               *)
(***************************************************************************)
EXTENDS AnthropicPool, FiniteSetTheorems, SequenceTheorems, TLAPS

RuntimeType == [status : Statuses, of : Account]
ReqType == Tasks({"idle", "selected", "calling", "cool", "disable",
                  "select_panicked", "mark_panicked"})
AdmType == [pc : {"idle", "add_save", "add_saved", "add_wait", "add_runtime",
                  "rm_found", "rm_wait", "rm_runtime", "rm_store", "panicked"},
            account : Account \cup {None}, index : Nat]
RefresherType == Tasks({"idle", "refreshing", "failed", "disable"})

\* Who is under way has an account and, where the code has looked it up, an
\* index; who has ended has nothing in hand.
ReqSet == {q \in ReqType :
             /\ q.pc \in {"selected", "calling", "cool", "disable"} => q.index >= 1
             /\ q.pc \in {"calling", "cool", "disable"} => q.account \in Account}
AdmSet == {q \in AdmType :
             /\ q.pc \in {"rm_found", "rm_wait", "rm_runtime"} => q.index >= 1
             /\ q.pc \in {"idle", "panicked"} <=> q.account = None}
RefSet == {q \in RefresherType :
             /\ q.pc # "idle" => q.account \in Account
             /\ q.pc \in {"refreshing", "disable"} => q.index >= 1}

\* TypeOK, set by set, with the sets narrowed as above.
Types ==
  /\ accounts \in Seq(Account) /\ runtimes \in Seq(RuntimeType)
  /\ next_index \in Nat
  /\ store \subseteq Account /\ copy \in [Writer -> {None} \cup SUBSET Account]
  /\ req \in [Request -> ReqSet] /\ adm \in [Admin -> AdmSet]
  /\ refresher \in RefSet
  /\ crossed \in BOOLEAN /\ astray \subseteq Account
  /\ adds \in 0..MaxAdds /\ faults \in 0..MaxFaults

LEMMA TypesSuffice == Types => TypeOK
<1> SUFFICES ASSUME Types PROVE TypeOK OBVIOUS
<1>1. req \in [Request -> ReqType] BY DEF Types, ReqSet
<1>2. adm \in [Admin -> AdmType] BY DEF Types, AdmSet
<1>3. refresher \in RefresherType BY DEF Types, RefSet
<1> QED BY <1>1, <1>2, <1>3 DEF Types, TypeOK, RuntimeType, ReqType, AdmType, RefresherType

------------------------------------------------------------------------------
(* Operators                                                                *)

\* A set of numbers that is not empty has a least one.
LEMMA LeastElement ==
  ASSUME NEW T, T \subseteq Nat, T # {}
  PROVE  \E i \in T : \A j \in T : i <= j
<1>1. IsWellFoundedOn(OpToRel(<, Nat), Nat) BY NatLessThanWellFounded
<1>2. PICK i \in T : \A j \in T : ~ (<<j, i>> \in OpToRel(<, Nat))
  BY <1>1, WFMin
<1>3. \A j \in T : ~ (j < i) BY <1>2 DEF OpToRel
<1> QED BY <1>3

\* Vec::remove takes out one element and moves the later ones down.
LEMMA RemoveAtProperties ==
  ASSUME NEW S, NEW s \in Seq(S), NEW i \in 1..Len(s)
  PROVE  /\ RemoveAt(s, i) \in Seq(S)
         /\ Len(RemoveAt(s, i)) = Len(s) - 1
         /\ \A j \in 1..(Len(s) - 1) :
              RemoveAt(s, i)[j] = IF j < i THEN s[j] ELSE s[j + 1]
<1>0. Len(s) \in Nat /\ i \in Nat /\ i >= 1 /\ i <= Len(s)
      /\ \A j \in 1..Len(s) : s[j] \in S
  OBVIOUS
<1> DEFINE a == SubSeq(s, 1, i - 1)
           b == SubSeq(s, i + 1, Len(s))
<1>1. a \in Seq(S) /\ Len(a) = i - 1 /\ \A j \in 1..(i - 1) : a[j] = s[j]
  <2>1. \A j \in 1..(i - 1) : s[j] \in S BY <1>0
  <2>2. /\ a \in Seq(S) /\ Len(a) = IF 1 <= i - 1 THEN i - 1 - 1 + 1 ELSE 0
        /\ \A j \in 1..(i - 1 - 1 + 1) : a[j] = s[1 + j - 1]
    BY <1>0, <2>1, SubSeqProperties
  <2> QED BY <1>0, <2>2
<1>2. b \in Seq(S) /\ Len(b) = Len(s) - i /\ \A j \in 1..(Len(s) - i) : b[j] = s[i + j]
  <2>1. \A j \in (i + 1)..Len(s) : s[j] \in S BY <1>0
  <2>2. /\ b \in Seq(S)
        /\ Len(b) = IF i + 1 <= Len(s) THEN Len(s) - (i + 1) + 1 ELSE 0
        /\ \A j \in 1..(Len(s) - (i + 1) + 1) : b[j] = s[i + 1 + j - 1]
    BY <1>0, <2>1, SubSeqProperties
  <2> QED BY <1>0, <2>2
<1> HIDE DEF a, b
<1>3. /\ a \o b \in Seq(S) /\ Len(a \o b) = Len(a) + Len(b)
      /\ \A j \in 1..(Len(a) + Len(b)) :
           (a \o b)[j] = IF j <= Len(a) THEN a[j] ELSE b[j - Len(a)]
  BY <1>1, <1>2, ConcatProperties
<1>4. Len(a \o b) = Len(s) - 1 BY <1>0, <1>1, <1>2, <1>3
<1>5. ASSUME NEW j \in 1..(Len(s) - 1)
      PROVE  (a \o b)[j] = IF j < i THEN s[j] ELSE s[j + 1]
  <2>1. j \in 1..(Len(a) + Len(b)) BY <1>0, <1>1, <1>2
  <2>2. CASE j < i
    <3>1. j <= Len(a) /\ j \in 1..(i - 1) BY <1>0, <1>1, <2>2
    <3> QED BY <1>1, <1>3, <2>1, <2>2, <3>1
  <2>3. CASE ~ (j < i)
    <3>1. ~ (j <= Len(a)) /\ j - Len(a) \in 1..(Len(s) - i)
      BY <1>0, <1>1, <2>3
    <3>2. (a \o b)[j] = s[i + (j - Len(a))] BY <1>2, <1>3, <2>1, <3>1
    <3>3. i + (j - Len(a)) = j + 1 BY <1>0, <1>1
    <3> QED BY <2>3, <3>2, <3>3
  <2> QED BY <2>2, <2>3
<1>6. RemoveAt(s, i) = a \o b BY DEF RemoveAt, a, b
<1> QED BY <1>3, <1>4, <1>5, <1>6

\* position() finds an account of the pool.
LEMMA PositionFound ==
  ASSUME accounts \in Seq(Account), NEW a \in InPool
  PROVE  PositionOf(a) \in 1..Len(accounts) /\ accounts[PositionOf(a)] = a
<1> DEFINE T == {i \in 1..Len(accounts) : accounts[i] = a}
<1>1. T \subseteq Nat /\ T # {} BY DEF InPool
<1>2. PICK i \in T : \A j \in T : i <= j BY <1>1, LeastElement
<1>3. i \in 1..Len(accounts) /\ accounts[i] = a
      /\ \A j \in 1..(i - 1) : accounts[j] # a
  BY <1>2
<1> QED BY <1>3 DEF PositionOf

Elements(s) == {s[i] : i \in 1..Len(s)}
Once(a, s) == \A i, j \in 1..Len(s) : s[i] = a /\ s[j] = a => i = j

\* The runtimes are those of the accounts, in the same order.
Parallel(rts, accs) ==
  Len(rts) = Len(accs) /\ \A i \in 1..Len(accs) : rts[i].of = accs[i]

\* load_from_file gives every account it loads one entry and one runtime.
LEMMA LoadedPool ==
  ASSUME NEW S, S \subseteq Account, NEW order \in Orders(S), NEW rts,
         rts = [i \in 1..Cardinality(S) |-> Runtime(order[i])]
  PROVE  /\ order \in Seq(Account) /\ rts \in Seq(RuntimeType)
         /\ Parallel(rts, order) /\ Elements(order) = S
         /\ \A a : Once(a, order)
<1>0. /\ order \in [1..Cardinality(S) -> S]
      /\ \A i, j \in 1..Cardinality(S) : order[i] = order[j] => i = j
  BY DEF Orders
<1>1. IsFiniteSet(S) BY PoolAssumption, FS_Subset
<1>2. Cardinality(S) \in Nat BY <1>1, FS_CardinalityType
<1>3. order \in Seq(Account) /\ Len(order) = Cardinality(S)
  <2>1. order \in [1..Cardinality(S) -> Account] BY <1>0
  <2> QED BY <1>2, <2>1
<1>4. order \in Injection(1..Cardinality(S), S) BY <1>0 DEF Injection, IsInjective
<1>5. IsFiniteSet(1..Cardinality(S)) /\ Cardinality(1..Cardinality(S)) = Cardinality(S)
  BY <1>2, FS_Interval
<1>6. order \in Surjection(1..Cardinality(S), S) BY <1>1, <1>4, <1>5, FS_Injection
<1>7. S = {order[i] : i \in 1..Cardinality(S)} BY <1>6 DEF Surjection
<1>8. rts \in [1..Cardinality(S) -> RuntimeType]
  BY <1>0 DEF Runtime, RuntimeType, Statuses
<1>9. rts \in Seq(RuntimeType) /\ Len(rts) = Cardinality(S) BY <1>2, <1>8
<1>10. \A i \in 1..Cardinality(S) : rts[i].of = order[i] BY DEF Runtime
<1> QED BY <1>0, <1>2, <1>3, <1>7, <1>9, <1>10 DEF Once, Elements, Parallel

\* The remainder is within bounds.
LEMMA ModRange ==
  ASSUME NEW k \in Nat, NEW n \in Nat, n > 0
  PROVE  k % n \in 0..(n - 1)
OBVIOUS

\* The cooldown loop keeps every runtime, and only makes some available.
LEMMA ExpiredRuntimes ==
  ASSUME runtimes \in Seq(RuntimeType), NEW E
  PROVE  /\ Expired(E) \in Seq(RuntimeType) /\ Len(Expired(E)) = Len(runtimes)
         /\ \A i \in 1..Len(runtimes) :
              /\ Expired(E)[i].of = runtimes[i].of
              /\ Expired(E)[i].status \in {runtimes[i].status, "Available"}
<1>1. \A i \in 1..Len(runtimes) : runtimes[i] \in RuntimeType OBVIOUS
<1>2. ASSUME NEW i \in 1..Len(runtimes)
      PROVE  /\ Expired(E)[i] \in RuntimeType
             /\ Expired(E)[i].of = runtimes[i].of
             /\ Expired(E)[i].status \in {runtimes[i].status, "Available"}
  BY <1>1 DEF Expired, RuntimeType, Statuses
<1>3. Expired(E) \in [1..Len(runtimes) -> RuntimeType] BY <1>2 DEF Expired
<1>4. Len(runtimes) \in Nat OBVIOUS
<1> HIDE DEF Expired
<1> QED BY <1>2, <1>3, <1>4

\* A change of statuses only.
SameOf(new, old) ==
  /\ new \in Seq(RuntimeType) /\ Len(new) = Len(old)
  /\ \A i \in 1..Len(old) : new[i].of = old[i].of

\* Setting one status is a change of statuses only, at that index.
LEMMA StatusSet ==
  ASSUME runtimes \in Seq(RuntimeType), NEW i \in 1..Len(runtimes), NEW st \in Statuses,
         NEW new, new = [runtimes EXCEPT ![i].status = st]
  PROVE  /\ SameOf(new, runtimes)
         /\ \A j \in 1..Len(runtimes) : j # i => new[j] = runtimes[j]
<1>0. \A j \in 1..Len(runtimes) : runtimes[j] \in RuntimeType OBVIOUS
<1>1. PICK x : x = [runtimes[i] EXCEPT !.status = st] OBVIOUS
<1>2. x \in RuntimeType /\ x.of = runtimes[i].of BY <1>0, <1>1 DEF RuntimeType
<1>3. new = [runtimes EXCEPT ![i] = x] BY <1>1
<1>4. new \in Seq(RuntimeType) /\ Len(new) = Len(runtimes) BY <1>2, <1>3, ExceptSeq
<1>5. \A j \in 1..Len(runtimes) : new[j] = IF j = i THEN x ELSE runtimes[j]
  BY <1>2, <1>3, ExceptSeq
<1> QED BY <1>2, <1>4, <1>5 DEF SameOf

------------------------------------------------------------------------------
(* What every task has in hand                                              *)

\* Only who may write the file has a copy of it.
CopyHolders ==
  /\ \A r \in Request : copy[r] # None => req[r].pc = "calling"
  /\ \A m \in Admin : copy[m] # None => adm[m].pc \in {"add_save", "rm_store"}
  /\ copy[Refresher] # None => refresher.pc = "refreshing"

\* The index in hand is the one of the account in hand: during a call or a
\* refresh, and until the mark unless an entry was removed since.
Placed(q, accs) == q.index \in 1..Len(accs) /\ accs[q.index] = q.account
TaskTrue(q, accs) ==
  q.pc \in {"calling", "refreshing"} \/ (q.pc \in {"cool", "disable"} /\ ~q.stale)
    => Placed(q, accs)
InHand == (\A r \in Request : TaskTrue(req[r], accounts)) /\ TaskTrue(refresher, accounts)

Base == Types /\ CopyHolders /\ InHand

\* select_account_index hands out an index of the accounts vector, or none.
LEMMA SelectStep ==
  ASSUME Types, NEW r \in Request, Select(r)
  PROVE  /\ Over(r) /\ \E E : runtimes' = Expired(E)
         /\ next_index' \in Nat
         /\ \E q \in {Idle, Task("select_panicked", None, 0)}
                    \cup {Task("selected", None, i) : i \in 1..Len(accounts)} :
              req' = [req EXCEPT ![r] = q]
         /\ UNCHANGED <<accounts, disk, adm, refresher, crossed, astray, bounds>>
<1> DEFINE n        == Len(accounts)
           place(i) == ((next_index + i) % n) + 1
           stops    == {i \in 0..(n - 1) :
                          \/ place(i) > Len(runtimes)
                          \/ runtimes'[place(i)].status = "Available"}
           first    == CHOOSE i \in stops : \A j \in stops : i <= j
           S        == {Task("selected", None, i) : i \in 1..Len(accounts)}
<1>1. PICK E \in SUBSET Cooling : select_account_index(r, E) BY DEF Select
<1>2. n \in Nat /\ next_index \in Nat BY DEF Types
<1>3. \/ next_index' = next_index /\ req' = [req EXCEPT ![r] = Idle]
      \/ /\ next_index' = next_index
         /\ req' = [req EXCEPT ![r] = Task("select_panicked", None, 0)]
      \/ /\ stops # {} /\ next_index' = place(first) % n
         /\ req' = [req EXCEPT ![r] = Task("selected", None, place(first))]
  BY <1>1 DEF select_account_index
<1>4. ASSUME stops # {}
      PROVE  n > 0 /\ place(first) \in 1..n /\ place(first) % n \in Nat
  <2>1. stops \subseteq Nat /\ \A i \in stops : i \in 0..(n - 1) BY <1>2
  <2>2. \E i \in stops : \A j \in stops : i <= j BY <1>4, <2>1, LeastElement
  <2>3. first \in stops BY <2>2
  <2> HIDE DEF stops, first
  <2>4. first \in Nat /\ n > 0 BY <1>2, <2>1, <2>3
  <2>5. next_index + first \in Nat BY <1>2, <2>4
  <2>6. (next_index + first) % n \in 0..(n - 1) BY <1>2, <2>4, <2>5, ModRange
  <2>7. place(first) \in 1..n BY <1>2, <2>6
  <2>8. place(first) % n \in 0..(n - 1) BY <1>2, <2>4, <2>7, ModRange
  <2> QED BY <2>4, <2>7, <2>8
<1>5. /\ Over(r) /\ runtimes' = Expired(E)
      /\ UNCHANGED <<accounts, disk, adm, refresher, crossed, astray, bounds>>
  BY <1>1 DEF select_account_index
<1>6. stops # {} => Task("selected", None, place(first)) \in S BY <1>4
<1> HIDE DEF stops, first, place, S
<1>7. /\ next_index' \in Nat
      /\ \E q \in {Idle, Task("select_panicked", None, 0)} \cup S :
              req' = [req EXCEPT ![r] = q]
  BY <1>2, <1>3, <1>4, <1>6
<1> QED BY <1>5, <1>7 DEF S

\* A step of a request changes its own task, and of the pool only statuses.
LEMMA RequestStep ==
  ASSUME Base, NEW r \in Request,
         Select(r) \/ Call(r) \/ Returns(r) \/ Mark(r) \/ Hangup(r)
  PROVE  /\ \E q \in ReqSet : req' = [req EXCEPT ![r] = q] /\ TaskTrue(q, accounts)
         /\ SameOf(runtimes', runtimes) /\ next_index' \in Nat
         /\ copy' = [copy EXCEPT ![r] = None]
         /\ UNCHANGED <<accounts, store, adm, refresher, crossed, astray, adds, faults>>
<1>0. /\ Len(accounts) \in Nat /\ Len(runtimes) \in Nat
      /\ \A i \in 1..Len(accounts) : accounts[i] \in Account
      /\ req[r] \in ReqSet /\ TaskTrue(req[r], accounts)
      /\ next_index \in Nat
      /\ r \in Writer /\ copy \in [Writer -> {None} \cup SUBSET Account]
      /\ copy[r] # None => req[r].pc = "calling"
      /\ SameOf(runtimes, runtimes)
  BY DEF Base, Types, InHand, CopyHolders, Writer, SameOf
<1>1. req[r] \in ReqType /\ req[r].index \in Nat BY <1>0 DEF ReqSet, ReqType, Tasks
<1>2. ASSUME NEW q \in {Idle, Task("select_panicked", None, 0), Task("mark_panicked", None, 0)}
      PROVE  q \in ReqSet /\ TaskTrue(q, accounts)
  <2>1. PICK pc \in {"idle", "select_panicked", "mark_panicked"} : q = Task(pc, None, 0)
    BY <1>2 DEF Idle
  <2>2. /\ q = [pc |-> pc, account |-> None, index |-> 0, stale |-> FALSE]
        /\ q.pc = pc
    BY <2>1 DEF Task
  <2>3. q \in ReqType
    <3>1. /\ None \in Account \cup {None} /\ 0 \in Nat /\ FALSE \in BOOLEAN
          /\ pc \in {"idle", "selected", "calling", "cool", "disable",
                     "select_panicked", "mark_panicked"}
      BY <2>1
    <3> QED BY <2>2, <3>1, Zenon DEF ReqType, Tasks
  <2>4. q.pc \notin {"selected", "calling", "cool", "disable", "refreshing"}
    BY <2>1, <2>2
  <2>5. q \in ReqSet BY <2>3, <2>4 DEF ReqSet
  <2> QED BY <2>4, <2>5 DEF TaskTrue
<1>3. copy[r] = None => [copy EXCEPT ![r] = None] = copy BY <1>0
<1>4. CASE Select(r)
  <2>1. /\ Over(r) /\ next_index' \in Nat
        /\ UNCHANGED <<accounts, disk, adm, refresher, crossed, astray, bounds>>
    BY <1>4, SelectStep DEF Base
  <2>2. copy[r] = None BY <1>0, <2>1 DEF Over
  <2>3. SameOf(runtimes', runtimes)
    <3>1. PICK E : runtimes' = Expired(E) BY <1>4, SelectStep DEF Base
    <3>2. runtimes \in Seq(RuntimeType) BY DEF Base, Types
    <3> QED BY <3>1, <3>2, ExpiredRuntimes DEF SameOf
  <2>4. PICK q \in {Idle, Task("select_panicked", None, 0)}
                    \cup {Task("selected", None, i) : i \in 1..Len(accounts)} :
              req' = [req EXCEPT ![r] = q]
    BY <1>4, SelectStep DEF Base
  <2>5. q \in ReqSet /\ TaskTrue(q, accounts)
    <3>1. CASE q \in {Task("selected", None, i) : i \in 1..Len(accounts)}
      <4>1. PICK i \in 1..Len(accounts) : q = Task("selected", None, i) BY <3>1
      <4>2. /\ q = [pc |-> "selected", account |-> None, index |-> i, stale |-> FALSE]
            /\ i \in Nat /\ i >= 1
        BY <1>0, <4>1 DEF Task
      <4>3. q \in ReqType BY <4>2 DEF ReqType, Tasks
      <4> QED BY <4>2, <4>3 DEF ReqSet, TaskTrue
    <3> QED BY <1>2, <2>4, <3>1
  <2> QED BY <1>3, <2>1, <2>2, <2>3, <2>4, <2>5 DEF disk, bounds
<1>5. CASE Call(r)
  <2>1. /\ req[r].pc = "selected"
        /\ UNCHANGED <<pool, disk, adm, refresher, crossed, astray, bounds>>
    BY <1>5 DEF Call
  <2>2. copy[r] = None /\ req[r].index >= 1 BY <1>0, <2>1 DEF ReqSet
  <2>3. CASE req[r].index > Len(accounts)
    <3>1. req' = [req EXCEPT ![r] = Idle] BY <1>5, <2>3 DEF Call
    <3> QED BY <1>0, <1>2, <1>3, <2>1, <2>2, <3>1 DEF pool, disk, bounds
  <2>4. CASE ~ (req[r].index > Len(accounts))
    <3>1. PICK i : i = req[r].index OBVIOUS
    <3>2. i \in 1..Len(accounts) /\ accounts[i] \in Account
      BY <1>0, <1>1, <2>2, <2>4, <3>1
    <3>3. req' = [req EXCEPT ![r] = Task("calling", accounts[i], i)]
      BY <1>5, <2>4, <3>1 DEF Call
    <3>4. Task("calling", accounts[i], i) \in ReqSet
          /\ TaskTrue(Task("calling", accounts[i], i), accounts)
      BY <3>2 DEF Task, ReqSet, ReqType, Tasks, TaskTrue, Placed
    <3> QED BY <1>0, <1>3, <2>1, <2>2, <3>3, <3>4 DEF pool, disk, bounds
  <2> QED BY <2>3, <2>4
<1>6. CASE Returns(r)
  <2>1. PICK pc \in {"idle", "cool", "disable"} : CallReturns(r, pc)
    BY <1>6 DEF Returns
  <2>2. /\ req[r].pc = "calling" /\ copy[r] = None
        /\ UNCHANGED <<pool, disk, adm, refresher, crossed, astray, bounds>>
    BY <2>1 DEF CallReturns
  <2>3. CASE pc = "idle"
    <3>1. req' = [req EXCEPT ![r] = Idle] BY <2>1, <2>3 DEF CallReturns
    <3> QED BY <1>0, <1>2, <1>3, <2>2, <3>1 DEF pool, disk, bounds
  <2>4. CASE pc # "idle"
    <3>1. PICK q : q = Task(pc, req[r].account, req[r].index) OBVIOUS
    <3>2. req' = [req EXCEPT ![r] = q] BY <2>1, <2>4, <3>1 DEF CallReturns
    <3>3. Placed(req[r], accounts) /\ req[r].account \in Account /\ req[r].index >= 1
      BY <1>0, <2>2 DEF TaskTrue, ReqSet
    <3>4. q \in ReqSet BY <1>1, <2>1, <3>1, <3>3 DEF Task, ReqSet, ReqType, Tasks
    <3>5. TaskTrue(q, accounts) BY <3>1, <3>3 DEF Task, TaskTrue, Placed
    <3> QED BY <1>0, <1>3, <2>2, <3>2, <3>4, <3>5 DEF pool, disk, bounds
  <2> QED BY <2>3, <2>4
<1>7. CASE Mark(r)
  <2>1. /\ req[r].pc \in {"cool", "disable"}
        /\ UNCHANGED <<accounts, next_index, disk, adm, refresher, crossed, astray, bounds>>
    BY <1>7 DEF Mark
  <2>2. copy[r] = None /\ req[r].index >= 1 BY <1>0, <2>1 DEF ReqSet
  <2>3. PICK q \in {Idle, Task("mark_panicked", None, 0)} : req' = [req EXCEPT ![r] = q]
    BY <1>7 DEF Mark
  <2>4. SameOf(runtimes', runtimes)
    <3>1. CASE req[r].index > Len(runtimes) BY <1>0, <1>7, <3>1 DEF Mark
    <3>2. CASE ~ (req[r].index > Len(runtimes))
      <4>1. PICK i : i = req[r].index OBVIOUS
      <4>2. i \in 1..Len(runtimes) BY <1>0, <1>1, <2>2, <3>2, <4>1
      <4>3. PICK st \in Statuses : runtimes' = [runtimes EXCEPT ![i].status = st]
        BY <1>7, <3>2, <4>1 DEF Mark, Statuses
      <4>4. runtimes \in Seq(RuntimeType) BY DEF Base, Types
      <4> QED BY <4>2, <4>3, <4>4, StatusSet
    <3> QED BY <3>1, <3>2
  <2> QED BY <1>0, <1>2, <1>3, <2>1, <2>2, <2>3, <2>4 DEF disk, bounds
<1>8. CASE Hangup(r)
  <2>1. /\ req' = [req EXCEPT ![r] = Idle] /\ copy' = [copy EXCEPT ![r] = None]
        /\ UNCHANGED <<pool, store, adm, refresher, crossed, astray, bounds>>
    BY <1>8 DEF Hangup
  <2> QED BY <1>0, <1>2, <2>1 DEF pool, bounds
<1> QED BY <1>4, <1>5, <1>6, <1>7, <1>8

\* A step of the refresh task changes its own state, and of the pool only
\* statuses.
Refreshes == \/ \E a \in Account : RefreshStart(a)
             \/ \E ok \in BOOLEAN : RefreshEnds(ok)
             \/ RefreshFind \/ RefreshDisable

LEMMA RefreshStep ==
  ASSUME Base, Refreshes
  PROVE  /\ refresher' \in RefSet /\ TaskTrue(refresher', accounts)
         /\ copy[Refresher] = None /\ SameOf(runtimes', runtimes)
         /\ UNCHANGED <<accounts, next_index, store, copy, req, adm, crossed, astray,
                        adds, faults>>
<1>0. /\ accounts \in Seq(Account) /\ runtimes \in Seq(RuntimeType)
      /\ Len(accounts) \in Nat /\ Len(runtimes) \in Nat
      /\ refresher \in RefSet /\ SameOf(runtimes, runtimes)
      /\ copy[Refresher] # None => refresher.pc = "refreshing"
  BY DEF Base, Types, CopyHolders, SameOf
<1>1. refresher \in RefresherType /\ refresher.index \in Nat
  BY <1>0 DEF RefSet, RefresherType, Tasks
<1>2. Idle \in RefSet /\ TaskTrue(Idle, accounts)
  BY DEF Idle, Task, RefSet, RefresherType, Tasks, TaskTrue
<1>3. ASSUME NEW a \in InPool, NEW pc \in {"refreshing", "disable"}
      PROVE  /\ Task(pc, a, PositionOf(a)) \in RefSet
             /\ TaskTrue(Task(pc, a, PositionOf(a)), accounts)
  <2>1. PICK i : i = PositionOf(a) OBVIOUS
  <2>2. i \in 1..Len(accounts) /\ accounts[i] = a BY <1>0, <1>3, <2>1, PositionFound
  <2>3. i \in Nat /\ i >= 1 /\ a \in Account BY <1>0, <2>2
  <2>4. Task(pc, a, i) \in RefSet
    <3>1. Task(pc, a, i) = [pc |-> pc, account |-> a, index |-> i, stale |-> FALSE]
      BY DEF Task
    <3>2. Task(pc, a, i) \in RefresherType BY <1>3, <2>3, <3>1 DEF RefresherType, Tasks
    <3> QED BY <2>3, <3>1, <3>2 DEF RefSet
  <2>5. TaskTrue(Task(pc, a, i), accounts) BY <2>2 DEF Task, TaskTrue, Placed
  <2> QED BY <2>1, <2>4, <2>5
<1>4. ASSUME NEW a \in Account, RefreshStart(a)
      PROVE  /\ refresher' \in RefSet /\ TaskTrue(refresher', accounts)
             /\ copy[Refresher] = None /\ SameOf(runtimes', runtimes)
             /\ UNCHANGED <<accounts, next_index, store, copy, req, adm, crossed, astray,
                            adds, faults>>
  <2>1. /\ refresher.pc = "idle" /\ a \in InPool
        /\ refresher' = Task("refreshing", a, PositionOf(a))
        /\ UNCHANGED <<pool, disk, req, adm, crossed, astray, bounds>>
    BY <1>4 DEF RefreshStart
  <2> QED BY <1>0, <1>3, <2>1 DEF pool, disk, bounds
<1>5. ASSUME NEW ok \in BOOLEAN, RefreshEnds(ok)
      PROVE  /\ refresher' \in RefSet /\ TaskTrue(refresher', accounts)
             /\ copy[Refresher] = None /\ SameOf(runtimes', runtimes)
             /\ UNCHANGED <<accounts, next_index, store, copy, req, adm, crossed, astray,
                            adds, faults>>
  <2>1. /\ refresher.pc = "refreshing" /\ copy[Refresher] = None
        /\ \/ refresher' = Idle
           \/ refresher' = Task("failed", refresher.account, 0)
        /\ UNCHANGED <<pool, disk, req, adm, crossed, astray, bounds>>
    BY <1>5 DEF RefreshEnds
  <2>2. refresher.account \in Account BY <1>0, <2>1 DEF RefSet
  <2>3. /\ Task("failed", refresher.account, 0) \in RefSet
        /\ TaskTrue(Task("failed", refresher.account, 0), accounts)
    BY <2>2 DEF Task, RefSet, RefresherType, Tasks, TaskTrue
  <2> QED BY <1>0, <1>2, <2>1, <2>3 DEF pool, disk, bounds
<1>6. CASE RefreshFind
  <2>1. /\ refresher.pc = "failed"
        /\ UNCHANGED <<pool, disk, req, adm, crossed, astray, bounds>>
    BY <1>6 DEF RefreshFind
  <2>2. CASE refresher.account \notin InPool
    <3>1. refresher' = Idle BY <1>6, <2>2 DEF RefreshFind
    <3> QED BY <1>0, <1>2, <2>1, <3>1 DEF pool, disk, bounds
  <2>3. CASE refresher.account \in InPool
    <3>1. refresher' = Task("disable", refresher.account, PositionOf(refresher.account))
      BY <1>6, <2>3 DEF RefreshFind
    <3> QED BY <1>0, <1>3, <2>1, <2>3, <3>1 DEF pool, disk, bounds
  <2> QED BY <2>2, <2>3
<1>7. CASE RefreshDisable
  <2>1. /\ refresher.pc = "disable" /\ refresher' = Idle
        /\ UNCHANGED <<accounts, next_index, disk, req, adm, crossed, astray, bounds>>
    BY <1>7 DEF RefreshDisable
  <2>2. SameOf(runtimes', runtimes)
    <3>1. CASE refresher.index > Len(runtimes) BY <1>0, <1>7, <3>1 DEF RefreshDisable
    <3>2. CASE ~ (refresher.index > Len(runtimes))
      <4>1. PICK i : i = refresher.index OBVIOUS
      <4>2. i \in 1..Len(runtimes) BY <1>0, <1>1, <2>1, <3>2, <4>1 DEF RefSet
      <4>3. runtimes' = [runtimes EXCEPT ![i].status = "Disabled"]
        BY <1>7, <3>2, <4>1 DEF RefreshDisable
      <4>4. "Disabled" \in Statuses BY DEF Statuses
      <4> QED BY <1>0, <4>2, <4>3, <4>4, StatusSet
    <3> QED BY <3>1, <3>2
  <2> QED BY <1>0, <1>2, <2>1, <2>2 DEF disk, bounds
<1> QED BY <1>4, <1>5, <1>6, <1>7 DEF Refreshes

\* The steps of requests and of the refresh task keep what is in hand.
LEMMA TaskBase ==
  ASSUME Base,
         \/ \E r \in Request : Select(r) \/ Call(r) \/ Returns(r) \/ Mark(r) \/ Hangup(r)
         \/ Refreshes
  PROVE  Base'
<1>1. ASSUME NEW r \in Request, Select(r) \/ Call(r) \/ Returns(r) \/ Mark(r) \/ Hangup(r)
      PROVE  Base'
  <2>1. PICK q \in ReqSet : req' = [req EXCEPT ![r] = q] /\ TaskTrue(q, accounts)
    BY <1>1, RequestStep
  <2>2. /\ SameOf(runtimes', runtimes) /\ next_index' \in Nat
        /\ copy' = [copy EXCEPT ![r] = None]
        /\ UNCHANGED <<accounts, store, adm, refresher, crossed, astray, adds, faults>>
    BY <1>1, RequestStep
  <2>3. Types' BY <2>1, <2>2 DEF Base, Types, SameOf
  <2>4. CopyHolders'
    BY <2>1, <2>2, PoolAssumption DEF Base, Types, CopyHolders, Writer
  <2>5. InHand' BY <2>1, <2>2 DEF Base, Types, InHand
  <2> QED BY <2>3, <2>4, <2>5 DEF Base
<1>2. CASE Refreshes
  <2>1. /\ refresher' \in RefSet /\ TaskTrue(refresher', accounts)
        /\ copy[Refresher] = None /\ SameOf(runtimes', runtimes)
        /\ UNCHANGED <<accounts, next_index, store, copy, req, adm, crossed, astray,
                       adds, faults>>
    BY <1>2, RefreshStep
  <2>2. Types' BY <2>1 DEF Base, Types, SameOf
  <2>3. CopyHolders' BY <2>1 DEF Base, CopyHolders
  <2>4. InHand' BY <2>1 DEF Base, InHand
  <2> QED BY <2>2, <2>3, <2>4 DEF Base
<1> QED BY <1>1, <1>2

\* Who writes the file has an account.
LEMMA WriterHasAccount ==
  ASSUME Types, CopyHolders, NEW w \in Writer, MayWriteFile(w) \/ copy[w] # None
  PROVE  AccountOf(w) \in Account
<1>1. CASE w \in Request
  <2>1. req[w] \in ReqSet /\ req[w].pc = "calling"
    BY <1>1, PoolAssumption DEF Types, CopyHolders, MayWriteFile
  <2> QED BY <1>1, <2>1 DEF ReqSet, AccountOf
<1>2. CASE w \in Admin /\ w \notin Request
  <2>1. adm[w] \in AdmSet /\ adm[w].pc \in {"add_save", "rm_store"}
    BY <1>2, PoolAssumption DEF Types, CopyHolders, MayWriteFile
  <2> QED BY <1>2, <2>1 DEF AdmSet, AdmType, AccountOf
<1>3. CASE w \notin Request /\ w \notin Admin
  <2>1. refresher \in RefSet /\ refresher.pc = "refreshing"
    BY <1>3 DEF Types, CopyHolders, MayWriteFile, Writer
  <2> QED BY <1>3, <2>1 DEF RefSet, AccountOf
<1> QED BY <1>1, <1>2, <1>3

LEMMA FileBase ==
  ASSUME Base, NEW w \in Writer, FileStep(w)
  PROVE  Base'
<1>0. /\ store \subseteq Account /\ astray \subseteq Account
      /\ copy \in [Writer -> {None} \cup SUBSET Account]
      /\ adm \in [Admin -> AdmSet]
  BY DEF Base, Types
<1>1. AccountOf(w) \in Account
  BY WriterHasAccount DEF Base, FileStep, ReadFile, WriteFile
<1>2. Edited(w, store) \subseteq Account BY <1>0, <1>1 DEF Edited
<1>3. CASE ReadFile(w)
  <2>1. /\ MayWriteFile(w) /\ copy' = [copy EXCEPT ![w] = Edited(w, store)]
        /\ UNCHANGED <<pool, store, req, adm, refresher, crossed, astray, bounds>>
    BY <1>3 DEF ReadFile
  <2>2. Types' BY <1>2, <2>1 DEF Base, Types, pool, bounds
  <2>3. CopyHolders'
    BY <1>0, <2>1, PoolAssumption DEF Base, CopyHolders, MayWriteFile, Writer
  <2>4. InHand' BY <2>1 DEF Base, InHand, pool
  <2> QED BY <2>2, <2>3, <2>4 DEF Base
<1>4. CASE WriteFile(w)
  <2>1. /\ copy[w] # None /\ store' = copy[w] /\ copy' = [copy EXCEPT ![w] = None]
        /\ astray' = astray \cup (Edited(w, store) \ copy[w]) \cup (copy[w] \ Edited(w, store))
        /\ UNCHANGED <<pool, req, refresher, crossed, bounds>>
    BY <1>4 DEF WriteFile
  <2>2. store' \subseteq Account /\ astray' \subseteq Account BY <1>0, <1>2, <2>1
  <2>3. PICK q : /\ q \in AdmSet \/ w \notin Admin
                 /\ adm' = IF w \in Admin THEN [adm EXCEPT ![w] = q] ELSE adm
    <3>1. CASE w \notin Admin BY <1>4, <3>1 DEF WriteFile
    <3>2. CASE w \in Admin /\ adm[w].pc = "add_save"
      <4>1. adm' = [adm EXCEPT ![w] = Step("add_saved", adm[w].account, 0)]
        BY <1>4, <3>2 DEF WriteFile
      <4>2. Step("add_saved", adm[w].account, 0) \in AdmSet
        BY <1>0, <3>2 DEF Step, AdmSet, AdmType
      <4> QED BY <3>2, <4>1, <4>2
    <3>3. CASE w \in Admin /\ adm[w].pc # "add_save"
      <4>1. adm' = [adm EXCEPT ![w] = IdleAdmin] BY <1>4, <3>3 DEF WriteFile
      <4>2. IdleAdmin \in AdmSet BY DEF IdleAdmin, Step, AdmSet, AdmType
      <4> QED BY <3>3, <4>1, <4>2
    <3> QED BY <3>1, <3>2, <3>3
  <2>4. adm' \in [Admin -> AdmSet] BY <1>0, <2>3
  <2>5. copy' \in [Writer -> {None} \cup SUBSET Account] BY <1>0, <2>1
  <2>6. Types' BY <2>1, <2>2, <2>4, <2>5 DEF Base, Types, pool, bounds
  <2>7. CopyHolders'
    BY <1>0, <2>1, <2>3, PoolAssumption DEF Base, CopyHolders, Writer
  <2>8. InHand' BY <2>1 DEF Base, InHand, pool
  <2> QED BY <2>6, <2>7, <2>8 DEF Base
<1> QED BY <1>3, <1>4 DEF FileStep

\* A change of the place in the code, as a new task.
LEMMA PcChange ==
  ASSUME adm \in [Admin -> AdmSet], NEW m \in Admin, NEW pc,
         adm' = [adm EXCEPT ![m].pc = pc]
  PROVE  adm' = [adm EXCEPT ![m] = Step(pc, adm[m].account, adm[m].index)]
<1>1. PICK q : q = adm[m] OBVIOUS
<1>2. q \in AdmType BY <1>1 DEF AdmSet
<1>3. [q EXCEPT !.pc = pc] = Step(pc, q.account, q.index) BY <1>2 DEF AdmType, Step
<1> QED BY <1>1, <1>3

\* An admin request that moves on keeps its account.
LEMMA MovedOn ==
  ASSUME adm \in [Admin -> AdmSet], NEW m \in Admin, ~Ended(m),
         NEW pc \in {"add_saved", "add_wait", "add_runtime", "rm_wait", "rm_runtime",
                     "rm_store"},
         pc \in {"rm_wait", "rm_runtime"} => adm[m].pc \in {"rm_found", "rm_wait"}
  PROVE  Step(pc, adm[m].account, adm[m].index) \in AdmSet
<1>1. PICK q : q = Step(pc, adm[m].account, adm[m].index) OBVIOUS
<1>2. /\ q = [pc |-> pc, account |-> adm[m].account, index |-> adm[m].index]
      /\ adm[m] \in AdmSet /\ adm[m] \in AdmType
  BY <1>1 DEF Step, AdmSet
<1>3. q \in AdmType BY <1>2 DEF AdmType
<1>4. adm[m].account # None BY <1>2 DEF AdmSet, Ended
<1>5. q.pc \in {"rm_found", "rm_wait", "rm_runtime"} => q.index >= 1
  BY <1>2 DEF AdmSet
<1>6. q \in AdmSet BY <1>2, <1>3, <1>4, <1>5 DEF AdmSet
<1> QED BY <1>1, <1>6

\* What an admin request's step has to show for Base.
LEMMA AdminBase ==
  ASSUME Base, NEW m \in Admin, NEW q \in AdmSet,
         adm' = [adm EXCEPT ![m] = q], copy' = [copy EXCEPT ![m] = None],
         accounts' \in Seq(Account), runtimes' \in Seq(RuntimeType),
         next_index' \in Nat, store' = store,
         crossed' \in BOOLEAN, astray' \subseteq Account,
         adds' \in 0..MaxAdds, faults' \in 0..MaxFaults,
         req' \in [Request -> ReqSet], refresher' \in RefSet,
         \A r \in Request : req'[r].pc = req[r].pc, refresher'.pc = refresher.pc,
         InHand'
  PROVE  Base'
<1>1. Types' BY DEF Base, Types
<1>2. CopyHolders' BY PoolAssumption DEF Base, Types, CopyHolders, Writer
<1> QED BY <1>1, <1>2 DEF Base

\* A step that leaves the accounts and the tasks alone keeps what is in hand.
LEMMA SameHands ==
  ASSUME InHand, UNCHANGED <<accounts, req, refresher>>
  PROVE  InHand'
BY DEF InHand

Administers(m) == \/ Administered(m) \/ Abandon(m)
                  \/ \E a \in Account : AddStart(m, a) \/ RemoveFind(m, a)

LEMMA AdminKeepsBase ==
  ASSUME Base, NEW m \in Admin, Administers(m)
  PROVE  Base'
<1>0. /\ accounts \in Seq(Account) /\ runtimes \in Seq(RuntimeType)
      /\ Len(accounts) \in Nat /\ Len(runtimes) \in Nat
      /\ next_index \in Nat /\ store \subseteq Account
      /\ copy \in [Writer -> {None} \cup SUBSET Account]
      /\ req \in [Request -> ReqSet] /\ adm \in [Admin -> AdmSet]
      /\ refresher \in RefSet /\ crossed \in BOOLEAN /\ astray \subseteq Account
      /\ adds \in 0..MaxAdds /\ faults \in 0..MaxFaults
      /\ adm[m] \in AdmSet /\ adm[m] \in AdmType /\ adm[m].index \in Nat
      /\ ~Ended(m) => adm[m].account \in Account
      /\ m \in Writer /\ InHand
  BY DEF Base, Types, AdmSet, AdmType, Writer, Ended
<1>1. copy[m] # None => adm[m].pc \in {"add_save", "rm_store"}
  BY DEF Base, CopyHolders
<1>2. copy[m] = None => copy = [copy EXCEPT ![m] = None] BY <1>0
<1>3. IdleAdmin \in AdmSet BY DEF IdleAdmin, Step, AdmSet, AdmType
<1>4. ASSUME NEW a \in Account, AddStart(m, a) PROVE Base'
  <2>1. /\ Ended(m) /\ adm' = [adm EXCEPT ![m] = Step("add_save", a, 0)]
        /\ adds < MaxAdds /\ adds' = adds + 1
        /\ UNCHANGED <<pool, disk, req, refresher, crossed, faults>>
    BY <1>4 DEF AddStart
  <2>2. copy[m] = None BY <1>1, <2>1 DEF Ended
  <2>3. Step("add_save", a, 0) \in AdmSet BY PoolAssumption DEF Step, AdmSet, AdmType
  <2>4. adds' \in 0..MaxAdds BY <1>0, <2>1, PoolAssumption
  <2>5. astray' \subseteq Account BY <1>0, <1>4 DEF AddStart
  <2>6. UNCHANGED <<accounts, runtimes, next_index, store, copy>> BY <2>1 DEF pool, disk
  <2>7. InHand' BY <1>0, <2>1, <2>6, SameHands
  <2> QED BY <1>0, <1>2, <2>1, <2>2, <2>3, <2>4, <2>5, <2>6, <2>7, AdminBase
<1>5. CASE Abandon(m)
  <2>1. /\ ~Ended(m) /\ faults < MaxFaults /\ faults' = faults + 1
        /\ adm' = [adm EXCEPT ![m] = IdleAdmin] /\ copy' = [copy EXCEPT ![m] = None]
        /\ UNCHANGED <<pool, store, req, refresher, adds>>
    BY <1>5 DEF Abandon
  <2>2. faults' \in 0..MaxFaults BY <1>0, <2>1, PoolAssumption
  <2>3. astray' \subseteq Account BY <1>0, <1>5, <2>1 DEF Abandon
  <2>4. crossed' \in BOOLEAN BY <1>5 DEF Abandon
  <2>5. UNCHANGED <<accounts, runtimes, next_index>> BY <2>1 DEF pool
  <2>6. InHand' BY <1>0, <2>1, <2>5, SameHands
  <2> QED BY <1>0, <1>3, <2>1, <2>2, <2>3, <2>4, <2>5, <2>6, AdminBase
<1>6. CASE QueueWrite(m)
  <2>1. PICK pc \in {"add_wait", "rm_wait"} :
          /\ adm' = [adm EXCEPT ![m].pc = pc] /\ adm[m].pc \in {"add_saved", "rm_found"}
          /\ pc = "rm_wait" => adm[m].pc = "rm_found"
    BY <1>0, <1>6 DEF QueueWrite
  <2>2. UNCHANGED <<pool, disk, req, refresher, crossed, astray, bounds>>
    BY <1>6 DEF QueueWrite
  <2>3. copy[m] = None /\ ~Ended(m) BY <1>1, <2>1 DEF Ended
  <2>4. PICK q \in AdmSet : adm' = [adm EXCEPT ![m] = q]
    BY <1>0, <2>1, <2>3, PcChange, MovedOn
  <2>5. UNCHANGED <<accounts, runtimes, next_index, store, copy, adds, faults>>
    BY <2>2 DEF pool, disk, bounds
  <2>6. InHand' BY <1>0, <2>2, <2>5, SameHands
  <2> QED BY <1>0, <1>2, <2>2, <2>3, <2>4, <2>5, <2>6, AdminBase
<1>7. CASE AddEntry(m)
  <2>1. /\ adm[m].pc = "add_wait" /\ CanWrite
        /\ accounts' = Append(accounts, adm[m].account)
        /\ adm' = [adm EXCEPT ![m].pc = "add_runtime"]
        /\ UNCHANGED <<runtimes, next_index, disk, req, refresher, astray, bounds>>
    BY <1>7 DEF AddEntry
  <2>2. copy[m] = None /\ ~Ended(m) BY <1>1, <2>1 DEF Ended
  <2>3. PICK q \in AdmSet : adm' = [adm EXCEPT ![m] = q]
    BY <1>0, <2>1, <2>2, PcChange, MovedOn
  <2>4. UNCHANGED <<store, copy, adds, faults>> BY <2>1 DEF disk, bounds
  <2>5. crossed' \in BOOLEAN BY <1>7 DEF AddEntry
  <2>6. /\ accounts' \in Seq(Account) /\ Len(accounts') = Len(accounts) + 1
        /\ \A i \in 1..Len(accounts) : accounts'[i] = accounts[i]
    BY <1>0, <2>1, <2>2, AppendProperties
  <2>7. InHand'
    <3>1. ASSUME NEW t, TaskTrue(t, accounts) PROVE TaskTrue(t, accounts')
      BY <1>0, <2>6, <3>1 DEF TaskTrue, Placed
    <3> QED BY <1>0, <2>1, <3>1 DEF InHand
  <2> QED BY <1>0, <1>2, <2>1, <2>2, <2>3, <2>4, <2>5, <2>6, <2>7, AdminBase
<1>8. CASE AddRuntime(m)
  <2>1. /\ adm[m].pc = "add_runtime" /\ adm' = [adm EXCEPT ![m] = IdleAdmin]
        /\ runtimes' = Append(runtimes, Runtime(adm[m].account))
        /\ UNCHANGED <<accounts, next_index, disk, req, refresher, crossed, astray, bounds>>
    BY <1>8 DEF AddRuntime
  <2>2. copy[m] = None /\ ~Ended(m) BY <1>1, <2>1 DEF Ended
  <2>3. Runtime(adm[m].account) \in RuntimeType
    BY <1>0, <2>2 DEF Runtime, RuntimeType, Statuses
  <2>4. runtimes' \in Seq(RuntimeType) BY <1>0, <2>1, <2>3, AppendProperties
  <2>5. UNCHANGED <<store, copy, adds, faults>> BY <2>1 DEF disk, bounds
  <2>6. InHand' BY <1>0, <2>1, SameHands
  <2> QED BY <1>0, <1>2, <1>3, <2>1, <2>2, <2>4, <2>5, <2>6, AdminBase
<1>9. ASSUME NEW a \in Account, RemoveFind(m, a) PROVE Base'
  <2>1. /\ Ended(m) /\ a \in InPool
        /\ adm' = [adm EXCEPT ![m] = Step("rm_found", a, PositionOf(a))]
        /\ UNCHANGED <<pool, disk, req, refresher, astray, bounds>>
    BY <1>9 DEF RemoveFind
  <2>2. copy[m] = None BY <1>1, <2>1 DEF Ended
  <2>3. PICK i : i = PositionOf(a) OBVIOUS
  <2>4. i \in Nat /\ i >= 1 BY <1>0, <2>1, <2>3, PositionFound
  <2>5. Step("rm_found", a, i) \in AdmSet BY <2>4, PoolAssumption DEF Step, AdmSet, AdmType
  <2>6. UNCHANGED <<accounts, runtimes, next_index, store, copy, adds, faults>>
    BY <2>1 DEF pool, disk, bounds
  <2>7. crossed' \in BOOLEAN BY <1>9 DEF RemoveFind
  <2>8. InHand' BY <1>0, <2>1, <2>6, SameHands
  <2> QED BY <1>0, <1>2, <2>1, <2>2, <2>3, <2>5, <2>6, <2>7, <2>8, AdminBase
<1>10. CASE RemoveEntry(m)
  <2>1. /\ adm[m].pc = "rm_wait" /\ CanWrite
        /\ UNCHANGED <<runtimes, next_index, disk, crossed, astray, bounds>>
    BY <1>10 DEF RemoveEntry
  <2>2. copy[m] = None /\ ~Ended(m) BY <1>1, <2>1 DEF Ended
  <2>3. UNCHANGED <<store, copy, adds, faults>> BY <2>1 DEF disk, bounds
  <2>4. CASE adm[m].index > Len(accounts)
    <3>1. /\ adm' = [adm EXCEPT ![m] = Step("panicked", None, 0)]
          /\ UNCHANGED <<accounts, req, refresher>>
      BY <1>10, <2>4 DEF RemoveEntry
    <3>2. Step("panicked", None, 0) \in AdmSet BY DEF Step, AdmSet, AdmType
    <3>3. InHand' BY <1>0, <3>1, SameHands
    <3> QED BY <1>0, <1>2, <2>1, <2>2, <2>3, <3>1, <3>2, <3>3, AdminBase
  <2>5. CASE ~ (adm[m].index > Len(accounts))
    <3>1. /\ accounts' = RemoveAt(accounts, adm[m].index)
          /\ adm' = [adm EXCEPT ![m].pc = "rm_runtime"]
          /\ req' = [r \in Request |-> Outdated(req[r])]
          /\ refresher' = Outdated(refresher)
      BY <1>10, <2>5 DEF RemoveEntry
    <3>2. adm[m].index \in 1..Len(accounts) BY <1>0, <2>1, <2>5 DEF AdmSet
    <3>3. accounts' \in Seq(Account) BY <1>0, <3>1, <3>2, RemoveAtProperties
    <3>4. PICK q \in AdmSet : adm' = [adm EXCEPT ![m] = q]
      BY <1>0, <2>1, <2>2, <3>1, PcChange, MovedOn
    <3>5. ASSUME NEW t, t \in ReqSet \/ t \in RefSet,
                 t.pc \notin {"calling", "refreshing"}
          PROVE  /\ Outdated(t).pc = t.pc /\ TaskTrue(Outdated(t), accounts')
                 /\ t \in ReqSet => Outdated(t) \in ReqSet
                 /\ t \in RefSet => Outdated(t) \in RefSet
      <4>1. PICK u : u = Outdated(t) OBVIOUS
      <4>2. /\ t.stale \in BOOLEAN
            /\ t = [pc |-> t.pc, account |-> t.account, index |-> t.index, stale |-> t.stale]
        BY <3>5 DEF ReqSet, RefSet, ReqType, RefresherType, Tasks
      <4>3. PICK b \in BOOLEAN : b = (t.stale \/ t.pc \in {"cool", "disable"})
        BY <4>2
      <4>4. u = [pc |-> t.pc, account |-> t.account, index |-> t.index, stale |-> b]
        BY <4>1, <4>2, <4>3 DEF Outdated
      <4>5. TaskTrue(u, accounts') BY <3>5, <4>3, <4>4 DEF TaskTrue
      <4>6. ASSUME t \in ReqSet PROVE u \in ReqSet
        BY <4>3, <4>4, <4>6 DEF ReqSet, ReqType, Tasks
      <4>7. ASSUME t \in RefSet PROVE u \in RefSet
        BY <4>3, <4>4, <4>7 DEF RefSet, RefresherType, Tasks
      <4> QED BY <4>1, <4>4, <4>5, <4>6, <4>7
    <3>6. /\ \A r \in Request : req[r] \in ReqSet /\ req[r].pc \notin {"calling", "refreshing"}
          /\ refresher.pc \notin {"calling", "refreshing"}
      BY <1>0, <2>1 DEF CanWrite, Reading, ReqSet, ReqType, RefSet, RefresherType, Tasks
    <3>7. /\ req' \in [Request -> ReqSet] /\ refresher' \in RefSet
          /\ \A r \in Request : req'[r].pc = req[r].pc
          /\ refresher'.pc = refresher.pc
      BY <1>0, <3>1, <3>5, <3>6
    <3>8. InHand' BY <1>0, <3>1, <3>5, <3>6 DEF InHand
    <3> QED BY <1>0, <1>2, <2>1, <2>2, <2>3, <3>3, <3>4, <3>7, <3>8, AdminBase
  <2> QED BY <2>4, <2>5
<1>11. CASE RemoveRuntime(m)
  <2>1. /\ adm[m].pc = "rm_runtime" /\ adm' = [adm EXCEPT ![m].pc = "rm_store"]
        /\ next_index' \in {0, next_index}
        /\ UNCHANGED <<accounts, disk, req, refresher, crossed, astray, bounds>>
    BY <1>11 DEF RemoveRuntime
  <2>2. copy[m] = None /\ ~Ended(m) BY <1>1, <2>1 DEF Ended
  <2>3. runtimes' \in Seq(RuntimeType)
    <3>1. adm[m].index \in Nat /\ adm[m].index >= 1 BY <1>0, <2>1 DEF AdmSet
    <3>2. CASE adm[m].index <= Len(runtimes)
      <4>1. runtimes' = RemoveAt(runtimes, adm[m].index) BY <1>11, <3>2 DEF RemoveRuntime
      <4>2. adm[m].index \in 1..Len(runtimes) BY <1>0, <3>1, <3>2
      <4> QED BY <1>0, <4>1, <4>2, RemoveAtProperties
    <3>3. CASE ~ (adm[m].index <= Len(runtimes)) BY <1>0, <1>11, <3>3 DEF RemoveRuntime
    <3> QED BY <3>2, <3>3
  <2>4. PICK q \in AdmSet : adm' = [adm EXCEPT ![m] = q]
    BY <1>0, <2>1, <2>2, PcChange, MovedOn
  <2>5. UNCHANGED <<store, copy, adds, faults>> BY <2>1 DEF disk, bounds
  <2>6. InHand' BY <1>0, <2>1, SameHands
  <2>7. next_index' \in Nat BY <1>0, <2>1
  <2> QED BY <1>0, <1>2, <2>1, <2>2, <2>3, <2>4, <2>5, <2>6, <2>7, AdminBase
<1> QED BY <1>4, <1>5, <1>6, <1>7, <1>8, <1>9, <1>10, <1>11 DEF Administers, Administered

\* A pool just loaded.
LEMMA FreshBase ==
  ASSUME Init \/ (Base /\ Restart)
  PROVE  /\ Init => Base
         /\ Base /\ Restart => Base'
<1>0. /\ Idle \in ReqSet /\ Idle \in RefSet /\ IdleAdmin \in AdmSet
      /\ \A s : TaskTrue(Idle, s)
  BY DEF Idle, IdleAdmin, Step, Task, ReqSet, RefSet, AdmSet, ReqType, RefresherType,
         AdmType, Tasks, TaskTrue
<1>1. ASSUME Init PROVE Base
  <2>1. accounts \in Seq(Account) /\ runtimes \in Seq(RuntimeType)
    BY <1>1, PoolAssumption, LoadedPool DEF Init
  <2>2. /\ next_index = 0 /\ store = Stored /\ copy = [w \in Writer |-> None]
        /\ req = [r \in Request |-> Idle] /\ adm = [m \in Admin |-> IdleAdmin]
        /\ refresher = Idle /\ crossed = FALSE /\ astray = {} /\ adds = 0 /\ faults = 0
    BY <1>1 DEF Init
  <2>3. Types
    <3>1. adds \in 0..MaxAdds /\ faults \in 0..MaxFaults BY <2>2, PoolAssumption
    <3>2. store \subseteq Account BY <2>2, PoolAssumption
    <3> QED BY <1>0, <2>1, <2>2, <3>1, <3>2 DEF Types
  <2>4. CopyHolders BY <2>2 DEF CopyHolders, Writer
  <2>5. InHand BY <1>0, <2>2 DEF InHand
  <2> QED BY <2>3, <2>4, <2>5 DEF Base
<1>2. ASSUME Base, Restart PROVE Base'
  <2>1. PICK S \in SUBSET store :
          /\ accounts' \in Orders(S)
          /\ runtimes' = [i \in 1..Cardinality(S) |-> Runtime(accounts'[i])]
          /\ astray' = store \ S
    BY <1>2 DEF Restart
  <2>2. S \subseteq Account /\ store \subseteq Account BY <1>2 DEF Base, Types
  <2>3. accounts' \in Seq(Account) /\ runtimes' \in Seq(RuntimeType)
    BY <2>1, <2>2, LoadedPool
  <2>4. /\ next_index' = 0 /\ store' = store /\ copy' = [w \in Writer |-> None]
        /\ req' = [r \in Request |-> Idle] /\ adm' = [m \in Admin |-> IdleAdmin]
        /\ refresher' = Idle /\ crossed' = FALSE
        /\ faults < MaxFaults /\ faults' = faults + 1 /\ adds' = adds
    BY <1>2 DEF Restart
  <2>5. faults' \in 0..MaxFaults /\ adds' \in 0..MaxAdds
    BY <1>2, <2>4, PoolAssumption DEF Base, Types
  <2>6. Types' BY <1>0, <2>1, <2>2, <2>3, <2>4, <2>5 DEF Types
  <2>7. CopyHolders' BY <2>4 DEF CopyHolders, Writer
  <2>8. InHand' BY <1>0, <2>4 DEF InHand
  <2> QED BY <2>6, <2>7, <2>8 DEF Base
<1> QED BY <1>1, <1>2

LEMMA BaseStep == Base /\ [Next]_vars => Base'
<1> SUFFICES ASSUME Base, [Next]_vars PROVE Base' OBVIOUS
<1>1. CASE UNCHANGED vars
  BY <1>1 DEF Base, Types, CopyHolders, InHand, vars, pool, disk, bounds
<1>2. CASE \/ \E r \in Request : Select(r) \/ Call(r) \/ Returns(r) \/ Mark(r) \/ Hangup(r)
           \/ Refreshes
  BY <1>2, TaskBase
<1>3. CASE \E m \in Admin : Administers(m) BY <1>3, AdminKeepsBase
<1>4. CASE \E w \in Writer : FileStep(w) BY <1>4, FileBase
<1>5. CASE Restart BY <1>5, FreshBase
<1> QED BY <1>1, <1>2, <1>3, <1>4, <1>5 DEF Next, Refreshes, Administers

LEMMA BaseInvariant == Spec => []Base
<1>1. Init => Base BY FreshBase
<1> QED BY <1>1, BaseStep, PTL DEF Spec

\* The pool's vectors, tasks and bookkeeping stay well typed however admin
\* requests overlap: no index of pool.rs is 0 and none is without its account.
THEOREM TypeCorrect == Spec => []TypeOK
<1>1. Base => TypeOK BY TypesSuffice DEF Base
<1> QED BY <1>1, BaseInvariant, PTL

\* While complete, complete_streaming or the refresh task uses an account, it
\* is in the pool at the index in hand, for any number of overlapping admin
\* requests: the writers wait for the read guards.
THEOREM CalledAccountsStay == Spec => []CallsUseMembers
<1>1. Base => CallsUseMembers
  BY DEF Base, InHand, TaskTrue, Placed, CallsUseMembers
<1> QED BY <1>1, BaseInvariant, PTL

------------------------------------------------------------------------------
(* The two vectors                                                          *)

\* What one admin request in the middle of its steps means for the vectors:
\* a push or a removal that the runtimes have yet to follow, or a position
\* that is still right.
Half(q) ==
  /\ q.pc = "add_runtime" => Parallel(Append(runtimes, Runtime(q.account)), accounts)
  /\ q.pc \in {"rm_found", "rm_wait"} => Placed(q, accounts)
  /\ q.pc = "rm_runtime" => /\ q.index \in 1..Len(runtimes)
                            /\ Parallel(RemoveAt(runtimes, q.index), accounts)

\* As long as no two of them cross, the vectors are parallel but for the one
\* that is in the middle.
Aligned ==
  ~crossed => /\ \A m, n \in Admin : Midway(m) /\ Midway(n) => m = n
              /\ \A m \in Admin : Half(adm[m])
              /\ \/ Parallel(runtimes, accounts)
                 \/ \E m \in Admin : adm[m].pc \in {"add_runtime", "rm_runtime"}

\* A change of statuses keeps the vectors parallel, also those to come.
LEMMA SameParallel ==
  ASSUME NEW old \in Seq(RuntimeType), NEW new, SameOf(new, old), NEW accs \in Seq(Account)
  PROVE  /\ Parallel(old, accs) => Parallel(new, accs)
         /\ \A x \in RuntimeType : Parallel(Append(old, x), accs) => Parallel(Append(new, x), accs)
         /\ \A i \in 1..Len(old) : Parallel(RemoveAt(old, i), accs)
                                   => Parallel(RemoveAt(new, i), accs)
<1>0. /\ new \in Seq(RuntimeType) /\ Len(new) = Len(old) /\ Len(old) \in Nat
      /\ Len(accs) \in Nat
      /\ \A i \in 1..Len(old) : new[i].of = old[i].of
  BY DEF SameOf
<1>1. Parallel(old, accs) => Parallel(new, accs) BY <1>0 DEF Parallel
<1>2. ASSUME NEW x \in RuntimeType, Parallel(Append(old, x), accs)
      PROVE  Parallel(Append(new, x), accs)
  <2>1. /\ Len(Append(old, x)) = Len(old) + 1 /\ Len(Append(new, x)) = Len(old) + 1
        /\ \A i \in 1..(Len(old) + 1) :
             /\ Append(old, x)[i] = IF i = Len(old) + 1 THEN x ELSE old[i]
             /\ Append(new, x)[i] = IF i = Len(old) + 1 THEN x ELSE new[i]
    BY <1>0, AppendProperties
  <2>2. \A i \in 1..(Len(old) + 1) : Append(new, x)[i].of = Append(old, x)[i].of
    BY <1>0, <2>1
  <2> QED BY <1>2, <2>1, <2>2 DEF Parallel
<1>3. ASSUME NEW i \in 1..Len(old), Parallel(RemoveAt(old, i), accs)
      PROVE  Parallel(RemoveAt(new, i), accs)
  <2>1. /\ Len(RemoveAt(old, i)) = Len(old) - 1 /\ Len(RemoveAt(new, i)) = Len(old) - 1
        /\ \A j \in 1..(Len(old) - 1) :
             /\ RemoveAt(old, i)[j] = IF j < i THEN old[j] ELSE old[j + 1]
             /\ RemoveAt(new, i)[j] = IF j < i THEN new[j] ELSE new[j + 1]
    BY <1>0, RemoveAtProperties
  <2>2. ASSUME NEW j \in 1..(Len(old) - 1)
        PROVE  RemoveAt(new, i)[j].of = RemoveAt(old, i)[j].of
    <3>1. j \in 1..Len(old) /\ j + 1 \in 1..Len(old) BY <1>0
    <3>2. new[j].of = old[j].of /\ new[j + 1].of = old[j + 1].of BY <1>0, <3>1
    <3>3. CASE j < i
      <4>1. RemoveAt(old, i)[j] = old[j] /\ RemoveAt(new, i)[j] = new[j] BY <2>1, <3>3
      <4> QED BY <3>2, <4>1
    <3>4. CASE ~ (j < i)
      <4>1. RemoveAt(old, i)[j] = old[j + 1] /\ RemoveAt(new, i)[j] = new[j + 1]
        BY <2>1, <3>4
      <4> QED BY <3>2, <4>1
    <3> QED BY <3>3, <3>4
  <2> QED BY <1>3, <2>1, <2>2 DEF Parallel
<1> QED BY <1>1, <1>2, <1>3

\* An entry and its runtime are pushed, or removed at one index.
LEMMA BothChange ==
  ASSUME runtimes \in Seq(RuntimeType), accounts \in Seq(Account),
         Parallel(runtimes, accounts)
  PROVE  /\ \A a \in Account :
              Parallel(Append(runtimes, Runtime(a)), Append(accounts, a))
         /\ \A i \in 1..Len(accounts) :
              /\ i \in 1..Len(runtimes)
              /\ Parallel(RemoveAt(runtimes, i), RemoveAt(accounts, i))
<1>0. /\ Len(runtimes) = Len(accounts) /\ Len(accounts) \in Nat
      /\ \A i \in 1..Len(accounts) : runtimes[i].of = accounts[i]
  BY DEF Parallel
<1>1. ASSUME NEW a \in Account
      PROVE  Parallel(Append(runtimes, Runtime(a)), Append(accounts, a))
  <2>1. Runtime(a) \in RuntimeType /\ Runtime(a).of = a
    BY DEF Runtime, RuntimeType, Statuses
  <2>2. PICK x : x = Runtime(a) OBVIOUS
  <2>3. /\ Len(Append(runtimes, x)) = Len(accounts) + 1
        /\ Len(Append(accounts, a)) = Len(accounts) + 1
        /\ \A i \in 1..(Len(accounts) + 1) :
             /\ Append(runtimes, x)[i] = IF i = Len(accounts) + 1 THEN x ELSE runtimes[i]
             /\ Append(accounts, a)[i] = IF i = Len(accounts) + 1 THEN a ELSE accounts[i]
    BY <1>0, <2>1, <2>2, AppendProperties
  <2>4. \A i \in 1..(Len(accounts) + 1) : Append(runtimes, x)[i].of = Append(accounts, a)[i]
    BY <1>0, <2>1, <2>2, <2>3
  <2> QED BY <2>2, <2>3, <2>4 DEF Parallel
<1>2. ASSUME NEW i \in 1..Len(accounts)
      PROVE  /\ i \in 1..Len(runtimes)
             /\ Parallel(RemoveAt(runtimes, i), RemoveAt(accounts, i))
  <2>1. /\ Len(RemoveAt(runtimes, i)) = Len(accounts) - 1
        /\ Len(RemoveAt(accounts, i)) = Len(accounts) - 1
        /\ \A j \in 1..(Len(accounts) - 1) :
             /\ RemoveAt(runtimes, i)[j] = IF j < i THEN runtimes[j] ELSE runtimes[j + 1]
             /\ RemoveAt(accounts, i)[j] = IF j < i THEN accounts[j] ELSE accounts[j + 1]
    BY <1>0, RemoveAtProperties
  <2>2. \A j \in 1..(Len(accounts) - 1) : RemoveAt(runtimes, i)[j].of = RemoveAt(accounts, i)[j]
    BY <1>0, <2>1
  <2> QED BY <1>0, <2>1, <2>2 DEF Parallel
<1> QED BY <1>1, <1>2

\* Steps that leave the accounts, the admin requests and the owners of the
\* runtimes alone.
LEMMA AlignedSame ==
  ASSUME Types, Aligned, SameOf(runtimes', runtimes), UNCHANGED <<accounts, adm, crossed>>
  PROVE  Aligned'
<1> SUFFICES ASSUME ~crossed PROVE Aligned' BY DEF Aligned
<1>0. /\ runtimes \in Seq(RuntimeType) /\ accounts \in Seq(Account)
      /\ Len(runtimes') = Len(runtimes)
      /\ \A m \in Admin : adm[m] \in AdmSet
  BY DEF Types, SameOf
<1>1. ASSUME NEW m \in Admin, Half(adm[m]) PROVE Half(adm[m])'
  <2>1. CASE adm[m].pc = "add_runtime"
    <3>1. adm[m].account \in Account BY <1>0, <2>1 DEF AdmSet, AdmType
    <3>2. Runtime(adm[m].account) \in RuntimeType
      BY <3>1 DEF Runtime, RuntimeType, Statuses
    <3> QED BY <1>0, <1>1, <2>1, <3>2, SameParallel DEF Half
  <2>2. CASE adm[m].pc = "rm_runtime"
    <3>1. adm[m].index \in 1..Len(runtimes) BY <1>1, <2>2 DEF Half
    <3> QED BY <1>0, <1>1, <2>2, <3>1, SameParallel DEF Half
  <2>3. CASE adm[m].pc \notin {"add_runtime", "rm_runtime"} BY <1>1, <2>3 DEF Half
  <2> QED BY <2>1, <2>2, <2>3
<1>2. Parallel(runtimes, accounts) => Parallel(runtimes', accounts) BY <1>0, SameParallel
<1> QED BY <1>1, <1>2 DEF Aligned, Midway

\* An admin request moves on and the vectors stay as they are.
LEMMA AlignedMove ==
  ASSUME Types, Aligned, ~crossed, NEW m \in Admin, NEW q,
         adm' = [adm EXCEPT ![m] = q], UNCHANGED <<accounts, runtimes>>,
         adm[m].pc \notin {"add_runtime", "rm_runtime"}, Half(q),
         q.pc \in {"rm_found", "rm_wait", "rm_runtime", "add_runtime"}
           => Midway(m) \/ ~Crosses(m)
  PROVE  Aligned'
<1>0. adm'[m] = q /\ \A n \in Admin : n # m => adm'[n] = adm[n] BY DEF Types
<1>1. ASSUME NEW k \in Admin, NEW n \in Admin, Midway(k)', Midway(n)' PROVE k = n
  <2>1. \A l \in Admin : l # m => (Midway(l)' <=> Midway(l)) BY <1>0 DEF Midway
  <2>2. Midway(m)' => Midway(m) \/ ~Crosses(m) BY <1>0 DEF Midway
  <2> QED BY <1>1, <2>1, <2>2 DEF Aligned, Crosses
<1>2. \A n \in Admin : Half(adm[n])' BY <1>0 DEF Half, Aligned
<1>3. \/ Parallel(runtimes, accounts)'
      \/ \E n \in Admin : adm'[n].pc \in {"add_runtime", "rm_runtime"}
  BY <1>0 DEF Aligned
<1> QED BY <1>1, <1>2, <1>3 DEF Aligned

\* An admin request that is alone in its critical steps changes a vector.
LEMMA AlignedChange ==
  ASSUME Types, NEW m \in Admin, NEW q, adm' = [adm EXCEPT ![m] = q],
         ~Crosses(m), Half(q)',
         Parallel(runtimes', accounts') \/ q.pc \in {"add_runtime", "rm_runtime"}
  PROVE  Aligned'
<1>0. adm'[m] = q /\ \A n \in Admin : n # m => adm'[n] = adm[n] /\ ~Midway(n)
  BY DEF Types, Crosses
<1>1. \A n \in Admin : n # m => ~Midway(n)' BY <1>0 DEF Midway
<1>2. ASSUME NEW n \in Admin PROVE Half(adm[n])'
  <2>1. CASE n = m
    <3>1. PICK x : x = adm'[n] OBVIOUS
    <3>2. x = q BY <1>0, <2>1, <3>1
    <3> QED BY <3>1, <3>2 DEF Half
  <2>2. CASE n # m BY <1>1, <2>2 DEF Half, Midway
  <2> QED BY <2>1, <2>2
<1>3. \/ Parallel(runtimes, accounts)'
      \/ \E n \in Admin : adm'[n].pc \in {"add_runtime", "rm_runtime"}
  BY <1>0
<1> QED BY <1>1, <1>2, <1>3 DEF Aligned

\* Whoever is in its critical steps is alone in them.
LEMMA MidwayAlone ==
  ASSUME Aligned, ~crossed, NEW m \in Admin, Midway(m)
  PROVE  ~Crosses(m)
BY DEF Aligned, Crosses

LEMMA AlignedAdmin ==
  ASSUME Base, Aligned, NEW m \in Admin, Administers(m)
  PROVE  Aligned'
<1> SUFFICES ASSUME ~crossed' PROVE Aligned' BY DEF Aligned
<1>0. /\ Types /\ accounts \in Seq(Account) /\ runtimes \in Seq(RuntimeType)
      /\ Len(accounts) \in Nat /\ Len(runtimes) \in Nat
      /\ adm \in [Admin -> AdmSet] /\ adm[m] \in AdmSet /\ adm[m] \in AdmType
      /\ ~Ended(m) => adm[m].account \in Account
  BY DEF Base, Types, AdmSet, AdmType, Ended
<1>1. ~crossed
  BY DEF Administers, Administered, AddStart, Abandon, QueueWrite, AddEntry, AddRuntime,
         RemoveFind, RemoveEntry, RemoveRuntime
<1>2. Half(adm[m]) BY <1>1 DEF Aligned
<1>3. ASSUME NEW a \in Account, AddStart(m, a) PROVE Aligned'
  <2>1. PICK q : q = Step("add_save", a, 0) OBVIOUS
  <2>2. /\ Ended(m) /\ adm' = [adm EXCEPT ![m] = q] /\ UNCHANGED <<accounts, runtimes>>
    BY <1>3, <2>1 DEF AddStart, pool
  <2>3. q.pc = "add_save" BY <2>1 DEF Step
  <2>4. Half(q) BY <2>3 DEF Half
  <2> QED BY <1>0, <1>1, <2>2, <2>3, <2>4, AlignedMove DEF Ended
<1>4. CASE Abandon(m)
  <2>1. PICK q : q = IdleAdmin OBVIOUS
  <2>2. /\ adm' = [adm EXCEPT ![m] = q] /\ UNCHANGED <<accounts, runtimes>>
        /\ adm[m].pc \notin {"add_runtime", "rm_runtime"}
    BY <1>4, <2>1 DEF Abandon, pool
  <2>3. q.pc = "idle" BY <2>1 DEF IdleAdmin, Step
  <2>4. Half(q) BY <2>3 DEF Half
  <2> QED BY <1>0, <1>1, <2>2, <2>3, <2>4, AlignedMove
<1>5. CASE QueueWrite(m)
  <2>1. PICK pc \in {"add_wait", "rm_wait"} :
          /\ adm' = [adm EXCEPT ![m].pc = pc] /\ adm[m].pc \in {"add_saved", "rm_found"}
          /\ pc = "rm_wait" => adm[m].pc = "rm_found"
    BY <1>0, <1>5 DEF QueueWrite
  <2>2. PICK q : q = Step(pc, adm[m].account, adm[m].index) OBVIOUS
  <2>3. q.pc = pc /\ q.account = adm[m].account /\ q.index = adm[m].index
    BY <2>2 DEF Step
  <2>4. adm' = [adm EXCEPT ![m] = q] BY <1>0, <2>1, <2>2, PcChange
  <2>5. UNCHANGED <<accounts, runtimes>> BY <1>5 DEF QueueWrite, pool
  <2>6. Half(q) BY <1>2, <2>1, <2>3 DEF Half, Placed
  <2>7. q.pc \in {"rm_found", "rm_wait", "rm_runtime", "add_runtime"} => Midway(m)
    BY <2>1, <2>3 DEF Midway
  <2> QED BY <1>0, <1>1, <2>1, <2>4, <2>5, <2>6, <2>7, AlignedMove
<1>6. ASSUME NEW a \in Account, RemoveFind(m, a) PROVE Aligned'
  <2>1. PICK q : q = Step("rm_found", a, PositionOf(a)) OBVIOUS
  <2>2. /\ Ended(m) /\ a \in InPool /\ adm' = [adm EXCEPT ![m] = q]
        /\ UNCHANGED <<accounts, runtimes>> /\ ~Crosses(m)
    BY <1>6, <2>1 DEF RemoveFind, pool
  <2>3. q.pc = "rm_found" /\ q.account = a /\ q.index = PositionOf(a) BY <2>1 DEF Step
  <2>4. Half(q) BY <1>0, <2>2, <2>3, PositionFound DEF Half, Placed
  <2> QED BY <1>0, <1>1, <2>2, <2>4, AlignedMove DEF Ended
<1>7. CASE AddEntry(m)
  <2>1. /\ adm[m].pc = "add_wait" /\ accounts' = Append(accounts, adm[m].account)
        /\ adm' = [adm EXCEPT ![m].pc = "add_runtime"] /\ ~Crosses(m)
        /\ runtimes' = runtimes
    BY <1>7 DEF AddEntry
  <2>2. PICK q : q = Step("add_runtime", adm[m].account, adm[m].index) OBVIOUS
  <2>3. q.pc = "add_runtime" /\ q.account = adm[m].account BY <2>2 DEF Step
  <2>4. adm' = [adm EXCEPT ![m] = q] BY <1>0, <2>1, <2>2, PcChange
  <2>5. Parallel(runtimes, accounts)
    BY <1>1, <2>1 DEF Aligned, Crosses, Midway
  <2>6. adm[m].account \in Account BY <1>0, <2>1 DEF Ended
  <2>7. Parallel(Append(runtimes, Runtime(q.account)), Append(accounts, q.account))
    BY <1>0, <2>3, <2>5, <2>6, BothChange
  <2>8. Half(q)' BY <2>1, <2>3, <2>7 DEF Half
  <2> QED BY <1>0, <2>1, <2>3, <2>4, <2>8, AlignedChange
<1>8. CASE AddRuntime(m)
  <2>1. PICK q : q = IdleAdmin OBVIOUS
  <2>2. /\ adm[m].pc = "add_runtime" /\ adm' = [adm EXCEPT ![m] = q]
        /\ runtimes' = Append(runtimes, Runtime(adm[m].account)) /\ accounts' = accounts
    BY <1>8, <2>1 DEF AddRuntime
  <2>3. q.pc = "idle" BY <2>1 DEF IdleAdmin, Step
  <2>4. ~Crosses(m) BY <1>1, <2>2, MidwayAlone DEF Midway
  <2>5. Parallel(runtimes', accounts') BY <1>2, <2>2 DEF Half
  <2>6. Half(q)' BY <2>3 DEF Half
  <2> QED BY <1>0, <2>2, <2>4, <2>5, <2>6, AlignedChange
<1>9. CASE RemoveEntry(m)
  <2>1. adm[m].pc = "rm_wait" /\ runtimes' = runtimes BY <1>9 DEF RemoveEntry
  <2>2. ~Crosses(m) BY <1>1, <2>1, MidwayAlone DEF Midway
  <2>3. adm[m].index \in 1..Len(accounts) BY <1>2, <2>1 DEF Half, Placed
  <2>4. /\ accounts' = RemoveAt(accounts, adm[m].index)
        /\ adm' = [adm EXCEPT ![m].pc = "rm_runtime"]
    BY <1>0, <1>9, <2>3 DEF RemoveEntry
  <2>5. PICK q : q = Step("rm_runtime", adm[m].account, adm[m].index) OBVIOUS
  <2>6. q.pc = "rm_runtime" /\ q.index = adm[m].index BY <2>5 DEF Step
  <2>7. adm' = [adm EXCEPT ![m] = q] BY <1>0, <2>4, <2>5, PcChange
  <2>8. Parallel(runtimes, accounts)
    BY <1>1, <2>1, <2>2 DEF Aligned, Crosses, Midway
  <2>9. /\ q.index \in 1..Len(runtimes)
        /\ Parallel(RemoveAt(runtimes, q.index), RemoveAt(accounts, q.index))
    BY <1>0, <2>3, <2>6, <2>8, BothChange
  <2>10. Half(q)' BY <2>1, <2>4, <2>6, <2>9 DEF Half
  <2> QED BY <1>0, <2>2, <2>6, <2>7, <2>10, AlignedChange
<1>10. CASE RemoveRuntime(m)
  <2>1. /\ adm[m].pc = "rm_runtime" /\ accounts' = accounts
        /\ adm' = [adm EXCEPT ![m].pc = "rm_store"]
    BY <1>10 DEF RemoveRuntime
  <2>2. ~Crosses(m) BY <1>1, <2>1, MidwayAlone DEF Midway
  <2>3. /\ adm[m].index \in 1..Len(runtimes)
        /\ Parallel(RemoveAt(runtimes, adm[m].index), accounts)
    BY <1>2, <2>1 DEF Half
  <2>4. runtimes' = RemoveAt(runtimes, adm[m].index)
    BY <1>0, <1>10, <2>3 DEF RemoveRuntime
  <2>5. PICK q : q = Step("rm_store", adm[m].account, adm[m].index) OBVIOUS
  <2>6. q.pc = "rm_store" BY <2>5 DEF Step
  <2>7. adm' = [adm EXCEPT ![m] = q] BY <1>0, <2>1, <2>5, PcChange
  <2>8. Half(q)' BY <2>6 DEF Half
  <2>9. Parallel(runtimes', accounts') BY <2>1, <2>3, <2>4
  <2> QED BY <1>0, <2>2, <2>7, <2>8, <2>9, AlignedChange
<1> QED BY <1>3, <1>4, <1>5, <1>6, <1>7, <1>8, <1>9, <1>10 DEF Administers, Administered

LEMMA AlignedFile ==
  ASSUME Base, Aligned, NEW w \in Writer, FileStep(w)
  PROVE  Aligned'
<1>0. Types BY DEF Base
<1>1. UNCHANGED <<accounts, runtimes, crossed>>
  BY DEF FileStep, ReadFile, WriteFile, pool
<1>2. CASE adm' = adm
  <2>1. SameOf(runtimes', runtimes) BY <1>0, <1>1 DEF SameOf, Types
  <2> QED BY <1>0, <1>1, <1>2, <2>1, AlignedSame
<1>3. CASE adm' # adm /\ ~crossed
  <2>1. WriteFile(w) /\ w \in Admin /\ copy[w] # None
    BY <1>3 DEF FileStep, ReadFile, WriteFile
  <2>2. adm[w].pc \in {"add_save", "rm_store"} BY <2>1 DEF Base, CopyHolders
  <2>3. PICK q \in {Step("add_saved", adm[w].account, 0), IdleAdmin} :
          adm' = [adm EXCEPT ![w] = q]
    BY <2>1 DEF WriteFile
  <2>4. q.pc \in {"add_saved", "idle"} BY <2>3 DEF Step, IdleAdmin
  <2>5. Half(q) BY <2>4 DEF Half
  <2>6. q.pc \notin {"rm_found", "rm_wait", "rm_runtime", "add_runtime"} BY <2>4
  <2> QED BY <1>0, <1>1, <1>3, <2>1, <2>2, <2>3, <2>5, <2>6, AlignedMove
<1> QED BY <1>1, <1>2, <1>3 DEF Aligned

LEMMA AlignedFresh ==
  /\ Init => Aligned
  /\ Base /\ Restart => Aligned'
<1>1. ASSUME Init PROVE Aligned
  <2>1. Parallel(runtimes, accounts) BY <1>1, PoolAssumption, LoadedPool DEF Init
  <2>2. \A m \in Admin : adm[m].pc = "idle" BY <1>1 DEF Init, IdleAdmin, Step
  <2> QED BY <2>1, <2>2 DEF Aligned, Midway, Half
<1>2. ASSUME Base, Restart PROVE Aligned'
  <2>1. PICK S \in SUBSET store :
          /\ accounts' \in Orders(S)
          /\ runtimes' = [i \in 1..Cardinality(S) |-> Runtime(accounts'[i])]
    BY <1>2 DEF Restart
  <2>2. S \subseteq Account BY <1>2 DEF Base, Types
  <2>3. Parallel(runtimes', accounts') BY <2>1, <2>2, LoadedPool
  <2>4. \A m \in Admin : adm'[m].pc = "idle" BY <1>2 DEF Restart, IdleAdmin, Step
  <2> QED BY <2>3, <2>4 DEF Aligned, Midway, Half
<1> QED BY <1>1, <1>2

LEMMA AlignedStep == Base /\ Aligned /\ [Next]_vars => Aligned'
<1> SUFFICES ASSUME Base, Aligned, [Next]_vars PROVE Aligned' OBVIOUS
<1>0. Types /\ SameOf(runtimes, runtimes) BY DEF Base, Types, SameOf
<1>1. CASE UNCHANGED vars BY <1>0, <1>1, AlignedSame DEF vars, pool
<1>2. ASSUME NEW r \in Request, Select(r) \/ Call(r) \/ Returns(r) \/ Mark(r) \/ Hangup(r)
      PROVE  Aligned'
  BY <1>0, <1>2, RequestStep, AlignedSame
<1>3. CASE Refreshes BY <1>0, <1>3, RefreshStep, AlignedSame
<1>4. CASE \E m \in Admin : Administers(m) BY <1>4, AlignedAdmin
<1>5. CASE \E w \in Writer : FileStep(w) BY <1>5, AlignedFile
<1>6. CASE Restart BY <1>6, AlignedFresh
<1> QED BY <1>1, <1>2, <1>3, <1>4, <1>5, <1>6 DEF Next, Refreshes, Administers

LEMMA AlignedInvariant == Spec => [](Base /\ Aligned)
<1>1. Init => Aligned BY AlignedFresh
<1>2. (Base /\ Aligned) /\ [Next]_vars => (Base /\ Aligned)' BY BaseStep, AlignedStep
<1>3. Init => Base BY FreshBase
<1> QED BY <1>1, <1>2, <1>3, PTL DEF Spec

\* Whatever calls, refreshes, saves and hang-ups run beside add_account and
\* remove_account, entry and runtime at an index belong to one account when
\* none of them is under way, as long as no two were in their critical steps
\* at once and none was dropped in between.
THEOREM IndicesAgree == Spec => []VectorsParallel
<1>1. Base /\ Aligned => VectorsParallel
  <2> SUFFICES ASSUME Aligned, Quiet, ~crossed
               PROVE  /\ Len(accounts) = Len(runtimes)
                      /\ \A i \in 1..Len(accounts) : runtimes[i].of = accounts[i]
    BY DEF VectorsParallel
  <2>1. \A m \in Admin : adm[m].pc \notin {"add_runtime", "rm_runtime"}
    BY DEF Quiet, Ended
  <2> QED BY <2>1 DEF Aligned, Parallel
<1> QED BY <1>1, AlignedInvariant, PTL

------------------------------------------------------------------------------
(* Marks                                                                    *)

\* An index in hand that is still right is, outside the windows, the index of
\* the runtime as well.
LEMMA IndexLands ==
  ASSUME Base, Aligned, ~Shifting, NEW q, Placed(q, accounts), q.index \in 1..Len(runtimes)
  PROVE  runtimes[q.index].of = q.account
<1>0. /\ accounts \in Seq(Account) /\ runtimes \in Seq(RuntimeType)
      /\ Len(accounts) \in Nat /\ Len(runtimes) \in Nat /\ ~crossed
      /\ q.index \in 1..Len(accounts) /\ accounts[q.index] = q.account
  BY DEF Base, Types, Shifting, Placed
<1>1. CASE Parallel(runtimes, accounts) BY <1>0, <1>1 DEF Parallel
<1>2. ASSUME NEW m \in Admin, adm[m].pc = "add_runtime"
      PROVE  runtimes[q.index].of = q.account
  <2>1. adm[m] \in AdmSet BY DEF Base, Types
  <2>2. adm[m].account \in Account BY <1>2, <2>1 DEF AdmSet, AdmType
  <2>3. PICK x : x = Runtime(adm[m].account) OBVIOUS
  <2>4. x \in RuntimeType BY <2>2, <2>3 DEF Runtime, RuntimeType, Statuses
  <2>5. Append(runtimes, x)[q.index] = runtimes[q.index]
    BY <1>0, <2>4, AppendProperties
  <2>6. Parallel(Append(runtimes, x), accounts) BY <1>0, <1>2, <2>3 DEF Aligned, Half
  <2> QED BY <1>0, <2>5, <2>6 DEF Parallel
<1> QED BY <1>0, <1>1, <1>2 DEF Aligned, Shifting

LEMMA MarkStep ==
  ASSUME Base, Aligned, NEW r \in Request, Mark(r), runtimes' # runtimes, ~Shifting,
         ~req[r].stale
  PROVE  Hits(req[r])
<1>1. /\ req[r].pc \in {"cool", "disable"} /\ ~(req[r].index > Len(runtimes))
  BY DEF Mark
<1>2. Placed(req[r], accounts) BY <1>1 DEF Base, InHand, TaskTrue
<1>3. PICK i : i = req[r].index OBVIOUS
<1>4. /\ runtimes \in Seq(RuntimeType) /\ Len(runtimes) \in Nat
      /\ accounts \in Seq(Account) /\ Len(accounts) \in Nat
  BY DEF Base, Types
<1>5. i \in 1..Len(runtimes) BY <1>1, <1>2, <1>3, <1>4 DEF Placed
<1>6. runtimes[i].of = req[r].account BY <1>2, <1>3, <1>5, IndexLands
<1>7. PICK st \in Statuses : runtimes' = [runtimes EXCEPT ![i].status = st]
  BY <1>1, <1>3 DEF Mark, Statuses
<1>8. \A j \in 1..Len(runtimes) : j # i => runtimes'[j] = runtimes[j]
  BY <1>4, <1>5, <1>7, StatusSet
<1> QED BY <1>3, <1>5, <1>6, <1>8 DEF Hits

LEMMA DisableStep ==
  ASSUME Base, Aligned, RefreshDisable, runtimes' # runtimes, ~Shifting,
         ~refresher.stale
  PROVE  Hits(refresher)
<1>1. refresher.pc = "disable" /\ ~(refresher.index > Len(runtimes))
  BY DEF RefreshDisable
<1>2. Placed(refresher, accounts) BY <1>1 DEF Base, InHand, TaskTrue
<1>3. PICK i : i = refresher.index OBVIOUS
<1>4. /\ runtimes \in Seq(RuntimeType) /\ Len(runtimes) \in Nat
      /\ accounts \in Seq(Account) /\ Len(accounts) \in Nat
  BY DEF Base, Types
<1>5. i \in 1..Len(runtimes) BY <1>1, <1>2, <1>3, <1>4 DEF Placed
<1>6. runtimes[i].of = refresher.account BY <1>2, <1>3, <1>5, IndexLands
<1>7. runtimes' = [runtimes EXCEPT ![i].status = "Disabled"] /\ "Disabled" \in Statuses
  BY <1>1, <1>3 DEF RefreshDisable, Statuses
<1>8. \A j \in 1..Len(runtimes) : j # i => runtimes'[j] = runtimes[j]
  BY <1>4, <1>5, <1>7, StatusSet
<1> QED BY <1>3, <1>5, <1>6, <1>8 DEF Hits

LEMMA MarksLand == Base /\ Aligned /\ [Next]_vars => [MarkLands]_vars
<1> SUFFICES ASSUME Base, Aligned, Next, runtimes' # runtimes, faults' = faults, ~Shifting
             PROVE  /\ \A r \in Request :
                         req[r].pc \in {"cool", "disable"} /\ req'[r] # req[r]
                         /\ ~req[r].stale => Hits(req[r])
                    /\ refresher.pc = "disable" /\ refresher' # refresher
                       /\ ~refresher.stale => Hits(refresher)
  BY DEF MarkLands
<1>0. faults \in Nat BY PoolAssumption DEF Base, Types
<1>1. ASSUME NEW p \in Request, Select(p) \/ Call(p) \/ Returns(p) \/ Mark(p) \/ Hangup(p)
      PROVE  /\ \A r \in Request :
                  req[r].pc \in {"cool", "disable"} /\ req'[r] # req[r]
                  /\ ~req[r].stale => Hits(req[r])
             /\ refresher' = refresher
  <2>1. refresher' = refresher BY <1>1, RequestStep
  <2>2. PICK q : req' = [req EXCEPT ![p] = q] BY <1>1, RequestStep
  <2>3. \A r \in Request : r # p => req'[r] = req[r] BY <2>2 DEF Base, Types
  <2>4. ASSUME req[p].pc \in {"cool", "disable"} PROVE Mark(p)
    <3>1. ~Select(p)
      BY <2>4, SelectStep DEF Base, Over
    <3> QED BY <1>1, <2>4, <3>1 DEF Call, Returns, CallReturns, Hangup, pool
  <2> QED BY <2>1, <2>3, <2>4, MarkStep
<1>2. CASE Refreshes
  <2>1. req' = req BY <1>2, RefreshStep
  <2>2. RefreshDisable
    BY <1>2 DEF Refreshes, RefreshStart, RefreshEnds, RefreshFind, pool
  <2> QED BY <2>1, <2>2, DisableStep
<1>3. CASE \E m \in Admin : Administers(m)
  <2>1. UNCHANGED <<req, refresher>>
    BY <1>3 DEF Administers, Administered, AddStart, Abandon, QueueWrite, AddEntry,
                AddRuntime, RemoveFind, RemoveEntry, RemoveRuntime
  <2> QED BY <2>1
<1>4. CASE \E w \in Writer : FileStep(w)
  BY <1>4 DEF FileStep, ReadFile, WriteFile
<1>5. CASE Restart BY <1>0, <1>5 DEF Restart
<1> QED BY <1>1, <1>2, <1>3, <1>4, <1>5 DEF Next, Refreshes, Administers

\* Outside the windows that OnlyCulpritsMarked names, cooling down and
\* disabling hit the account that failed, for any number of requests.
THEOREM MarksAreDeserved == Spec => OnlyCulpritsMarked
BY AlignedInvariant, MarksLand, PTL DEF Spec, OnlyCulpritsMarked

------------------------------------------------------------------------------
(* Pool and credential file                                                 *)

\* push adds one account; it stays single if it was not there.
LEMMA AppendElements ==
  ASSUME NEW S, NEW s \in Seq(S), NEW b \in S
  PROVE  /\ Elements(Append(s, b)) = Elements(s) \cup {b}
         /\ \A a : Once(a, s) /\ (a # b \/ a \notin Elements(s)) => Once(a, Append(s, b))
<1> DEFINE t == Append(s, b)
<1>1. /\ Len(s) \in Nat /\ Len(t) = Len(s) + 1 /\ t[Len(s) + 1] = b
      /\ \A i \in 1..Len(s) : t[i] = s[i]
  BY AppendProperties
<1> HIDE DEF t
<1>2. \A i : i \in 1..Len(t) <=> i \in 1..Len(s) \/ i = Len(s) + 1 BY <1>1
<1>3. Elements(t) = Elements(s) \cup {b} BY <1>1, <1>2 DEF Elements
<1>4. ASSUME NEW a, Once(a, s), a # b \/ a \notin Elements(s) PROVE Once(a, t)
  BY <1>1, <1>2, <1>4 DEF Once, Elements
<1> QED BY <1>3, <1>4 DEF t

\* Vec::remove takes out the account at the index, for good if it is single.
LEMMA RemoveElements ==
  ASSUME NEW S, NEW s \in Seq(S), NEW i \in 1..Len(s), NEW a, Once(a, s)
  PROVE  /\ Once(a, RemoveAt(s, i))
         /\ a # s[i] => (a \in Elements(RemoveAt(s, i)) <=> a \in Elements(s))
         /\ a = s[i] => a \notin Elements(RemoveAt(s, i))
<1> DEFINE t == RemoveAt(s, i)
<1>0. Len(s) \in Nat /\ i \in Nat OBVIOUS
<1>1. /\ Len(s) \in Nat /\ i \in Nat /\ Len(t) = Len(s) - 1
      /\ \A j \in 1..(Len(s) - 1) : t[j] = IF j < i THEN s[j] ELSE s[j + 1]
  BY <1>0, RemoveAtProperties
<1> HIDE DEF t
\* Where the element at k of the new vector was.
<1> DEFINE old(k) == IF k < i THEN k ELSE k + 1
<1>2. \A k \in 1..Len(t) : old(k) \in 1..Len(s) /\ old(k) # i /\ t[k] = s[old(k)]
  BY <1>1
<1>3. \A k, l \in 1..Len(t) : old(k) = old(l) => k = l BY <1>1
<1>4. \A k \in 1..Len(s) : k # i => \E l \in 1..Len(t) : t[l] = s[k]
  <2> SUFFICES ASSUME NEW k \in 1..Len(s), k # i
               PROVE  \E l \in 1..Len(t) : t[l] = s[k]
    OBVIOUS
  <2>1. CASE k < i
    <3>1. k \in 1..Len(t) /\ t[k] = s[k] BY <1>1, <2>1
    <3> QED BY <3>1
  <2>2. CASE ~ (k < i)
    <3>1. k - 1 \in 1..Len(t) /\ t[k - 1] = s[k] BY <1>1, <2>2
    <3> QED BY <3>1
  <2> QED BY <2>1, <2>2
<1> HIDE DEF old
<1>5. Once(a, t) BY <1>2, <1>3 DEF Once
<1>6. a # s[i] => (a \in Elements(t) <=> a \in Elements(s)) BY <1>2, <1>4 DEF Elements
<1>7. a = s[i] => a \notin Elements(t) BY <1>2 DEF Elements, Once
<1> QED BY <1>5, <1>6, <1>7 DEF t

\* Where an account is while an admin request on it is at a place.
Stage(pc, a) ==
  /\ pc = "add_save" => a \notin InPool /\ a \notin store
  /\ pc \in {"add_saved", "add_wait"} => a \notin InPool /\ a \in store
  /\ pc \in {"add_runtime", "rm_found", "rm_wait"} => a \in InPool /\ a \in store
  /\ pc \in {"rm_runtime", "rm_store"} => a \notin InPool /\ a \in store

\* An account that has not gone astray: one entry at most, one admin request
\* at most, and where that says it is.
Tidy(a) ==
  /\ Once(a, accounts)
  /\ \A m, n \in Admin : adm[m].account = a /\ adm[n].account = a => m = n
  /\ \A m \in Admin : adm[m].account = a => Stage(adm[m].pc, a)
  /\ (\A m \in Admin : adm[m].account # a) => (a \in InPool <=> a \in store)
TidyInv == ~crossed => \A a \in Account \ astray : Tidy(a)

\* Who has an account is under way.
LEMMA BusyPlaces ==
  ASSUME Types, NEW m \in Admin, adm[m].account \in Account
  PROVE  adm[m].pc \in {"add_save", "add_saved", "add_wait", "add_runtime", "rm_found",
                        "rm_wait", "rm_runtime", "rm_store"}
<1>1. adm[m] \in AdmSet /\ adm[m] \in AdmType /\ adm[m].account # None
  BY PoolAssumption DEF Types, AdmSet
<1>2. adm[m].pc \notin {"idle", "panicked"} BY <1>1 DEF AdmSet
<1> QED BY <1>1, <1>2 DEF AdmType

LEMMA EndedHasNone ==
  ASSUME Types, NEW m \in Admin
  PROVE  Ended(m) <=> adm[m].account = None
BY DEF Types, AdmSet, Ended

\* An account of the pool is in the file.
LEMMA TidyStored ==
  ASSUME Types, NEW a \in Account, Tidy(a), a \in InPool
  PROVE  a \in store
BY BusyPlaces DEF Tidy, Stage

LEMMA TidyFrame ==
  ASSUME NEW a, Tidy(a), UNCHANGED <<accounts, adm>>, a \in store' <=> a \in store
  PROVE  Tidy(a)'
BY DEF Tidy, Stage, InPool

\* The ways in which a step of an admin request may touch an account.
LEMMA TidyChange ==
  ASSUME Types, NEW a \in Account, Tidy(a), NEW m \in Admin, NEW q,
         adm' = [adm EXCEPT ![m] = q], Once(a, accounts'),
         \/ /\ adm[m].account # a /\ q.account # a
            /\ a \in InPool' <=> a \in InPool
            /\ a \in store' <=> a \in store
         \/ /\ q.account = a /\ \A n \in Admin : n # m => adm[n].account # a
            /\ Stage(q.pc, a)'
         \/ /\ adm[m].account = a /\ q.account # a
            /\ a \in InPool' <=> a \in store'
  PROVE  Tidy(a)'
<1>0. adm'[m] = q /\ \A n \in Admin : n # m => adm'[n] = adm[n] BY DEF Types
<1>1. \A k, n \in Admin : adm'[k].account = a /\ adm'[n].account = a => k = n
  BY <1>0 DEF Tidy
<1>2. ASSUME NEW n \in Admin, adm'[n].account = a PROVE Stage(adm[n].pc, a)'
  <2>1. CASE n = m
    <3>1. q.account = a /\ Stage(q.pc, a)' BY <1>0, <1>2, <2>1
    <3>2. adm'[n].pc = q.pc BY <1>0, <2>1
    <3> QED BY <3>1, <3>2 DEF Stage
  <2>2. CASE n # m
    <3>1. adm'[n] = adm[n] /\ adm[n].account = a BY <1>0, <1>2, <2>2
    <3>2. adm[m].account # a /\ q.account # a BY <2>2, <3>1 DEF Tidy
    <3>3. (a \in InPool' <=> a \in InPool) /\ (a \in store' <=> a \in store)
      BY <3>1, <3>2, <2>2
    <3> QED BY <3>1, <3>3 DEF Tidy, Stage
  <2> QED BY <2>1, <2>2
<1>3. ASSUME \A n \in Admin : adm'[n].account # a PROVE a \in InPool' <=> a \in store'
  <2>1. q.account # a /\ \A n \in Admin : n # m => adm[n].account # a BY <1>0, <1>3
  <2>2. CASE adm[m].account = a BY <2>1, <2>2
  <2>3. CASE adm[m].account # a
    <3>1. a \in InPool <=> a \in store BY <2>1, <2>3 DEF Tidy
    <3> QED BY <2>1, <2>3, <3>1
  <2> QED BY <2>2, <2>3
<1> QED BY <1>1, <1>2, <1>3 DEF Tidy

LEMMA TidyAdmin ==
  ASSUME Base, Aligned, TidyInv, NEW m \in Admin, Administers(m)
  PROVE  TidyInv'
<1> SUFFICES ASSUME ~crossed', NEW a \in Account, a \notin astray' PROVE Tidy(a)'
  BY DEF TidyInv
<1>0. /\ Types /\ accounts \in Seq(Account) /\ Len(accounts) \in Nat
      /\ adm \in [Admin -> AdmSet] /\ None \notin Account
      /\ Ended(m) => adm[m].account # a
      /\ ~Ended(m) => adm[m].account \in Account
      /\ InPool = Elements(accounts) /\ InPool' = Elements(accounts')
  BY PoolAssumption DEF Base, Types, AdmSet, AdmType, Ended, InPool, Elements
<1>1. ~crossed /\ a \notin astray /\ store' = store
  <2>1. ~crossed
    BY DEF Administers, Administered, AddStart, Abandon, QueueWrite, AddEntry, AddRuntime,
           RemoveFind, RemoveEntry, RemoveRuntime
  <2>2. astray \subseteq astray'
    BY DEF Administers, Administered, AddStart, Abandon, QueueWrite, AddEntry, AddRuntime,
           RemoveFind, RemoveEntry, RemoveRuntime
  <2>3. store' = store
    BY DEF Administers, Administered, AddStart, Abandon, QueueWrite, AddEntry, AddRuntime,
           RemoveFind, RemoveEntry, RemoveRuntime, disk
  <2> QED BY <2>1, <2>2, <2>3
<1>2. Tidy(a) BY <1>1 DEF TidyInv
<1>3. /\ Once(a, accounts)
      /\ adm[m].account = a => /\ Stage(adm[m].pc, a)
                               /\ \A n \in Admin : n # m => adm[n].account # a
  BY <1>2 DEF Tidy
<1>4. ASSUME NEW b \in Account, AddStart(m, b) PROVE Tidy(a)'
  <2>1. PICK q : q = Step("add_save", b, 0) OBVIOUS
  <2>2. /\ Ended(m) /\ adm' = [adm EXCEPT ![m] = q] /\ accounts' = accounts
        /\ q.pc = "add_save" /\ q.account = b
    BY <1>4, <2>1 DEF AddStart, pool, Step
  <2>3. CASE a # b BY <1>0, <1>1, <1>2, <1>3, <2>2, <2>3, TidyChange
  <2>4. CASE a = b
    <3>1. a \notin InPool /\ \A n \in Admin : adm[n].account # a
      BY <1>4, <2>4 DEF AddStart
    <3>2. a \notin store BY <1>2, <3>1 DEF Tidy
    <3>3. Stage(q.pc, a)' BY <1>0, <1>1, <2>2, <3>1, <3>2 DEF Stage
    <3> QED BY <1>0, <1>1, <1>2, <1>3, <2>2, <2>4, <3>1, <3>3, TidyChange
  <2> QED BY <2>3, <2>4
<1>5. CASE Abandon(m)
  <2>1. PICK q : q = IdleAdmin OBVIOUS
  <2>2. /\ ~Ended(m) /\ adm' = [adm EXCEPT ![m] = q] /\ accounts' = accounts
        /\ q.account = None /\ adm[m].pc \notin {"add_runtime", "rm_runtime"}
    BY <1>5, <2>1 DEF Abandon, pool, Step, IdleAdmin
  <2>3. q.account # a BY <1>0, <2>2
  <2>4. CASE adm[m].account # a BY <1>0, <1>1, <1>2, <1>3, <2>2, <2>3, <2>4, TidyChange
  <2>5. CASE adm[m].account = a
    <3>1. adm[m].pc \notin {"add_saved", "add_wait", "rm_runtime", "rm_store"}
      BY <1>5, <2>5 DEF Abandon
    <3>2. adm[m].pc \in {"add_save", "rm_found", "rm_wait"}
      BY <1>0, <2>2, <2>5, <3>1, BusyPlaces
    <3>3. a \in InPool <=> a \in store BY <1>3, <2>5, <3>2 DEF Stage
    <3>4. a \in InPool' <=> a \in store' BY <1>0, <1>1, <2>2, <3>3
    <3> QED BY <1>0, <1>2, <1>3, <2>2, <2>3, <2>5, <3>4, TidyChange
  <2> QED BY <2>4, <2>5
\* Steps on the way that change neither the entries nor the file.
<1>6. ASSUME NEW pc, adm' = [adm EXCEPT ![m].pc = pc], accounts' = accounts,
             adm[m].account = a => Stage(pc, a)
      PROVE  Tidy(a)'
  <2>1. PICK q : q = Step(pc, adm[m].account, adm[m].index) OBVIOUS
  <2>2. adm' = [adm EXCEPT ![m] = q] BY <1>0, <1>6, <2>1, PcChange
  <2>3. q.pc = pc /\ q.account = adm[m].account BY <2>1 DEF Step
  <2>4. CASE adm[m].account # a BY <1>0, <1>1, <1>2, <1>3, <1>6, <2>2, <2>3, <2>4, TidyChange
  <2>5. CASE adm[m].account = a
    <3>1. Stage(q.pc, a) BY <1>6, <2>3, <2>5
    <3>2. InPool' = InPool BY <1>0, <1>6
    <3>3. Stage(q.pc, a)' BY <1>1, <3>1, <3>2 DEF Stage
    <3> QED BY <1>0, <1>2, <1>3, <1>6, <2>2, <2>3, <2>5, <3>3, TidyChange
  <2> QED BY <2>4, <2>5
<1>7. CASE QueueWrite(m)
  <2>1. PICK pc \in {"add_wait", "rm_wait"} :
          /\ adm' = [adm EXCEPT ![m].pc = pc]
          /\ adm[m].pc = IF pc = "rm_wait" THEN "rm_found" ELSE "add_saved"
    BY <1>0, <1>7 DEF QueueWrite
  <2>2. accounts' = accounts BY <1>7 DEF QueueWrite, pool
  <2>3. adm[m].account = a => Stage(pc, a) BY <1>3, <2>1 DEF Stage
  <2> QED BY <1>6, <2>1, <2>2, <2>3
<1>8. CASE AddEntry(m)
  <2>1. /\ adm[m].pc = "add_wait" /\ accounts' = Append(accounts, adm[m].account)
        /\ adm' = [adm EXCEPT ![m].pc = "add_runtime"]
    BY <1>8 DEF AddEntry
  <2>2. PICK q : q = Step("add_runtime", adm[m].account, adm[m].index) OBVIOUS
  <2>3. adm' = [adm EXCEPT ![m] = q] BY <1>0, <2>1, <2>2, PcChange
  <2>4. q.pc = "add_runtime" /\ q.account = adm[m].account BY <2>2 DEF Step
  <2>5. adm[m].account \in Account BY <1>0, <2>1 DEF Ended
  <2>6. /\ InPool' = InPool \cup {adm[m].account}
        /\ a # adm[m].account \/ a \notin InPool => Once(a, accounts')
    BY <1>0, <1>3, <2>1, <2>5, AppendElements
  <2>7. CASE adm[m].account # a
    <3>1. a \in InPool' <=> a \in InPool BY <2>6, <2>7
    <3> QED BY <1>0, <1>1, <1>2, <2>3, <2>4, <2>6, <2>7, <3>1, TidyChange
  <2>8. CASE adm[m].account = a
    <3>1. a \notin InPool /\ a \in store BY <1>3, <2>1, <2>8 DEF Stage
    <3>2. Stage(q.pc, a)' BY <1>1, <2>4, <2>6, <2>8, <3>1 DEF Stage
    <3> QED BY <1>0, <1>2, <1>3, <2>3, <2>4, <2>6, <2>8, <3>1, <3>2, TidyChange
  <2> QED BY <2>7, <2>8
<1>9. CASE AddRuntime(m)
  <2>1. PICK q : q = IdleAdmin OBVIOUS
  <2>2. /\ adm[m].pc = "add_runtime" /\ adm' = [adm EXCEPT ![m] = q]
        /\ accounts' = accounts /\ q.account = None
    BY <1>9, <2>1 DEF AddRuntime, IdleAdmin, Step
  <2>3. q.account # a BY <1>0, <2>2
  <2>4. CASE adm[m].account # a BY <1>0, <1>1, <1>2, <1>3, <2>2, <2>3, <2>4, TidyChange
  <2>5. CASE adm[m].account = a
    <3>1. a \in InPool' /\ a \in store' BY <1>0, <1>1, <1>3, <2>2, <2>5 DEF Stage
    <3> QED BY <1>0, <1>2, <1>3, <2>2, <2>3, <2>5, <3>1, TidyChange
  <2> QED BY <2>4, <2>5
<1>10. ASSUME NEW b \in Account, RemoveFind(m, b) PROVE Tidy(a)'
  <2>1. PICK q : q = Step("rm_found", b, PositionOf(b)) OBVIOUS
  <2>2. /\ Ended(m) /\ b \in InPool /\ adm' = [adm EXCEPT ![m] = q]
        /\ accounts' = accounts /\ ~Crosses(m) /\ q.pc = "rm_found" /\ q.account = b
    BY <1>10, <2>1 DEF RemoveFind, pool, Step
  <2>3. CASE a # b BY <1>0, <1>1, <1>2, <1>3, <2>2, <2>3, TidyChange
  <2>4. CASE a = b
    <3>1. ASSUME NEW n \in Admin, adm[n].account = a PROVE FALSE
      <4>1. Stage(adm[n].pc, a) BY <1>2, <3>1 DEF Tidy
      <4>2. Midway(n) BY <1>0, <2>2, <2>4, <3>1, <4>1, BusyPlaces DEF Stage, Midway
      <4>3. n # m BY <1>0, <2>2, <3>1
      <4> QED BY <2>2, <4>2, <4>3 DEF Crosses
    <3>2. a \in store BY <1>0, <1>2, <2>2, <2>4, TidyStored
    <3>3. Stage(q.pc, a)' BY <1>0, <1>1, <2>2, <2>4, <3>2 DEF Stage
    <3> QED BY <1>0, <1>2, <1>3, <2>2, <2>4, <3>1, <3>3, TidyChange
  <2> QED BY <2>3, <2>4
<1>11. CASE RemoveEntry(m)
  <2>1. adm[m].pc = "rm_wait" BY <1>11 DEF RemoveEntry
  <2>2. Placed(adm[m], accounts) BY <1>1, <2>1 DEF Aligned, Half
  <2>3. PICK i : i = adm[m].index OBVIOUS
  <2>4. i \in 1..Len(accounts) /\ accounts[i] = adm[m].account BY <2>2, <2>3 DEF Placed
  <2>5. accounts' = RemoveAt(accounts, i) /\ adm' = [adm EXCEPT ![m].pc = "rm_runtime"]
    BY <1>0, <1>11, <2>3, <2>4 DEF RemoveEntry
  <2>6. PICK q : q = Step("rm_runtime", adm[m].account, adm[m].index) OBVIOUS
  <2>7. adm' = [adm EXCEPT ![m] = q] BY <1>0, <2>5, <2>6, PcChange
  <2>8. q.pc = "rm_runtime" /\ q.account = adm[m].account BY <2>6 DEF Step
  <2>9. /\ Once(a, accounts')
        /\ a # adm[m].account => (a \in InPool' <=> a \in InPool)
        /\ a = adm[m].account => a \notin InPool'
    BY <1>0, <1>3, <2>4, <2>5, RemoveElements
  <2>10. CASE adm[m].account # a
    BY <1>0, <1>1, <1>2, <2>7, <2>8, <2>9, <2>10, TidyChange
  <2>11. CASE adm[m].account = a
    <3>1. a \in store BY <1>3, <2>1, <2>11 DEF Stage
    <3>2. Stage(q.pc, a)' BY <1>1, <2>8, <2>9, <2>11, <3>1 DEF Stage
    <3> QED BY <1>0, <1>2, <1>3, <2>7, <2>8, <2>9, <2>11, <3>2, TidyChange
  <2> QED BY <2>10, <2>11
<1>12. CASE RemoveRuntime(m)
  <2>1. /\ adm[m].pc = "rm_runtime" /\ adm' = [adm EXCEPT ![m].pc = "rm_store"]
        /\ accounts' = accounts
    BY <1>12 DEF RemoveRuntime
  <2>2. adm[m].account = a => Stage("rm_store", a) BY <1>3, <2>1 DEF Stage
  <2> QED BY <1>6, <2>1, <2>2
<1> QED BY <1>4, <1>5, <1>7, <1>8, <1>9, <1>10, <1>11, <1>12
        DEF Administers, Administered

\* A write changes, of the accounts that do not go astray by it, only the
\* writer's own.
LEMMA TidyFile ==
  ASSUME Base, TidyInv, NEW w \in Writer, FileStep(w)
  PROVE  TidyInv'
<1> SUFFICES ASSUME ~crossed', NEW a \in Account, a \notin astray' PROVE Tidy(a)'
  BY DEF TidyInv
<1>0. Types /\ adm \in [Admin -> AdmSet] /\ None \notin Account /\ Request \cap Admin = {}
  BY PoolAssumption DEF Base, Types
<1>1. CASE ReadFile(w)
  <2>1. UNCHANGED <<accounts, adm, store, crossed, astray>> BY <1>1 DEF ReadFile, pool
  <2>2. Tidy(a) BY <2>1 DEF TidyInv
  <2> QED BY <2>1, <2>2, TidyFrame
<1>2. CASE WriteFile(w)
  <2>1. /\ copy[w] # None /\ store' = copy[w] /\ UNCHANGED <<accounts, crossed>>
        /\ astray' = astray \cup (Edited(w, store) \ copy[w]) \cup (copy[w] \ Edited(w, store))
    BY <1>2 DEF WriteFile, pool
  <2>2. a \notin astray /\ (a \in store' <=> a \in Edited(w, store)) BY <2>1
  <2>3. Tidy(a) BY <2>1, <2>2 DEF TidyInv
  <2>4. InPool' = InPool /\ Once(a, accounts') BY <2>1, <2>3 DEF InPool, Tidy
  <2>5. CASE w \notin Admin
    <3>1. adm' = adm BY <1>2, <2>5 DEF WriteFile
    <3>2. Edited(w, store) = store \cup {AccountOf(w)} BY <2>5 DEF Edited
    <3>3. AccountOf(w) \in InPool
      <4>1. CASE w \in Request
        <5>1. req[w].pc = "calling" BY <2>1, <4>1 DEF Base, CopyHolders
        <5>2. Placed(req[w], accounts) BY <4>1, <5>1 DEF Base, InHand, TaskTrue
        <5> QED BY <4>1, <5>2 DEF Placed, InPool, AccountOf
      <4>2. CASE w \notin Request
        <5>1. refresher.pc = "refreshing" BY <2>1, <2>5, <4>2 DEF Base, CopyHolders, Writer
        <5>2. Placed(refresher, accounts) BY <5>1 DEF Base, InHand, TaskTrue
        <5> QED BY <2>5, <4>2, <5>2 DEF Placed, InPool, AccountOf
      <4> QED BY <4>1, <4>2
    <3>4. a = AccountOf(w) => a \in store BY <1>0, <2>3, <3>3, TidyStored
    <3>5. a \in store' <=> a \in store BY <2>2, <3>2, <3>4
    <3> QED BY <2>1, <2>3, <3>1, <3>5, TidyFrame
  <2>6. CASE w \in Admin
    <3>1. AccountOf(w) = adm[w].account BY <1>0, <2>6 DEF AccountOf
    <3>2. adm[w].pc \in {"add_save", "rm_store"} BY <2>1, <2>6 DEF Base, CopyHolders
    <3>3. adm[w].account = a => /\ Stage(adm[w].pc, a)
                               /\ \A n \in Admin : n # w => adm[n].account # a
      BY <2>3, <2>6 DEF Tidy
    <3>4. CASE adm[w].pc = "add_save"
      <4>1. PICK q : q = Step("add_saved", adm[w].account, 0) OBVIOUS
      <4>2. adm' = [adm EXCEPT ![w] = q] BY <1>2, <2>6, <3>4, <4>1 DEF WriteFile
      <4>3. q.pc = "add_saved" /\ q.account = adm[w].account BY <4>1 DEF Step
      <4>4. Edited(w, store) = store \cup {adm[w].account} BY <3>1, <3>4 DEF Edited
      <4>5. CASE adm[w].account # a
        <5>1. a \in store' <=> a \in store BY <2>2, <4>4, <4>5
        <5> QED BY <1>0, <2>3, <2>4, <2>6, <4>2, <4>3, <4>5, <5>1, TidyChange
      <4>6. CASE adm[w].account = a
        <5>1. a \notin InPool /\ a \in store' BY <2>2, <3>3, <3>4, <4>4, <4>6 DEF Stage
        <5>2. Stage(q.pc, a)' BY <2>4, <4>3, <5>1 DEF Stage
        <5> QED BY <1>0, <2>3, <2>4, <2>6, <3>3, <4>2, <4>3, <4>6, <5>2, TidyChange
      <4> QED BY <4>5, <4>6
    <3>5. CASE adm[w].pc = "rm_store"
      <4>1. PICK q : q = IdleAdmin OBVIOUS
      <4>2. adm' = [adm EXCEPT ![w] = q] BY <1>2, <2>6, <3>5, <4>1 DEF WriteFile
      <4>3. q.account # a BY <1>0, <4>1 DEF IdleAdmin, Step
      <4>4. Edited(w, store) = store \ {adm[w].account} BY <2>6, <3>1, <3>5 DEF Edited
      <4>5. CASE adm[w].account # a
        <5>1. a \in store' <=> a \in store BY <2>2, <4>4, <4>5
        <5> QED BY <1>0, <2>3, <2>4, <2>6, <4>2, <4>3, <4>5, <5>1, TidyChange
      <4>6. CASE adm[w].account = a
        <5>1. a \notin InPool /\ a \notin store' BY <2>2, <3>3, <3>5, <4>4, <4>6 DEF Stage
        <5>2. a \in InPool' <=> a \in store' BY <2>4, <5>1
        <5> QED BY <1>0, <2>3, <2>4, <2>6, <4>2, <4>3, <4>6, <5>2, TidyChange
      <4> QED BY <4>5, <4>6
    <3> QED BY <3>2, <3>4, <3>5
  <2> QED BY <2>5, <2>6
<1> QED BY <1>1, <1>2 DEF FileStep

LEMMA TidyFresh ==
  /\ Init => TidyInv
  /\ Base /\ Restart => TidyInv'
<1>1. ASSUME Init, NEW a \in Account PROVE Tidy(a)
  <2>1. Elements(accounts) = Stored /\ Once(a, accounts)
    BY <1>1, PoolAssumption, LoadedPool DEF Init
  <2>2. /\ \A m \in Admin : adm[m].account # a
        /\ store = Stored /\ InPool = Elements(accounts)
    BY <1>1, PoolAssumption DEF Init, IdleAdmin, Step, InPool, Elements
  <2> QED BY <2>1, <2>2 DEF Tidy
<1>2. ASSUME Base, Restart, NEW a \in Account, a \notin astray' PROVE Tidy(a)'
  <2>1. PICK S \in SUBSET store :
          /\ accounts' \in Orders(S)
          /\ runtimes' = [i \in 1..Cardinality(S) |-> Runtime(accounts'[i])]
          /\ astray' = store \ S
    BY <1>2 DEF Restart
  <2>2. S \subseteq Account BY <1>2 DEF Base, Types
  <2>3. Elements(accounts') = S /\ Once(a, accounts') BY <2>1, <2>2, LoadedPool
  <2>4. /\ \A m \in Admin : adm'[m].account # a
        /\ store' = store /\ InPool' = Elements(accounts')
    BY <1>2, PoolAssumption DEF Restart, IdleAdmin, Step, InPool, Elements
  <2>5. a \in S <=> a \in store BY <1>2, <2>1
  <2> QED BY <2>3, <2>4, <2>5 DEF Tidy
<1> QED BY <1>1, <1>2 DEF TidyInv

LEMMA TidyStep == Base /\ Aligned /\ TidyInv /\ [Next]_vars => TidyInv'
<1> SUFFICES ASSUME Base, Aligned, TidyInv, [Next]_vars PROVE TidyInv' OBVIOUS
<1>1. ASSUME UNCHANGED <<accounts, adm, store, crossed, astray>> PROVE TidyInv'
  BY <1>1, TidyFrame DEF TidyInv
<1>2. CASE UNCHANGED vars BY <1>1, <1>2 DEF vars, pool, disk
<1>3. ASSUME NEW r \in Request, Select(r) \/ Call(r) \/ Returns(r) \/ Mark(r) \/ Hangup(r)
      PROVE  TidyInv'
  BY <1>1, <1>3, RequestStep
<1>4. CASE Refreshes BY <1>1, <1>4, RefreshStep
<1>5. CASE \E m \in Admin : Administers(m) BY <1>5, TidyAdmin
<1>6. CASE \E w \in Writer : FileStep(w) BY <1>6, TidyFile
<1>7. CASE Restart BY <1>7, TidyFresh
<1> QED BY <1>2, <1>3, <1>4, <1>5, <1>6, <1>7 DEF Next, Refreshes, Administers

\* However saves and deletes of the credential file overlap, pool and file
\* hold the same accounts when no admin request is under way, but for those
\* that PoolMatchesFile names: a restart brings nothing else.
THEOREM RestartBringsNothingNew == Spec => []PoolMatchesFile
<1>1. Init => Base /\ Aligned /\ TidyInv BY FreshBase, AlignedFresh, TidyFresh
<1>2. (Base /\ Aligned /\ TidyInv) /\ [Next]_vars => (Base /\ Aligned /\ TidyInv)'
  BY BaseStep, AlignedStep, TidyStep
<1>3. Base /\ TidyInv => PoolMatchesFile
  <2> SUFFICES ASSUME Base, TidyInv, Quiet, ~crossed, NEW a \in Account \ astray
               PROVE  a \in InPool <=> a \in store
    BY DEF PoolMatchesFile
  <2>1. \A m \in Admin : adm[m].account # a
    BY EndedHasNone, PoolAssumption DEF Base, Quiet
  <2> QED BY <2>1 DEF TidyInv, Tidy
<1> QED BY <1>1, <1>2, <1>3, PTL DEF Spec
==============================================================================

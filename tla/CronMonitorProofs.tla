-------------------------- MODULE CronMonitorProofs --------------------------
(***************************************************************************)
(* Proofs about CronMonitor, for all constants, any number of requests and *)
(* detector runs, and whatever statements fail: the timeout detector never *)
(* overwrites a report made within max_runtime; the counters of a monitor  *)
(* are the recorded outcomes but for those still to be counted; and no     *)
(* deadline has two missed check-ins unless detector runs overlap.         *)
(***************************************************************************)
EXTENDS CronMonitor, FiniteSetTheorems, SequenceTheorems, TLAPS

\* The job had not ended, by its own reports, when max_runtime was over.
Late(c) == \/ c.ended = "late"
           \/ c.ended = "no" /\ c.started_at + MaxRuntime < now

\* What is in progress has not ended; what ended late did so after max_runtime;
\* what the detector has overwritten is late.
RowOK(c) ==
  /\ c.status = "in_progress" => c.ended = "no"
  /\ c.ended = "late" => c.started_at + MaxRuntime < now
  /\ c.overruled => Late(c)

\* What a handler has listed as expired is late, and stays so although the
\* rows change after the list was made.
HandlerOK(h) ==
  /\ h \in ProcType
  /\ h.at = "write" => h.copy \in Monitor
  /\ \A id \in h.todo : Late(checkins[id])
  /\ h.op = "ping" => h.outcome # "in_progress"
  /\ h.op = "missed" => h.outcome = "missed"
  /\ h.op = "timeout" => h.outcome = "timeout"

\* The inductive invariant.
TimeoutsInv ==
  /\ now \in Nat
  /\ monitor \in Monitor
  /\ checkins \in Seq(CheckIn)
  /\ \A i \in 1..Len(checkins) : RowOK(checkins[i])
  /\ procs \in [Proc -> ProcType]
  /\ \A p \in Proc : HandlerOK(procs[p])

\* The constants of the schedule are numbers.
LEMMA ConstantsTyped ==
  /\ Margin \in Nat /\ MaxRuntime \in Nat /\ Period \in Nat /\ Period > 0
  /\ Sent \subseteq CheckInStatus /\ Limited \in BOOLEAN
BY CronMonitorAssumption

\* calculate_next_expected returns a time.
LEMMA NextTyped ==
  ASSUME NEW n \in Nat PROVE calculate_next_expected(n) \in Nat
<1>1. n \div Period \in Nat
  BY ConstantsTyped
<1>2. (n \div Period + 1) * Period \in Nat
  <2> DEFINE k == n \div Period + 1
  <2>1. k \in Nat BY <1>1
  <2> HIDE DEF k
  <2>2. k * Period \in Nat BY <2>1, ConstantsTyped
  <2> QED BY <2>2 DEF k
<1>3. n + Period \in Nat BY ConstantsTyped
<1> QED BY <1>2, <1>3 DEF calculate_next_expected

\* An idle slot is a correct handler.
LEMMA FreeOK == checkins \in Seq(CheckIn) => HandlerOK(Free)
BY DEF HandlerOK, Free, ProcType, CheckInStatus, Detector

\* A step that changes one handler to a correct one, and at most the monitor.
LEMMA OneHandler ==
  ASSUME TimeoutsInv, NEW p \in Proc, NEW h, HandlerOK(h),
         procs' = [procs EXCEPT ![p] = h], monitor' \in Monitor,
         UNCHANGED <<now, checkins>>
  PROVE  TimeoutsInv'
<1>1. h \in ProcType BY DEF HandlerOK
<1>2. procs' \in [Proc -> ProcType] BY <1>1 DEF TimeoutsInv
<1>3. ProcType' = ProcType BY DEF ProcType
<1>4. \A q \in Proc : HandlerOK(procs'[q]) BY DEF TimeoutsInv
<1>5. \A q \in Proc : HandlerOK(procs[q])'
  BY <1>3, <1>4 DEF HandlerOK, Late
<1>6. \A i \in 1..Len(checkins) : RowOK(checkins[i])'
  BY DEF TimeoutsInv, RowOK, Late
<1> QED BY <1>2, <1>3, <1>5, <1>6 DEF TimeoutsInv

\* A request takes a free slot.
LEMMA CallOK ==
  ASSUME TimeoutsInv, NEW h, HandlerOK(h), Call(h)
  PROVE  TimeoutsInv'
<1> DEFINE slot == CHOOSE p \in Request : procs[p] = Free
<1>1. slot \in Proc BY DEF Call, Proc
<1>2. procs' = [procs EXCEPT ![slot] = h] BY DEF Call
<1>3. monitor' \in Monitor /\ UNCHANGED <<now, checkins>>
  BY DEF Call, tables, TimeoutsInv
<1> HIDE DEF slot
<1> QED BY <1>1, <1>2, <1>3, OneHandler

\* When rows are added, or rows that are late stay late, a correct handler
\* stays correct.
LEMMA HandlerKept ==
  ASSUME TimeoutsInv, NEW h, HandlerOK(h), checkins' \in Seq(CheckIn),
         Len(checkins) <= Len(checkins'),
         \A i \in 1..Len(checkins) : Late(checkins[i]) => Late(checkins[i])'
  PROVE  HandlerOK(h)'
<1>1. Len(checkins) \in Nat /\ Len(checkins') \in Nat BY DEF TimeoutsInv
<1>2. h \in ProcType' BY <1>1 DEF HandlerOK, ProcType
<1>3. h.todo \subseteq 1..Len(checkins) BY DEF HandlerOK, ProcType
<1> QED BY <1>2, <1>3 DEF HandlerOK

\* Time goes on: what is late stays late.
LEMMA TickOK == TimeoutsInv /\ Tick => TimeoutsInv'
<1> SUFFICES ASSUME TimeoutsInv, Tick PROVE TimeoutsInv'
  OBVIOUS
<1>1. now' \in Nat /\ now < now' /\ UNCHANGED <<monitor, checkins, procs>>
  BY DEF Tick, TimeoutsInv, tables
<1>2. \A i \in 1..Len(checkins) : checkins[i] \in CheckIn
  BY DEF TimeoutsInv
<1>3. \A i \in 1..Len(checkins) : Late(checkins[i]) => Late(checkins[i])'
  BY <1>1, <1>2, ConstantsTyped DEF Late, CheckIn, TimeoutsInv
<1>4. \A i \in 1..Len(checkins) : RowOK(checkins[i])'
  <2>1. ASSUME NEW c \in CheckIn, c.started_at + MaxRuntime < now
        PROVE  c.started_at + MaxRuntime < now'
    BY <1>1, <2>1, ConstantsTyped DEF CheckIn, TimeoutsInv
  <2> QED BY <1>1, <1>2, <1>3, <2>1 DEF RowOK, TimeoutsInv
<1>5. checkins' \in Seq(CheckIn) /\ Len(checkins) <= Len(checkins')
  BY <1>1 DEF TimeoutsInv
<1>6. \A p \in Proc : HandlerOK(procs[p])'
  <2> TAKE p \in Proc
  <2>1. HandlerOK(procs[p]) BY DEF TimeoutsInv
  <2> DEFINE h == procs[p]
  <2> HIDE DEF h
  <2>2. HandlerOK(h)' BY <2>1, <1>1, <1>3, <1>5, HandlerKept DEF h
  <2> QED BY <2>2, <1>1 DEF h
<1> QED BY <1>1, <1>4, <1>6 DEF TimeoutsInv, ProcType

\* A ping begins with a correct handler.
LEMMA PingOK ==
  ASSUME TimeoutsInv, NEW outcome \in Sent \ {"in_progress"},
         NEW started \in {0, now}, Ping(outcome, started)
  PROVE  TimeoutsInv'
<1> DEFINE next == calculate_next_expected(now)
           h == [op |-> "ping", at |-> "record", outcome |-> outcome,
                 started |-> started, id |-> 0,
                 next |-> next, due |-> 0, copy |-> <<>>, todo |-> {}]
<1>0. started \in Nat /\ outcome \in CheckInStatus /\ outcome # "in_progress"
  BY ConstantsTyped DEF TimeoutsInv
<1>1. next \in Nat BY NextTyped DEF TimeoutsInv
<1>2. PICK new : Call(new) /\ new = [Free EXCEPT !.op = "ping", !.at = "record",
                                      !.outcome = outcome, !.started = started,
                                      !.next = next]
  BY DEF Ping
<1> HIDE DEF next
<1>3. new = h BY <1>2 DEF Free
<1>4. h \in ProcType
  <2>1. 0 \in 0..Len(checkins) BY DEF TimeoutsInv
  <2> QED BY <1>0, <1>1, <2>1 DEF ProcType, Detector
<1>5. HandlerOK(h) BY <1>0, <1>4 DEF HandlerOK
<1> HIDE DEF h
<1> QED BY <1>2, <1>3, <1>5, CallOK

\* So does a report, which names a check-in that exists.
LEMMA ReportOK ==
  ASSUME TimeoutsInv, NEW outcome \in Sent,
         NEW id \in 1..Len(checkins), Report(id, outcome)
  PROVE  TimeoutsInv'
<1> DEFINE next == calculate_next_expected(now)
           h == [op |-> "report", at |-> "record", outcome |-> outcome,
                 started |-> 0, id |-> id,
                 next |-> next, due |-> 0, copy |-> <<>>, todo |-> {}]
<1>0. outcome \in CheckInStatus BY ConstantsTyped
<1>1. next \in Nat BY NextTyped DEF TimeoutsInv
<1>2. PICK new : Call(new) /\ new = [Free EXCEPT !.op = "report", !.at = "record",
                                      !.outcome = outcome, !.id = id,
                                      !.next = next]
  BY DEF Report
<1> HIDE DEF next
<1>3. new = h BY <1>2 DEF Free
<1>4. h \in ProcType
  <2>1. id \in 0..Len(checkins) BY DEF TimeoutsInv
  <2> QED BY <1>0, <1>1, <2>1 DEF ProcType, Detector
<1>5. HandlerOK(h) BY <1>4 DEF HandlerOK
<1> HIDE DEF h
<1> QED BY <1>2, <1>3, <1>5, CallOK

\* So do pause, resume and update, with a copy of the monitor.
LEMMA ChangeOK ==
  ASSUME TimeoutsInv, NEW op \in {"pause", "resume", "update"},
         NEW limited \in BOOLEAN, Change(op, limited)
  PROVE  TimeoutsInv'
<1> DEFINE copy == Changed(op, limited)
           h == [op |-> op, at |-> "write", outcome |-> "ok", started |-> 0,
                 id |-> 0, next |-> 0, due |-> 0, copy |-> copy, todo |-> {}]
<1>1. calculate_next_expected(now) \in Nat BY NextTyped DEF TimeoutsInv
<1>2. copy \in Monitor BY <1>1 DEF Changed, Monitor, TimeoutsInv
<1>3. PICK new : Call(new) /\ new = [Free EXCEPT !.op = op, !.at = "write",
                                      !.copy = copy]
  BY DEF Change
<1> HIDE DEF copy
<1>4. new = h BY <1>3 DEF Free
<1>5. h \in ProcType
  <2>1. 0 \in 0..Len(checkins) BY DEF TimeoutsInv
  <2> QED BY <1>2, <2>1 DEF ProcType, CheckInStatus, Detector
<1>6. HandlerOK(h) BY <1>2, <1>5 DEF HandlerOK
<1> HIDE DEF h
<1> QED BY <1>3, <1>4, <1>6, CallOK

\* A check-in the query lists is late: it is in progress, so not reported.
LEMMA ListingOK ==
  ASSUME TimeoutsInv, NEW op \in Detector
  PROVE  HandlerOK(Listing(op))
<1>1. 0 \in 0..Len(checkins) BY DEF TimeoutsInv
<1>2. CASE op = "missed"
  <2> DEFINE next == calculate_next_expected(now)
             due == monitor.next_at
             h == [op |-> "missed", at |-> "record", outcome |-> "missed",
                   started |-> 0, id |-> 0, next |-> next, due |-> due, copy |-> <<>>, todo |-> {}]
  <2>1. next \in Nat BY NextTyped DEF TimeoutsInv
  <2>2. due \in Nat BY DEF TimeoutsInv, Monitor
  <2>3. Listing(op) = [Free EXCEPT !.op = "missed", !.at = "record",
                          !.outcome = "missed", !.next = next, !.due = due]
    BY <1>2 DEF Listing
  <2> HIDE DEF next, due
  <2>4. Listing(op) = h BY <2>3 DEF Free
  <2>5. h \in ProcType BY <1>1, <2>1, <2>2 DEF ProcType, CheckInStatus, Detector
  <2>6. HandlerOK(h) BY <2>5 DEF HandlerOK
  <2> QED BY <2>4, <2>6
<1>3. CASE op = "timeout"
  <2> DEFINE expired == {id \in 1..Len(checkins) : TimedOut(checkins[id], now)}
             h == [op |-> "timeout", at |-> "record", outcome |-> "timeout",
                   started |-> 0, id |-> 0, next |-> 0, due |-> 0, copy |-> <<>>, todo |-> expired]
  <2>1. \A id \in expired : Late(checkins[id])
    BY DEF TimedOut, Late, RowOK, TimeoutsInv
  <2>2. expired \in SUBSET (1..Len(checkins)) OBVIOUS
  <2>3. Listing(op) = [Free EXCEPT !.op = "timeout", !.at = "record",
                          !.outcome = "timeout", !.todo = expired]
    BY <1>3 DEF Listing
  <2> HIDE DEF expired
  <2>4. Listing(op) = h BY <2>3 DEF Free
  <2>5. h \in ProcType BY <1>1, <2>2 DEF ProcType, CheckInStatus, Detector
  <2>6. HandlerOK(h) BY <2>1, <2>5 DEF HandlerOK
  <2> QED BY <2>4, <2>6
<1> QED BY <1>2, <1>3 DEF Detector

\* A detector begins with its listing, from the scheduler or triggered.
LEMMA DetectorOK ==
  ASSUME TimeoutsInv, NEW op \in Detector, Trigger(op) \/ RunDetector(op)
  PROVE  TimeoutsInv'
<1>1. HandlerOK(Listing(op)) BY ListingOK
<1>2. CASE Trigger(op)
  BY <1>1, <1>2, CallOK DEF Trigger
<1>3. CASE RunDetector(op)
  <2>1. op \in Proc BY DEF Proc
  <2>2. procs' = [procs EXCEPT ![op] = Listing(op)] BY <1>3 DEF RunDetector
  <2>3. monitor' \in Monitor /\ UNCHANGED <<now, checkins>>
    BY <1>3 DEF RunDetector, tables, TimeoutsInv
  <2> QED BY <1>1, <2>1, <2>2, <2>3, OneHandler
<1> QED BY <1>2, <1>3

\* What a step that writes rows needs: late rows stay late, the rows of the
\* result are correct, and so is the handler that goes on.
LEMMA RowsOK ==
  ASSUME TimeoutsInv, NEW p \in Proc, NEW h, HandlerOK(h),
         procs' = [procs EXCEPT ![p] = h], UNCHANGED <<now, monitor>>,
         checkins' \in Seq(CheckIn), Len(checkins) <= Len(checkins'),
         \A i \in 1..Len(checkins) : Late(checkins[i]) => Late(checkins[i])',
         \A i \in 1..Len(checkins') : RowOK(checkins[i])'
  PROVE  TimeoutsInv'
<1>1. \A q \in Proc : HandlerOK(procs'[q]) BY DEF TimeoutsInv
<1>2. ASSUME NEW q \in Proc PROVE HandlerOK(procs[q])'
  <2>1. ASSUME NEW f, HandlerOK(f) PROVE HandlerOK(f)'
    BY <2>1, HandlerKept
  <2> QED BY <1>1, <2>1 DEF HandlerOK, ProcType, Late
<1>3. procs' \in [Proc -> ProcType']
  <2>1. \A q \in Proc : procs'[q] \in ProcType' BY <1>2 DEF HandlerOK
  <2>2. procs' = [q \in Proc |-> procs'[q]] BY DEF TimeoutsInv
  <2> QED BY <2>1, <2>2
<1> QED BY <1>2, <1>3 DEF TimeoutsInv

\* A new row: the old ones keep their place.
LEMMA AppendedRow ==
  ASSUME TimeoutsInv, NEW row \in CheckIn, checkins' = Append(checkins, row),
         UNCHANGED now, RowOK(row)
  PROVE  /\ checkins' \in Seq(CheckIn)
         /\ Len(checkins) <= Len(checkins')
         /\ \A i \in 1..Len(checkins) : Late(checkins[i]) => Late(checkins[i])'
         /\ \A i \in 1..Len(checkins') : RowOK(checkins[i])'
<1>1. /\ checkins' \in Seq(CheckIn)
      /\ Len(checkins') = Len(checkins) + 1
      /\ Len(checkins) \in Nat
      /\ \A i \in 1..Len(checkins) : checkins'[i] = checkins[i]
      /\ checkins'[Len(checkins) + 1] = row
  BY AppendProperties DEF TimeoutsInv
<1>2. \A i \in 1..Len(checkins') : i \in 1..Len(checkins) \/ i = Len(checkins) + 1
  BY <1>1
<1>3. \A i \in 1..Len(checkins') : RowOK(checkins'[i])
  BY <1>1, <1>2 DEF TimeoutsInv
<1>4. \A i \in 1..Len(checkins') : RowOK(checkins[i])'
  BY <1>3 DEF RowOK, Late
<1>5. \A i \in 1..Len(checkins) : Late(checkins[i]) => Late(checkins[i])'
  BY <1>1 DEF Late
<1> QED BY <1>1, <1>4, <1>5

\* A start inserts a check-in that is in progress and not reported.
LEMMA StartOK == TimeoutsInv /\ Start => TimeoutsInv'
<1> SUFFICES ASSUME TimeoutsInv, Start PROVE TimeoutsInv'
  OBVIOUS
<1> DEFINE row == [status |-> "in_progress", started_at |-> now,
                   due |-> 0, ended |-> "no", overruled |-> FALSE]
<1>1. row \in CheckIn BY DEF CheckIn, CheckInStatus, TimeoutsInv
<1>2. RowOK(row) BY DEF RowOK
<1>3. checkins' = Append(checkins, row) /\ UNCHANGED <<now, monitor, procs>>
  BY DEF Start
<1> HIDE DEF row
<1>4. /\ checkins' \in Seq(CheckIn)
      /\ Len(checkins) <= Len(checkins')
      /\ \A i \in 1..Len(checkins) : Late(checkins[i]) => Late(checkins[i])'
      /\ \A i \in 1..Len(checkins') : RowOK(checkins[i])'
  BY <1>1, <1>2, <1>3, AppendedRow
<1>5. \A p \in Proc : HandlerOK(procs[p])'
  <2> TAKE p \in Proc
  <2>1. HandlerOK(procs[p]) BY DEF TimeoutsInv
  <2> DEFINE h == procs[p]
  <2> HIDE DEF h
  <2>2. HandlerOK(h)' BY <2>1, <1>4, HandlerKept, <1>3 DEF h
  <2> QED BY <2>2, <1>3 DEF h
<1>6. procs' \in [Proc -> ProcType']
  <2>1. \A q \in Proc : procs'[q] \in ProcType' BY <1>5 DEF HandlerOK
  <2>2. procs' = [q \in Proc |-> procs'[q]] BY <1>3 DEF TimeoutsInv
  <2> QED BY <2>1, <2>2
<1> QED BY <1>3, <1>4, <1>5, <1>6 DEF TimeoutsInv

\* The handler inserts its check-in: what has ended late is late.
LEMMA RecordNewOK ==
  ASSUME TimeoutsInv, NEW p \in Proc, RecordNew(p)
  PROVE  TimeoutsInv'
<1> DEFINE old == procs[p]
           h == [old EXCEPT !.at = "health", !.started = 0, !.due = 0]
           row == [status |-> old.outcome, started_at |-> old.started,
                   due |-> old.due,
                   ended |-> IF old.op = "ping" THEN Punctual(old.started) ELSE "no",
                   overruled |-> FALSE]
<1>1. HandlerOK(old) BY DEF TimeoutsInv
<1>2. /\ old.op \in {"ping", "missed"} /\ checkins' = Append(checkins, row)
      /\ procs' = [procs EXCEPT ![p] = h] /\ UNCHANGED <<now, monitor>>
  BY DEF RecordNew, TimeoutsInv
<1> HIDE DEF old
<1>3. row \in CheckIn BY <1>1 DEF HandlerOK, ProcType, CheckIn, Punctual
<1>4. RowOK(row)
  <2>1. old.started \in Nat /\ now \in Nat BY <1>1 DEF HandlerOK, ProcType, TimeoutsInv
  <2>2. row.status = "in_progress" => row.ended = "no"
    BY <1>1, <1>2 DEF HandlerOK
  <2>3. row.ended = "late" => row.started_at + MaxRuntime < now
    BY <2>1, ConstantsTyped DEF Punctual
  <2> QED BY <2>2, <2>3 DEF RowOK
<1>5. HandlerOK(h) BY <1>1 DEF HandlerOK, ProcType
<1> HIDE DEF h, row
<1>6. /\ checkins' \in Seq(CheckIn)
      /\ Len(checkins) <= Len(checkins')
      /\ \A i \in 1..Len(checkins) : Late(checkins[i]) => Late(checkins[i])'
      /\ \A i \in 1..Len(checkins') : RowOK(checkins[i])'
  BY <1>2, <1>3, <1>4, AppendedRow
<1> QED BY <1>2, <1>5, <1>6, RowsOK

\* The handler overwrites a check-in.  A report may come after the detector
\* has listed the row, but then the row was late before, and stays late; the
\* detector overwrites only rows of its list.
LEMMA RecordOverOK ==
  ASSUME TimeoutsInv, NEW p \in Proc, NEW id \in 1..Len(checkins),
         RecordOver(p, id)
  PROVE  TimeoutsInv'
<1> DEFINE old == procs[p]
           was == checkins[id]
           h == [old EXCEPT !.at = "health", !.id = 0, !.todo = @ \ {id}]
           row == [was EXCEPT !.status = old.outcome, !.ended = Ended(old, was),
                              !.overruled = (old.op = "timeout")]
<1>1. HandlerOK(old) BY DEF TimeoutsInv
<1>2. was \in CheckIn /\ RowOK(was) BY DEF TimeoutsInv
<1>3. checkins \in Seq(CheckIn) /\ Len(checkins) \in Nat /\ now \in Nat
  BY DEF TimeoutsInv
<1>4. /\ \/ old.op = "report"
         \/ old.op = "timeout" /\ id \in old.todo
      /\ checkins' = [checkins EXCEPT ![id] = row]
      /\ procs' = [procs EXCEPT ![p] = h] /\ UNCHANGED <<now, monitor>>
  BY <1>3 DEF RecordOver, TimeoutsInv
<1>5. old.op = "timeout" => Late(was) BY <1>1, <1>4 DEF HandlerOK
<1> HIDE DEF old, was
<1>a. /\ row.status = old.outcome /\ row.ended = Ended(old, was)
      /\ row.started_at = was.started_at /\ row.overruled = (old.op = "timeout")
  BY <1>2 DEF CheckIn
<1>b. /\ old.outcome \in CheckInStatus /\ was.started_at \in Nat
      /\ was.ended \in {"no", "timely", "late"}
  BY <1>1, <1>2 DEF HandlerOK, ProcType, CheckIn
<1>c. Ended(old, was) \in {"no", "timely", "late"}
  BY <1>4, <1>b DEF Ended, Punctual
<1>6. row \in CheckIn BY <1>2, <1>b, <1>c DEF CheckIn
<1>d. Punctual(was.started_at) = "late" <=> was.started_at + MaxRuntime < now
  BY <1>3, <1>b, ConstantsTyped DEF Punctual
<1>e. Punctual(was.started_at) # "no" BY DEF Punctual
<1>7. Late(was) => Late(row)
  <2>1. CASE old.op = "timeout" BY <1>a, <2>1 DEF Late, Ended
  <2>2. CASE old.op = "report" /\ old.outcome = "in_progress"
    BY <1>2, <1>a, <2>2 DEF Late, Ended, RowOK
  <2>3. CASE old.op = "report" /\ old.outcome # "in_progress"
    BY <1>a, <1>d, <2>3 DEF Late, Ended
  <2> QED BY <1>4, <2>1, <2>2, <2>3
<1>8. RowOK(row)
  <2>1. row.status = "in_progress" => row.ended = "no"
    BY <1>1, <1>4, <1>a DEF HandlerOK, Ended
  <2>2. row.ended = "late" => row.started_at + MaxRuntime < now
    BY <1>2, <1>4, <1>a, <1>d DEF Ended, RowOK
  <2>3. row.overruled => Late(row)
    BY <1>5, <1>7, <1>a
  <2> QED BY <2>1, <2>2, <2>3 DEF RowOK
<1>9. HandlerOK(h)
  <2>1. old \in ProcType /\ 0 \in 0..Len(checkins) BY <1>1, <1>3 DEF HandlerOK
  <2>2. old.todo \ {id} \in SUBSET (1..Len(checkins)) BY <2>1 DEF ProcType
  <2>3. h \in ProcType BY <2>1, <2>2 DEF ProcType
  <2> QED BY <1>1, <2>3 DEF HandlerOK, ProcType
<1> HIDE DEF h, row
<1>10. /\ checkins' \in Seq(CheckIn) /\ Len(checkins') = Len(checkins)
       /\ \A i \in 1..Len(checkins) :
            checkins'[i] = IF i = id THEN row ELSE checkins[i]
  BY <1>3, <1>4, <1>6, ExceptSeq
<1>11. \A i \in 1..Len(checkins) : Late(checkins[i]) => Late(checkins'[i])
  BY <1>7, <1>10 DEF was
<1>12. \A i \in 1..Len(checkins') : RowOK(checkins'[i])
  BY <1>8, <1>10 DEF TimeoutsInv
<1>13. \A i \in 1..Len(checkins) : Late(checkins[i]) => Late(checkins[i])'
  BY <1>4, <1>11 DEF Late
<1>14. \A i \in 1..Len(checkins') : RowOK(checkins[i])'
  BY <1>4, <1>12 DEF RowOK, Late
<1>15. Len(checkins) <= Len(checkins') BY <1>3, <1>10
<1> QED BY <1>4, <1>9, <1>10, <1>13, <1>14, <1>15, RowsOK

\* What is left of a detector's list is still a correct handler.
LEMMA RestOK ==
  ASSUME TimeoutsInv, NEW h, HandlerOK(h), NEW S
  PROVE  HandlerOK(Rest([h EXCEPT !.todo = @ \ S])) /\ HandlerOK(Rest(h))
<1>1. HandlerOK(Free) BY FreeOK DEF TimeoutsInv
<1>2. ASSUME NEW g, g.todo \subseteq h.todo PROVE HandlerOK(Rest(g))
  <2>1. CASE g.todo = {} BY <1>1, <2>1 DEF Rest
  <2>2. CASE g.todo # {}
    <3> DEFINE r == [op |-> "timeout", at |-> "record", outcome |-> "timeout",
                     started |-> 0, id |-> 0, next |-> 0, due |-> 0,
                     copy |-> <<>>, todo |-> g.todo]
    <3>1. Rest(g) = r BY <2>2 DEF Rest, Free
    <3>2. h.todo \subseteq 1..Len(checkins) BY DEF HandlerOK, ProcType
    <3>3. 0 \in 0..Len(checkins) BY DEF TimeoutsInv
    <3>4. r \in ProcType
      BY <1>2, <3>2, <3>3 DEF ProcType, CheckInStatus, Detector
    <3>5. HandlerOK(r) BY <1>2, <3>4 DEF HandlerOK
    <3> QED BY <3>1, <3>5
  <2> QED BY <2>1, <2>2
<1>3. [h EXCEPT !.todo = @ \ S].todo \subseteq h.todo
  BY DEF HandlerOK, ProcType
<1> QED BY <1>2, <1>3

\* A handler goes on after it has written the health.
LEMMA AfterHealthOK ==
  ASSUME NEW h, HandlerOK(h) PROVE HandlerOK(AfterHealth(h))
BY DEF HandlerOK, ProcType, AfterHealth

\* The same after the last check-in has been written.
LEMMA StatsNextOK ==
  ASSUME NEW h, HandlerOK(h)
  PROVE  HandlerOK([h EXCEPT !.at = "stats", !.next = 0])
BY DEF HandlerOK, ProcType

\* The same when the monitor cannot be read again.
LEMMA RereadOK ==
  ASSUME TimeoutsInv, NEW p \in Proc, RereadFails(p)
  PROVE  TimeoutsInv'
<1>1. PICK old : old = procs[p] /\ HandlerOK(old) BY DEF TimeoutsInv
<1>2. PICK h : h = [old EXCEPT !.next = 0] OBVIOUS
<1>3. HandlerOK(h) BY <1>1, <1>2 DEF HandlerOK, ProcType
<1>4. procs' = [procs EXCEPT ![p] = h] BY <1>1, <1>2 DEF RereadFails, TimeoutsInv
<1>5. monitor' \in Monitor /\ UNCHANGED <<now, checkins>>
  BY DEF RereadFails, tables, TimeoutsInv
<1> QED BY <1>3, <1>4, <1>5, OneHandler

\* The statements on the monitor leave the check-ins alone.
LEMMA WriteOK ==
  ASSUME TimeoutsInv, NEW p \in Proc,
         WriteHealth(p) \/ WriteLast(p) \/ WriteStats(p) \/ WriteMonitor(p)
  PROVE  TimeoutsInv'
<1> DEFINE old == procs[p]
<1>1. HandlerOK(old) /\ monitor \in Monitor /\ now \in Nat BY DEF TimeoutsInv
<1>2. CASE WriteHealth(p)
  <2>1. /\ monitor' = [monitor EXCEPT !.health = HealthOf(old)]
        /\ procs' = [procs EXCEPT ![p] = AfterHealth(old)]
        /\ UNCHANGED <<now, checkins>>
    BY <1>2 DEF WriteHealth, TimeoutsInv
  <2>2. HealthOf(old) \in Health BY DEF HealthOf, Health, Detector
  <2>3. monitor' \in Monitor BY <1>1, <2>1, <2>2 DEF Monitor
  <2> HIDE DEF old
  <2>4. HandlerOK(AfterHealth(old)) BY <1>1, AfterHealthOK
  <2> QED BY <2>1, <2>3, <2>4, OneHandler
<1>3. CASE WriteLast(p)
  <2> DEFINE h == [old EXCEPT !.at = "stats", !.next = 0]
  <2>1. /\ monitor' = [monitor EXCEPT !.last_at = now, !.next_at = old.next]
        /\ procs' = [procs EXCEPT ![p] = h]
        /\ UNCHANGED <<now, checkins>>
    BY <1>3 DEF WriteLast, TimeoutsInv
  <2> HIDE DEF old
  <2>2. old.next \in Nat BY <1>1 DEF HandlerOK, ProcType
  <2>3. monitor' \in Monitor BY <1>1, <2>1, <2>2 DEF Monitor
  <2>4. HandlerOK(h) BY <1>1, StatsNextOK
  <2> HIDE DEF h
  <2> QED BY <2>1, <2>3, <2>4, OneHandler
<1>4. CASE WriteStats(p)
  <2>1. /\ monitor' = Incremented(monitor, is_failure(old.outcome))
        /\ procs' = [procs EXCEPT ![p] = Rest(old)]
        /\ UNCHANGED <<now, checkins>>
    BY <1>4 DEF WriteStats, TimeoutsInv
  <2> HIDE DEF old
  <2>2. monitor' \in Monitor
    <3> DEFINE total == monitor.total + 1
               failures == monitor.failures + 1
               consecutive == monitor.consecutive + 1
    <3>1. total \in Nat /\ failures \in Nat /\ consecutive \in Nat
      BY <1>1 DEF Monitor
    <3>2. \/ monitor' = [monitor EXCEPT !.total = total, !.failures = failures,
                                        !.consecutive = consecutive]
          \/ monitor' = [monitor EXCEPT !.total = total, !.consecutive = 0]
      BY <2>1 DEF Incremented
    <3> HIDE DEF total, failures, consecutive
    <3>3. CASE monitor' = [monitor EXCEPT !.total = total, !.failures = failures,
                                          !.consecutive = consecutive]
      BY <1>1, <3>1, <3>3 DEF Monitor
    <3>4. CASE monitor' = [monitor EXCEPT !.total = total, !.consecutive = 0]
      BY <1>1, <3>1, <3>4 DEF Monitor
    <3> QED BY <3>2, <3>3, <3>4
  <2>3. HandlerOK(Rest(old)) BY <1>1, RestOK
  <2> QED BY <2>1, <2>2, <2>3, OneHandler
<1>5. CASE WriteMonitor(p)
  <2>1. /\ old.at = "write"
        /\ monitor' = Stored(monitor, old.copy)
        /\ procs' = [procs EXCEPT ![p] = Free]
        /\ UNCHANGED <<now, checkins>>
    BY <1>5 DEF WriteMonitor
  <2> HIDE DEF old
  <2>2. old.copy \in Monitor BY <1>1, <2>1 DEF HandlerOK
  <2>3. monitor' \in Monitor BY <1>1, <2>1, <2>2 DEF Stored, Monitor
  <2>4. HandlerOK(Free) BY FreeOK DEF TimeoutsInv
  <2> QED BY <2>1, <2>3, <2>4, OneHandler
<1> QED BY <1>2, <1>3, <1>4, <1>5

\* A failing statement lets the handler go on, or ends it.
LEMMA FailsOK ==
  ASSUME TimeoutsInv, NEW p \in Proc, StatementFails(p)
  PROVE  TimeoutsInv'
<1> DEFINE old == procs[p]
<1>1. HandlerOK(old) BY DEF TimeoutsInv
<1>2. monitor' \in Monitor /\ UNCHANGED <<now, checkins>>
  BY DEF StatementFails, tables, TimeoutsInv
<1>3. \E h : HandlerOK(h) /\ procs' = [procs EXCEPT ![p] = h]
  <2>1. old.at \in {"record", "health", "last", "stats", "write"}
    BY <1>1 DEF HandlerOK, ProcType, StatementFails
  <2>2. CASE old.at = "write"
    <3>1. procs' = [procs EXCEPT ![p] = Free] BY <2>2 DEF StatementFails
    <3>2. HandlerOK(Free) BY FreeOK DEF TimeoutsInv
    <3> QED BY <3>1, <3>2
  <2>3. CASE old.at = "record"
    <3>1. PICK id :
            procs' = [procs EXCEPT ![p] = Rest([old EXCEPT !.todo = @ \ {id}])]
      BY <2>3 DEF StatementFails, TimeoutsInv
    <3> HIDE DEF old
    <3>2. HandlerOK(Rest([old EXCEPT !.todo = @ \ {id}])) BY <1>1, RestOK
    <3> QED BY <3>1, <3>2
  <2>4. CASE old.at = "health"
    <3>1. procs' = [procs EXCEPT ![p] = AfterHealth(old)]
      BY <2>4 DEF StatementFails, TimeoutsInv
    <3> HIDE DEF old
    <3>2. HandlerOK(AfterHealth(old)) BY <1>1, AfterHealthOK
    <3> QED BY <3>1, <3>2
  <2>5. CASE old.at = "last"
    <3>1. procs' = [procs EXCEPT ![p] = [old EXCEPT !.at = "stats", !.next = 0]]
      BY <2>5 DEF StatementFails, TimeoutsInv
    <3> HIDE DEF old
    <3>2. HandlerOK([old EXCEPT !.at = "stats", !.next = 0])
      BY <1>1, StatsNextOK
    <3> QED BY <3>1, <3>2
  <2>6. CASE old.at = "stats"
    <3>1. procs' = [procs EXCEPT ![p] = Rest(old)]
      BY <2>6 DEF StatementFails, TimeoutsInv
    <3> HIDE DEF old
    <3>2. HandlerOK(Rest(old)) BY <1>1, RestOK
    <3> QED BY <3>1, <3>2
  <2> QED BY <2>1, <2>2, <2>3, <2>4, <2>5, <2>6
<1> QED BY <1>2, <1>3, OneHandler

\* Handlers that are dropped leave free slots.
LEMMA GoneOK == ASSUME TimeoutsInv, NEW ps, Gone(ps) PROVE TimeoutsInv'
<1>1. /\ procs' = [p \in Proc |-> IF p \in ps THEN Free ELSE procs[p]]
      /\ UNCHANGED <<now, monitor, checkins>>
  BY DEF Gone, tables
<1>2. HandlerOK(Free) BY FreeOK DEF TimeoutsInv
<1>3. \A q \in Proc : HandlerOK(procs'[q]) BY <1>1, <1>2 DEF TimeoutsInv
<1>4. ProcType' = ProcType BY <1>1 DEF ProcType
<1>5. \A q \in Proc : HandlerOK(procs[q])'
  BY <1>1, <1>3, <1>4 DEF HandlerOK, Late
<1>6. \A i \in 1..Len(checkins) : RowOK(checkins[i])'
  BY <1>1 DEF TimeoutsInv, RowOK, Late
<1>7. procs' \in [Proc -> ProcType]
  BY <1>1, <1>3 DEF HandlerOK
<1> QED BY <1>1, <1>4, <1>5, <1>6, <1>7 DEF TimeoutsInv

\* The inductive invariant holds of the specification: every action of
\* CronMonitor keeps it.
THEOREM TimeoutsInvariant == Spec => []TimeoutsInv
<1>1. Init => TimeoutsInv
  <2> SUFFICES ASSUME Init PROVE TimeoutsInv
    OBVIOUS
  <2>1. checkins \in Seq(CheckIn) /\ Len(checkins) = 0 /\ now \in Nat
    BY DEF Init
  <2>2. monitor \in Monitor
    BY NextTyped, ConstantsTyped DEF Init, NewMonitor, Monitor, Health
  <2>3. HandlerOK(Free) BY <2>1, FreeOK
  <2>4. \A p \in Proc : HandlerOK(procs[p]) BY <2>3 DEF Init
  <2>5. procs \in [Proc -> ProcType] BY <2>3 DEF Init, HandlerOK
  <2> QED BY <2>1, <2>2, <2>4, <2>5 DEF TimeoutsInv
<1>2. TimeoutsInv /\ [Next]_vars => TimeoutsInv'
  <2> SUFFICES ASSUME TimeoutsInv, [Next]_vars PROVE TimeoutsInv'
    OBVIOUS
  <2>1. CASE Tick BY <2>1, TickOK
  <2>2. CASE Start BY <2>2, StartOK
  <2>3. ASSUME NEW outcome \in Sent \ {"in_progress"}, NEW started \in {0, now},
               Ping(outcome, started)
        PROVE  TimeoutsInv'
    BY <2>3, PingOK
  <2>4. ASSUME NEW outcome \in Sent, NEW id \in 1..Len(checkins),
               Report(id, outcome)
        PROVE  TimeoutsInv'
    BY <2>4, ReportOK
  <2>5. ASSUME NEW op \in {"pause", "resume", "update"}, NEW limited \in BOOLEAN,
               Change(op, limited)
        PROVE  TimeoutsInv'
    BY <2>5, ChangeOK
  <2>6. ASSUME NEW op \in Detector, Trigger(op) \/ RunDetector(op)
        PROVE  TimeoutsInv'
    BY <2>6, DetectorOK
  <2>7. ASSUME NEW p \in Proc, Statement(p) PROVE TimeoutsInv'
    <3>1. CASE RecordNew(p) BY <3>1, RecordNewOK
    <3>2. CASE \E id \in 1..Len(checkins) : RecordOver(p, id)
      BY <3>2, RecordOverOK
    <3>3. CASE WriteHealth(p) \/ WriteLast(p) \/ WriteStats(p) \/ WriteMonitor(p)
      BY <3>3, WriteOK
    <3> QED BY <2>7, <3>1, <3>2, <3>3 DEF Statement
  <2>8. ASSUME NEW p \in Proc, StatementFails(p) PROVE TimeoutsInv'
    BY <2>8, FailsOK
  <2>9. ASSUME NEW ps, Gone(ps) PROVE TimeoutsInv'
    BY <2>9, GoneOK
  <2>11. ASSUME NEW p \in Proc, RereadFails(p) PROVE TimeoutsInv'
    BY <2>11, RereadOK
  <2>10. CASE UNCHANGED vars
    BY <2>10 DEF vars, TimeoutsInv, HandlerOK, RowOK, Late, ProcType
  <2> QED
    BY <2>1, <2>2, <2>3, <2>4, <2>5, <2>6, <2>7, <2>8, <2>9, <2>10, <2>11
       DEF Next
<1> QED BY <1>1, <1>2, PTL DEF Spec

\* The timeout detector never overwrites a report that the job has ended which
\* was written within max_runtime, for every schedule, margin and run time, any
\* statuses the clients send, any number of requests and detector runs at once,
\* and any pattern of failures (cron_timeout.rs, list_timed_out_checkins).
THEOREM TimelyReports == Spec => []TimelyReportsStand
<1>1. TimeoutsInv => TimelyReportsStand
  BY DEF TimeoutsInv, RowOK, Late, TimelyReportsStand
<1> QED BY <1>1, TimeoutsInvariant, PTL

------------------------------------------------------------------------------
(* The counters                                                             *)

\* The handlers that have recorded an outcome and not counted it.
Failing == {p \in Proc : Uncounted(procs[p]) /\ is_failure(procs[p].outcome)}
Passing == {p \in Proc : Uncounted(procs[p]) /\ ~ is_failure(procs[p].outcome)}

\* The outcomes owed, as numbers.
OwedFailures == owed[TRUE]
OwedPasses == owed[FALSE]

\* The inductive invariant of the counters: they lag behind the recorded
\* outcomes by exactly these handlers.
CountInv ==
  /\ IsFiniteSet(Failing) /\ IsFiniteSet(Passing)
  /\ owed \in [BOOLEAN -> Nat]
  /\ monitor.failures + Cardinality(Failing) = OwedFailures
  /\ monitor.failures <= monitor.total
  /\ monitor.total - monitor.failures + Cardinality(Passing) = OwedPasses
  /\ monitor.consecutive <= monitor.failures

\* The monitor's counters are not touched.
SameCounters ==
  /\ monitor'.total = monitor.total /\ monitor'.failures = monitor.failures
  /\ monitor'.consecutive = monitor.consecutive

\* The sizes of the sets and the counters are numbers.
LEMMA CountsTyped ==
  ASSUME TimeoutsInv, CountInv
  PROVE  /\ Cardinality(Failing) \in Nat /\ Cardinality(Passing) \in Nat
         /\ OwedFailures \in Nat /\ OwedPasses \in Nat
         /\ monitor.total \in Nat /\ monitor.failures \in Nat
         /\ monitor.consecutive \in Nat
<1>1. Cardinality(Failing) \in Nat /\ Cardinality(Passing) \in Nat
  BY FS_CardinalityType DEF CountInv
<1>2. OwedFailures \in Nat /\ OwedPasses \in Nat
  BY DEF CountInv, OwedFailures, OwedPasses
<1>3. monitor \in Monitor BY DEF TimeoutsInv
<1> QED BY <1>1, <1>2, <1>3 DEF Monitor

\* Who lags behind after a step of one handler.
LEMMA OneLags ==
  ASSUME TimeoutsInv, NEW p \in Proc, NEW h, procs' = [procs EXCEPT ![p] = h]
  PROVE  /\ Failing' = IF Uncounted(h) /\ is_failure(h.outcome)
                       THEN Failing \cup {p} ELSE Failing \ {p}
         /\ Passing' = IF Uncounted(h) /\ ~ is_failure(h.outcome)
                       THEN Passing \cup {p} ELSE Passing \ {p}
<1>1. procs'[p] = h /\ \A q \in Proc : q # p => procs'[q] = procs[q]
  BY DEF TimeoutsInv
<1> QED BY <1>1 DEF Failing, Passing

\* A handler that counts nothing, and stays as far behind as it was.
LEMMA NothingCounted ==
  ASSUME TimeoutsInv, CountInv, NEW p \in Proc, NEW h,
         procs' = [procs EXCEPT ![p] = h], SameCounters, UNCHANGED owed,
         Uncounted(h) <=> Uncounted(procs[p]),
         Uncounted(h) => h.outcome = procs[p].outcome
  PROVE  CountInv'
<1>1. Failing' = Failing /\ Passing' = Passing
  BY OneLags DEF Failing, Passing
<1>2. UNCHANGED <<OwedFailures, OwedPasses>> BY DEF OwedFailures, OwedPasses
<1> QED BY <1>1, <1>2 DEF CountInv, SameCounters

\* One of the two numbers changes.
LEMMA OwedChanged ==
  ASSUME owed \in [BOOLEAN -> Nat], NEW n \in Nat
  PROVE  /\ owed' = [owed EXCEPT ![TRUE] = n] =>
              owed' \in [BOOLEAN -> Nat] /\ OwedFailures' = n /\ UNCHANGED OwedPasses
         /\ owed' = [owed EXCEPT ![FALSE] = n] =>
              owed' \in [BOOLEAN -> Nat] /\ OwedPasses' = n /\ UNCHANGED OwedFailures
BY DEF OwedFailures, OwedPasses

\* A handler has recorded an outcome.
LEMMA OutcomeRecorded ==
  ASSUME TimeoutsInv, CountInv, NEW p \in Proc, NEW h,
         procs' = [procs EXCEPT ![p] = h], SameCounters,
         ~ Uncounted(procs[p]), Uncounted(h), h.outcome = procs[p].outcome,
         owed' = [owed EXCEPT ![is_failure(procs[p].outcome)] = @ + 1]
  PROVE  CountInv'
<1>0. /\ Cardinality(Failing) \in Nat /\ Cardinality(Passing) \in Nat
      /\ OwedFailures \in Nat /\ OwedPasses \in Nat
      /\ monitor.total \in Nat /\ monitor.failures \in Nat
      /\ monitor.consecutive \in Nat
  BY CountsTyped
<1>1. p \notin Failing /\ p \notin Passing BY DEF Failing, Passing
<1>a. /\ is_failure(h.outcome) \in BOOLEAN /\ Uncounted(h) \in BOOLEAN
      /\ Failing \ {p} = Failing /\ Passing \ {p} = Passing
  BY <1>1 DEF is_failure, Uncounted
<1>2. CASE is_failure(h.outcome)
  <2>1. Failing' = Failing \cup {p} /\ Passing' = Passing
    BY <1>1, <1>2, <1>a, OneLags
  <2>2. IsFiniteSet(Failing') /\ Cardinality(Failing') = Cardinality(Failing) + 1
    BY <1>1, <2>1, FS_AddElement DEF CountInv
  <2>3. is_failure(procs[p].outcome) = TRUE BY <1>2 DEF is_failure
  <2>4. owed' = [owed EXCEPT ![TRUE] = OwedFailures + 1] BY <2>3 DEF OwedFailures
  <2>5. OwedFailures + 1 \in Nat BY <1>0
  <2>6. /\ owed' \in [BOOLEAN -> Nat] /\ OwedFailures' = OwedFailures + 1
        /\ UNCHANGED OwedPasses
    BY <2>4, <2>5, OwedChanged DEF CountInv
  <2> QED BY <1>0, <2>1, <2>2, <2>6 DEF CountInv, SameCounters
<1>3. CASE ~ is_failure(h.outcome)
  <2>1. Passing' = Passing \cup {p} /\ Failing' = Failing
    BY <1>1, <1>3, <1>a, OneLags
  <2>2. IsFiniteSet(Passing') /\ Cardinality(Passing') = Cardinality(Passing) + 1
    BY <1>1, <2>1, FS_AddElement DEF CountInv
  <2>3. is_failure(procs[p].outcome) = FALSE BY <1>3 DEF is_failure
  <2>4. owed' = [owed EXCEPT ![FALSE] = OwedPasses + 1] BY <2>3 DEF OwedPasses
  <2>5. OwedPasses + 1 \in Nat BY <1>0
  <2>6. /\ owed' \in [BOOLEAN -> Nat] /\ OwedPasses' = OwedPasses + 1
        /\ UNCHANGED OwedFailures
    BY <2>4, <2>5, OwedChanged DEF CountInv
  <2> QED BY <1>0, <2>1, <2>2, <2>6 DEF CountInv, SameCounters
<1> QED BY <1>2, <1>3

\* A handler counts its outcome.
LEMMA OutcomeCounted ==
  ASSUME TimeoutsInv, CountInv, NEW p \in Proc, NEW h,
         procs' = [procs EXCEPT ![p] = h], UNCHANGED owed,
         Uncounted(procs[p]), ~ Uncounted(h),
         monitor' = Incremented(monitor, is_failure(procs[p].outcome))
  PROVE  CountInv'
<1>01. UNCHANGED <<OwedFailures, OwedPasses>> BY DEF OwedFailures, OwedPasses
<1>00. /\ Cardinality(Failing) \in Nat /\ Cardinality(Passing) \in Nat
      /\ OwedFailures \in Nat /\ OwedPasses \in Nat
      /\ monitor.total \in Nat /\ monitor.failures \in Nat
      /\ monitor.consecutive \in Nat
  BY CountsTyped
<1>0. monitor \in Monitor BY DEF TimeoutsInv
<1>1. Failing' = Failing \ {p} /\ Passing' = Passing \ {p} BY OneLags
<1>2. CASE is_failure(procs[p].outcome)
  <2>1. p \in Failing /\ p \notin Passing BY <1>2 DEF Failing, Passing
  <2>2. /\ IsFiniteSet(Failing') /\ Cardinality(Failing') = Cardinality(Failing) - 1
        /\ Passing' = Passing
    BY <1>1, <2>1, FS_RemoveElement DEF CountInv
  <2>3. /\ monitor'.total = monitor.total + 1 /\ monitor'.failures = monitor.failures + 1
        /\ monitor'.consecutive = monitor.consecutive + 1
    BY <1>0, <1>2 DEF Incremented, Monitor
  <2> QED BY <1>00, <1>01, <2>2, <2>3 DEF CountInv
<1>3. CASE ~ is_failure(procs[p].outcome)
  <2>1. p \in Passing /\ p \notin Failing BY <1>3 DEF Failing, Passing
  <2>2. /\ IsFiniteSet(Passing') /\ Cardinality(Passing') = Cardinality(Passing) - 1
        /\ Failing' = Failing
    BY <1>1, <2>1, FS_RemoveElement DEF CountInv
  <2>3. /\ monitor'.total = monitor.total + 1 /\ monitor'.failures = monitor.failures
        /\ monitor'.consecutive = 0
    BY <1>0, <1>3 DEF Incremented, Monitor
  <2> QED BY <1>00, <1>01, <2>2, <2>3 DEF CountInv
<1> QED BY <1>2, <1>3

\* Handlers are cut off, and what they had recorded is not owed any more.
LEMMA OutcomesForgiven ==
  ASSUME TimeoutsInv, CountInv, NEW ps, ps \subseteq Proc, SameCounters,
         Failing' = Failing \ ps, Passing' = Passing \ ps, owed' = Forgiven(ps)
  PROVE  CountInv'
<1>0. /\ Cardinality(Failing) \in Nat /\ Cardinality(Passing) \in Nat
      /\ OwedFailures \in Nat /\ OwedPasses \in Nat
      /\ monitor.total \in Nat /\ monitor.failures \in Nat
      /\ monitor.consecutive \in Nat
  BY CountsTyped
<1>1. {p \in ps : /\ Uncounted(procs[p])
                  /\ is_failure(procs[p].outcome) = TRUE} = Failing \cap ps
  BY DEF Failing, is_failure
<1>2. {p \in ps : /\ Uncounted(procs[p])
                  /\ is_failure(procs[p].outcome) = FALSE} = Passing \cap ps
  BY DEF Passing, is_failure
<1>3. OwedFailures' = OwedFailures - Cardinality(Failing \cap ps)
  BY <1>1 DEF Forgiven, OwedFailures
<1>4. OwedPasses' = OwedPasses - Cardinality(Passing \cap ps)
  BY <1>2 DEF Forgiven, OwedPasses
<1>5. /\ IsFiniteSet(Failing')
      /\ Cardinality(Failing') = Cardinality(Failing) - Cardinality(Failing \cap ps)
      /\ Cardinality(Failing \cap ps) \in Nat /\ Cardinality(Failing') \in Nat
  BY FS_Difference, FS_Intersection, FS_CardinalityType DEF CountInv
<1>6. /\ IsFiniteSet(Passing')
      /\ Cardinality(Passing') = Cardinality(Passing) - Cardinality(Passing \cap ps)
      /\ Cardinality(Passing \cap ps) \in Nat /\ Cardinality(Passing') \in Nat
  BY FS_Difference, FS_Intersection, FS_CardinalityType DEF CountInv
<1>7. /\ monitor'.failures + Cardinality(Failing') = OwedFailures'
      /\ monitor'.total - monitor'.failures + Cardinality(Passing') = OwedPasses'
      /\ monitor'.failures <= monitor'.total
      /\ monitor'.consecutive <= monitor'.failures
  BY <1>3, <1>4, <1>5, <1>6, <1>0 DEF CountInv, SameCounters
<1>8. OwedFailures' \in Nat /\ OwedPasses' \in Nat
  BY <1>5, <1>6, <1>7, <1>0 DEF CountInv, SameCounters
<1>9. owed' \in [BOOLEAN -> Nat]
  <2>1. owed' = [failure \in BOOLEAN |-> owed'[failure]] BY DEF Forgiven
  <2>2. \A failure \in BOOLEAN : owed'[failure] \in Nat
    BY <1>8 DEF OwedFailures, OwedPasses
  <2> QED BY <2>1, <2>2
<1> QED BY <1>5, <1>6, <1>7, <1>9 DEF CountInv

\* Neither a free slot nor a handler that begins has anything to count.
LEMMA NewUncounted ==
  /\ ~ Uncounted(Free)
  /\ \A g : ~ Uncounted(Rest(g))
  /\ \A op \in Detector : ~ Uncounted(Listing(op))
<1>1. ~ Uncounted(Free) BY DEF Uncounted, Free
<1>2. \A g : ~ Uncounted(Rest(g)) BY DEF Uncounted, Rest, Free
<1>3. \A op \in Detector : ~ Uncounted(Listing(op))
  BY DEF Uncounted, Listing, Free
<1> QED BY <1>1, <1>2, <1>3

\* A request that begins changes no count.
LEMMA CallCounts ==
  ASSUME TimeoutsInv, CountInv, NEW h, ~ Uncounted(h), Call(h)
  PROVE  CountInv'
<1> DEFINE slot == CHOOSE p \in Request : procs[p] = Free
<1>1. slot \in Proc /\ procs[slot] = Free BY DEF Call, Proc
<1>2. procs' = [procs EXCEPT ![slot] = h] /\ UNCHANGED <<monitor, owed>>
  BY DEF Call, tables
<1> HIDE DEF slot
<1>3. ~ Uncounted(procs[slot]) BY <1>1, NewUncounted
<1>4. SameCounters BY <1>2 DEF SameCounters
<1> QED BY <1>1, <1>2, <1>3, <1>4, NothingCounted

\* The statements of a handler.
LEMMA StatementCounts ==
  ASSUME TimeoutsInv, CountInv, NEW p \in Proc, Statement(p)
  PROVE  CountInv'
<1> DEFINE old == procs[p]
<1>0. /\ HandlerOK(old) /\ old \in ProcType /\ monitor \in Monitor
      /\ procs \in [Proc -> ProcType]
  BY DEF TimeoutsInv, HandlerOK
<1>1. CASE RecordNew(p)
  <2>1. PICK h : h = [old EXCEPT !.at = "health", !.started = 0, !.due = 0] OBVIOUS
  <2>2. h.at = "health" /\ h.outcome = old.outcome BY <1>0, <2>1 DEF ProcType
  <2>3. procs' = [procs EXCEPT ![p] = h] BY <1>0, <1>1, <2>1 DEF RecordNew
  <2>4. ~ Uncounted(procs[p]) BY <1>1 DEF RecordNew, Uncounted
  <2>5. Uncounted(h) BY <2>2 DEF Uncounted
  <2>6. /\ UNCHANGED monitor
        /\ owed' = [owed EXCEPT ![is_failure(procs[p].outcome)] = @ + 1]
    BY <1>1 DEF RecordNew
  <2>7. SameCounters BY <2>6 DEF SameCounters
  <2> QED BY <2>2, <2>3, <2>4, <2>5, <2>6, <2>7, OutcomeRecorded
<1>2. ASSUME NEW id, RecordOver(p, id) PROVE CountInv'
  <2>1. PICK h : h = [old EXCEPT !.at = "health", !.id = 0, !.todo = old.todo \ {id}]
    OBVIOUS
  <2>2. h.at = "health" /\ h.outcome = old.outcome BY <1>0, <2>1 DEF ProcType
  <2>3. procs' = [procs EXCEPT ![p] = h] BY <1>0, <1>2, <2>1 DEF RecordOver
  <2>4. ~ Uncounted(procs[p]) BY <1>2 DEF RecordOver, Uncounted
  <2>5. Uncounted(h) BY <2>2 DEF Uncounted
  <2>6. /\ UNCHANGED monitor
        /\ owed' = [owed EXCEPT ![is_failure(procs[p].outcome)] = @ + 1]
    BY <1>2 DEF RecordOver
  <2>7. SameCounters BY <2>6 DEF SameCounters
  <2> QED BY <2>2, <2>3, <2>4, <2>5, <2>6, <2>7, OutcomeRecorded
<1>3. CASE WriteHealth(p)
  <2>1. PICK h : h = AfterHealth(old) OBVIOUS
  <2>2. h.at \in {"stats", "last"} /\ h.outcome = old.outcome
    BY <1>0, <2>1 DEF AfterHealth, ProcType
  <2>3. procs' = [procs EXCEPT ![p] = h] BY <1>0, <1>3, <2>1 DEF WriteHealth
  <2>4. Uncounted(procs[p]) /\ Uncounted(h)
    BY <1>3, <2>2 DEF WriteHealth, Uncounted
  <2>5. SameCounters /\ UNCHANGED owed
    BY <1>0, <1>3 DEF WriteHealth, SameCounters, Monitor
  <2> QED BY <2>2, <2>3, <2>4, <2>5, NothingCounted
<1>4. CASE WriteLast(p)
  <2>1. PICK h : h = [old EXCEPT !.at = "stats", !.next = 0] OBVIOUS
  <2>2. h.at = "stats" /\ h.outcome = old.outcome BY <1>0, <2>1 DEF ProcType
  <2>3. procs' = [procs EXCEPT ![p] = h] BY <1>0, <1>4, <2>1 DEF WriteLast
  <2>4. Uncounted(procs[p]) /\ Uncounted(h) BY <1>4, <2>2 DEF WriteLast, Uncounted
  <2>5. SameCounters /\ UNCHANGED owed
    BY <1>0, <1>4 DEF WriteLast, SameCounters, Monitor
  <2> QED BY <2>2, <2>3, <2>4, <2>5, NothingCounted
<1>5. CASE WriteStats(p)
  <2>1. /\ procs' = [procs EXCEPT ![p] = Rest(old)] /\ UNCHANGED owed
        /\ monitor' = Incremented(monitor, is_failure(procs[p].outcome))
    BY <1>0, <1>5 DEF WriteStats
  <2>2. Uncounted(procs[p]) BY <1>5 DEF WriteStats, Uncounted
  <2>3. ~ Uncounted(Rest(old)) BY NewUncounted
  <2> QED BY <2>1, <2>2, <2>3, OutcomeCounted
<1>6. CASE WriteMonitor(p)
  <2>1. procs' = [procs EXCEPT ![p] = Free] /\ UNCHANGED owed
    BY <1>6 DEF WriteMonitor
  <2>2. ~ Uncounted(procs[p]) BY <1>6 DEF WriteMonitor, Uncounted
  <2>3. SameCounters BY <1>0, <1>6 DEF WriteMonitor, Stored, SameCounters, Monitor
  <2> QED BY <2>1, <2>2, <2>3, NewUncounted, NothingCounted
<1> QED BY <1>1, <1>2, <1>3, <1>4, <1>5, <1>6 DEF Statement

\* A failing statement is not counted, and neither is the outcome of a handler
\* whose last statement fails.
LEMMA FailureCounts ==
  ASSUME TimeoutsInv, CountInv, NEW p \in Proc, StatementFails(p)
  PROVE  CountInv'
<1> DEFINE old == procs[p]
<1>0. /\ old \in ProcType /\ procs \in [Proc -> ProcType]
      /\ UNCHANGED monitor /\ SameCounters
      /\ old.at # "stats" => UNCHANGED owed
      /\ old.at \in {"record", "health", "last", "stats", "write"}
  BY DEF TimeoutsInv, StatementFails, tables, SameCounters, ProcType
<1>1. CASE old.at = "write"
  <2>1. procs' = [procs EXCEPT ![p] = Free] BY <1>1 DEF StatementFails
  <2>2. ~ Uncounted(procs[p]) BY <1>1 DEF Uncounted
  <2> QED BY <1>0, <1>1, <2>1, <2>2, NewUncounted, NothingCounted
<1>2. CASE old.at = "record"
  <2>1. PICK g : procs' = [procs EXCEPT ![p] = Rest(g)] BY <1>2 DEF StatementFails
  <2>2. ~ Uncounted(procs[p]) BY <1>2 DEF Uncounted
  <2> QED BY <1>0, <1>2, <2>1, <2>2, NewUncounted, NothingCounted
<1>3. CASE old.at \in {"health", "last"}
  <2>1. PICK h : /\ procs' = [procs EXCEPT ![p] = h]
                 /\ \/ h = AfterHealth(old)
                    \/ h = [old EXCEPT !.at = "stats", !.next = 0]
    BY <1>0, <1>3 DEF StatementFails
  <2>2. h.at \in {"last", "stats"} /\ h.outcome = old.outcome
    BY <1>0, <2>1 DEF AfterHealth, ProcType
  <2>3. Uncounted(procs[p]) /\ Uncounted(h) BY <1>3, <2>2 DEF Uncounted
  <2> QED BY <1>0, <1>3, <2>1, <2>2, <2>3, NothingCounted
<1>4. CASE old.at = "stats"
  <2>1. procs' = [procs EXCEPT ![p] = Rest(old)] /\ owed' = Forgiven({p})
    BY <1>0, <1>4 DEF StatementFails
  <2>2. ~ Uncounted(Rest(old)) BY NewUncounted
  <2>3. Failing' = Failing \ {p} /\ Passing' = Passing \ {p} BY <2>1, <2>2, OneLags
  <2> QED BY <1>0, <2>1, <2>3, OutcomesForgiven
<1> QED BY <1>0, <1>1, <1>2, <1>3, <1>4

\* A handler that cannot read the monitor again counts nothing.
LEMMA RereadCounts ==
  ASSUME TimeoutsInv, CountInv, NEW p \in Proc, RereadFails(p)
  PROVE  CountInv'
<1>1. PICK old : old = procs[p] /\ old \in ProcType BY DEF TimeoutsInv
<1>2. PICK h : h = [old EXCEPT !.next = 0] OBVIOUS
<1>3. h.at = old.at /\ h.outcome = old.outcome BY <1>1, <1>2 DEF ProcType
<1>4. procs' = [procs EXCEPT ![p] = h] /\ UNCHANGED <<monitor, owed>>
  BY <1>1, <1>2 DEF RereadFails, TimeoutsInv, tables
<1>5. SameCounters BY <1>4 DEF SameCounters
<1> QED BY <1>1, <1>3, <1>4, <1>5, NothingCounted DEF Uncounted

\* Every step keeps the counters in line with what was recorded.
LEMMA CountStep ==
  ASSUME TimeoutsInv, CountInv, [Next]_vars
  PROVE  CountInv'
<1>1. CASE UNCHANGED <<procs, owed, monitor>>
  <2>1. UNCHANGED <<Failing, Passing, OwedFailures, OwedPasses>>
    BY <1>1 DEF Failing, Passing, OwedFailures, OwedPasses
  <2> QED BY <1>1, <2>1 DEF CountInv
<1>2. CASE Tick \/ Start \/ UNCHANGED vars
  BY <1>1, <1>2 DEF Tick, Start, tables, vars
<1>3. ASSUME NEW outcome, NEW started, Ping(outcome, started) PROVE CountInv'
  <2>1. PICK h : Call(h) /\ h = [Free EXCEPT !.op = "ping", !.at = "record",
                    !.outcome = outcome, !.started = started,
                    !.next = calculate_next_expected(now)]
    BY <1>3 DEF Ping
  <2>2. ~ Uncounted(h) BY <2>1 DEF Uncounted, Free
  <2> QED BY <2>1, <2>2, CallCounts
<1>4. ASSUME NEW outcome, NEW id, Report(id, outcome) PROVE CountInv'
  <2>1. PICK h : Call(h) /\ h = [Free EXCEPT !.op = "report", !.at = "record",
                    !.outcome = outcome, !.id = id,
                    !.next = calculate_next_expected(now)]
    BY <1>4 DEF Report
  <2>2. ~ Uncounted(h) BY <2>1 DEF Uncounted, Free
  <2> QED BY <2>1, <2>2, CallCounts
<1>5. ASSUME NEW op, NEW limited, Change(op, limited) PROVE CountInv'
  <2>1. PICK h : Call(h) /\ h = [Free EXCEPT !.op = op, !.at = "write",
                                            !.copy = Changed(op, limited)]
    BY <1>5 DEF Change
  <2>2. ~ Uncounted(h) BY <2>1 DEF Uncounted, Free
  <2> QED BY <2>1, <2>2, CallCounts
<1>6. ASSUME NEW op \in Detector, Trigger(op) PROVE CountInv'
  BY <1>6, NewUncounted, CallCounts DEF Trigger
<1>7. ASSUME NEW op \in Detector, RunDetector(op) PROVE CountInv'
  <2>1. /\ op \in Proc /\ procs[op] = Free /\ procs' = [procs EXCEPT ![op] = Listing(op)]
        /\ UNCHANGED <<monitor, owed>>
    BY <1>7 DEF RunDetector, tables, Proc
  <2>2. ~ Uncounted(procs[op]) /\ ~ Uncounted(Listing(op)) BY <2>1, NewUncounted
  <2>3. SameCounters BY <2>1 DEF SameCounters
  <2> QED BY <2>1, <2>2, <2>3, NothingCounted
<1>8. ASSUME NEW ps, ps \subseteq Proc, Gone(ps) PROVE CountInv'
  <2>1. /\ procs' = [p \in Proc |-> IF p \in ps THEN Free ELSE procs[p]]
        /\ owed' = Forgiven(ps) /\ UNCHANGED monitor
    BY <1>8 DEF Gone, tables
  <2>2. \A p \in Proc : procs'[p] = IF p \in ps THEN Free ELSE procs[p] BY <2>1
  <2>3. Failing' = Failing \ ps /\ Passing' = Passing \ ps
    BY <2>2, NewUncounted DEF Failing, Passing
  <2>4. SameCounters BY <2>1 DEF SameCounters
  <2> QED BY <1>8, <2>1, <2>3, <2>4, OutcomesForgiven
<1>9. \A p \in Request : {p} \subseteq Proc BY DEF Proc
<1> QED BY <1>2, <1>3, <1>4, <1>5, <1>6, <1>7, <1>8, <1>9, StatementCounts,
           FailureCounts, RereadCounts
        DEF Next

\* The invariant of the counters.
LEMMA CountInvariant == Spec => []CountInv
<1>1. Init => CountInv
  <2> SUFFICES ASSUME Init PROVE CountInv OBVIOUS
  <2>1. Failing = {} /\ Passing = {}
    BY NewUncounted DEF Init, Failing, Passing
  <2>2. OwedFailures = 0 /\ OwedPasses = 0 /\ owed \in [BOOLEAN -> Nat]
    BY DEF Init, OwedFailures, OwedPasses
  <2>3. monitor.total = 0 /\ monitor.failures = 0 /\ monitor.consecutive = 0
    BY DEF Init, NewMonitor
  <2> QED BY <2>1, <2>2, <2>3, FS_EmptySet DEF CountInv
<1>2. TimeoutsInv /\ CountInv /\ [Next]_vars => CountInv' BY CountStep
<1> QED BY <1>1, <1>2, TimeoutsInvariant, PTL DEF Spec

\* No interleaving of check-ins, detectors and the monitor's routes, with any
\* number of requests and failures, loses or repeats a count
\* (increment_monitor_stats).
THEOREM CountersAreExact == Spec => []CountersAddUp
<1>1. TimeoutsInv /\ CountInv => CountersAddUp
  <2> SUFFICES ASSUME TimeoutsInv, CountInv PROVE CountersAddUp OBVIOUS
  <2>1. {p \in Proc : Uncounted(procs[p]) /\ is_failure(procs[p].outcome) = TRUE}
          = Failing
    BY DEF Failing, is_failure
  <2>2. {p \in Proc : Uncounted(procs[p]) /\ is_failure(procs[p].outcome) = FALSE}
          = Passing
    BY DEF Passing, is_failure
  <2>3. /\ monitor.failures + Cardinality(Failing) = owed[TRUE]
        /\ monitor.total - monitor.failures + Cardinality(Passing) = owed[FALSE]
    BY DEF CountInv, OwedFailures, OwedPasses
  <2> QED BY <2>1, <2>2, <2>3 DEF CountersAddUp
<1> QED BY <1>1, TimeoutsInvariant, CountInvariant, PTL

\* The bounds of the model.
BoundsInv ==
  /\ now \in 1..MaxTime
  /\ calls \in 0..MaxCalls /\ faults \in 0..MaxFaults
  /\ tangled \in BOOLEAN

\* Every row and every handler stays well typed, the monitor's counters are in
\* order (consecutive_failures <= total_failures <= total_checkins), and nothing is ever owed less
\* than nothing: no outcome is forgiven that was not recorded.
THEOREM TypeCorrect == Spec => []TypeOK
<1>0. MaxTime \in Nat /\ MaxTime >= 1 /\ MaxCalls \in Nat /\ MaxFaults \in Nat
  BY CronMonitorAssumption
<1>1. Init => BoundsInv
  <2> SUFFICES ASSUME Init PROVE BoundsInv OBVIOUS
  <2>1. now \in 1..MaxTime /\ calls \in 0..MaxCalls /\ faults \in 0..MaxFaults
    BY <1>0 DEF Init
  <2>2. tangled \in BOOLEAN BY DEF Init
  <2> QED BY <2>1, <2>2 DEF BoundsInv
<1>2. BoundsInv /\ [Next]_vars => BoundsInv'
  <2> SUFFICES ASSUME BoundsInv, [Next]_vars PROVE BoundsInv' OBVIOUS
  <2> DEFINE Counting ==
               /\ UNCHANGED now \/ (now < MaxTime /\ now' = now + 1)
               /\ UNCHANGED calls \/ (calls < MaxCalls /\ calls' = calls + 1)
               /\ UNCHANGED faults \/ (faults < MaxFaults /\ faults' = faults + 1)
  <2>1. ASSUME Tick \/ Start \/ UNCHANGED vars PROVE Counting
    BY <2>1 DEF Tick, Start, vars, bounds
  <2>2. ASSUME NEW h, Call(h) PROVE Counting BY <2>2 DEF Call
  <2>3. ASSUME NEW p, Statement(p) PROVE Counting
    <3>1. ASSUME NEW id, RecordOver(p, id) PROVE Counting
      BY <3>1 DEF RecordOver, bounds
    <3> QED BY <2>3, <3>1 DEF Statement, RecordNew, WriteHealth, WriteLast, WriteStats,
                              WriteMonitor, bounds
  <2>4. ASSUME NEW p, StatementFails(p) \/ RereadFails(p) PROVE Counting
    BY <2>4 DEF StatementFails, RereadFails
  <2>5. ASSUME NEW ps, Gone(ps) PROVE Counting BY <2>5 DEF Gone
  <2>6. ASSUME NEW op, RunDetector(op) PROVE Counting BY <2>6 DEF RunDetector, bounds
  <2>7. Counting
    BY <2>1, <2>2, <2>3, <2>4, <2>5, <2>6 DEF Next, Ping, Report, Change, Trigger
  <2>8. now' \in 1..MaxTime /\ calls' \in 0..MaxCalls /\ faults' \in 0..MaxFaults
    <3>1. now \in 1..MaxTime /\ calls \in 0..MaxCalls /\ faults \in 0..MaxFaults
      BY DEF BoundsInv
    <3> QED BY <1>0, <2>7, <3>1
  <2>9. tangled' \in BOOLEAN
    BY DEF BoundsInv, Next, vars, Tick, Start, Ping, Report, Change, Trigger,
           RunDetector, Call, Tangles, Statement, RecordNew, RecordOver, WriteHealth,
           WriteLast, WriteStats, WriteMonitor, StatementFails, RereadFails, Gone
  <2> QED BY <2>8, <2>9 DEF BoundsInv
<1>3. TimeoutsInv /\ CountInv /\ BoundsInv => TypeOK
  BY DEF TimeoutsInv, CountInv, BoundsInv, TypeOK
<1> QED BY <1>1, <1>2, <1>3, TimeoutsInvariant, CountInvariant, PTL DEF Spec

------------------------------------------------------------------------------
(* Missed runs                                                              *)

Searching(p) == procs[p].op = "missed"
Due(i) == checkins[i].due

\* Unless runs of the missed-run detector have overlapped or failed: one run
\* at a time; the deadlines of missed check-ins are over, and each has one
\* check-in; the deadline a run is about to record is later than those; and
\* once the run has written the monitor, its last check-in is later, too.
Untangled ==
  /\ \A p, q \in Proc : Searching(p) /\ Searching(q) => p = q
  /\ \A p \in Proc : ~ Searching(p) => procs[p].due = 0
  /\ \A i \in 1..Len(checkins) : Due(i) # 0 => Due(i) < now
  /\ \A i, j \in 1..Len(checkins) : Due(i) # 0 /\ Due(i) = Due(j) => i = j
  /\ \A p \in Proc : Searching(p) /\ procs[p].at = "record" =>
       /\ procs[p].due < now
       /\ \A i \in 1..Len(checkins) : Due(i) # 0 => Due(i) < procs[p].due
  /\ \/ \E p \in Proc : Searching(p) /\ procs[p].at \in {"health", "last"}
     \/ \A i \in 1..Len(checkins) : Due(i) # 0 => Due(i) < monitor.last_at

\* The inductive invariant of missed check-ins.
MissInv == tangled \/ Untangled

\* The times in rows, handlers and the monitor are numbers.
LEMMA TimesTyped ==
  ASSUME TimeoutsInv
  PROVE  /\ now \in Nat /\ monitor.last_at \in Nat /\ monitor.next_at \in Nat
         /\ Len(checkins) \in Nat
         /\ \A i \in 1..Len(checkins) : Due(i) \in Nat
         /\ \A p \in Proc : procs[p] \in ProcType /\ procs[p].due \in Nat
<1>1. \A i \in 1..Len(checkins) : checkins[i] \in CheckIn BY DEF TimeoutsInv
<1>2. \A p \in Proc : procs[p] \in ProcType BY DEF TimeoutsInv
<1> QED BY <1>1, <1>2 DEF TimeoutsInv, Monitor, CheckIn, ProcType, Due

\* Steps of everybody else: the detector's runs, and the deadlines in the
\* table, stay what they were.
LEMMA OthersMiss ==
  ASSUME TimeoutsInv, TimeoutsInv', Untangled,
         \A q \in Proc : Searching(q) \/ Searching(q)' => procs'[q] = procs[q],
         \A q \in Proc : ~ Searching(q)' => procs'[q].due = 0,
         \A i \in 1..Len(checkins') : Due(i)' # 0 =>
           i \in 1..Len(checkins) /\ Due(i)' = Due(i),
         now' >= now, monitor'.last_at \in {monitor.last_at, now}
  PROVE  Untangled'
<1>1. \A q \in Proc : Searching(q)' <=> Searching(q) BY DEF Searching
<1>2. /\ now \in Nat /\ now' \in Nat /\ monitor.last_at \in Nat
      /\ monitor'.last_at \in Nat
      /\ \A i \in 1..Len(checkins) : Due(i) \in Nat
      /\ \A p \in Proc : procs[p].due \in Nat
  <2>1. now' \in Nat /\ monitor' \in Monitor BY DEF TimeoutsInv
  <2> QED BY <2>1, TimesTyped DEF Monitor
<1>3. \A p, q \in Proc : Searching(p)' /\ Searching(q)' => p = q
  BY <1>1 DEF Untangled
<1>4. \A i \in 1..Len(checkins') : Due(i)' # 0 => Due(i)' < now'
  BY <1>2 DEF Untangled
<1>5. \A i, j \in 1..Len(checkins') : Due(i)' # 0 /\ Due(i)' = Due(j)' => i = j
  BY DEF Untangled
<1>6. ASSUME NEW p \in Proc, Searching(p)', procs'[p].at = "record"
      PROVE  /\ procs'[p].due < now'
             /\ \A i \in 1..Len(checkins') : Due(i)' # 0 => Due(i)' < procs'[p].due
  BY <1>1, <1>2, <1>6 DEF Untangled
<1>7. \/ \E p \in Proc : Searching(p)' /\ procs'[p].at \in {"health", "last"}
      \/ \A i \in 1..Len(checkins') : Due(i)' # 0 => Due(i)' < monitor'.last_at
  <2>1. CASE \E p \in Proc : Searching(p) /\ procs[p].at \in {"health", "last"}
    BY <1>1, <2>1
  <2>2. CASE \A i \in 1..Len(checkins) : Due(i) # 0 => Due(i) < monitor.last_at
    <3>1. \A i \in 1..Len(checkins) : Due(i) # 0 => Due(i) < now BY DEF Untangled
    <3> QED BY <2>2, <3>1
  <2> QED BY <2>1, <2>2 DEF Untangled
<1> QED BY <1>3, <1>4, <1>5, <1>6, <1>7 DEF Untangled

\* One of the others takes a step.
LEMMA OtherMisses ==
  ASSUME TimeoutsInv, TimeoutsInv', Untangled, NEW p \in Proc, NEW h,
         ~ Searching(p), h.op # "missed", h.due = 0,
         procs' = [procs EXCEPT ![p] = h], UNCHANGED now,
         \A i \in 1..Len(checkins') : Due(i)' # 0 =>
           i \in 1..Len(checkins) /\ Due(i)' = Due(i),
         monitor'.last_at \in {monitor.last_at, now}
  PROVE  Untangled'
<1>1. procs'[p] = h /\ \A q \in Proc : q # p => procs'[q] = procs[q]
  BY DEF TimeoutsInv
<1>2. \A q \in Proc : Searching(q) \/ Searching(q)' => procs'[q] = procs[q]
  BY <1>1 DEF Searching
<1>3. \A q \in Proc : ~ Searching(q)' => procs'[q].due = 0
  BY <1>1 DEF Searching, Untangled
<1>4. now' >= now BY DEF TimeoutsInv
<1> QED BY <1>2, <1>3, <1>4, OthersMiss

\* A detector run begins, with no other under way: what it finds overdue is
\* later than every deadline recorded so far.
LEMMA SearchBegins ==
  ASSUME TimeoutsInv, Untangled, \A q \in Proc : ~ Searching(q),
         NEW p \in Proc, procs' = [procs EXCEPT ![p] = Listing("missed")],
         Overdue(monitor, now), UNCHANGED <<now, monitor, checkins>>
  PROVE  Untangled'
<1>1. PICK h : h = Listing("missed") OBVIOUS
<1>2. h.op = "missed" /\ h.at = "record" /\ h.due = monitor.next_at
  BY <1>1 DEF Listing, Free
<1>3. procs'[p] = h /\ \A q \in Proc : q # p => procs'[q] = procs[q]
  BY <1>1 DEF TimeoutsInv
<1>4. \A q \in Proc : Searching(q)' <=> q = p BY <1>2, <1>3 DEF Searching
<1>5. \A i : Due(i)' = Due(i) BY DEF Due
<1>6. \A i \in 1..Len(checkins) : Due(i) # 0 => Due(i) < monitor.last_at
  BY DEF Untangled
<1>7. /\ monitor.next_at < now
      /\ \A i \in 1..Len(checkins) : Due(i) # 0 => Due(i) < monitor.next_at
  BY <1>6, TimesTyped, ConstantsTyped DEF Overdue
<1>8. \A q \in Proc : ~ Searching(q)' => procs'[q].due = 0
  BY <1>3, <1>4 DEF Untangled
<1>9. ASSUME NEW q \in Proc, Searching(q)', procs'[q].at = "record"
      PROVE  /\ procs'[q].due < now'
             /\ \A i \in 1..Len(checkins') : Due(i)' # 0 => Due(i)' < procs'[q].due
  BY <1>2, <1>3, <1>4, <1>5, <1>7, <1>9
<1> QED BY <1>4, <1>5, <1>6, <1>8, <1>9 DEF Untangled

\* The run records its missed check-in.
LEMMA SearchRecords ==
  ASSUME TimeoutsInv, Untangled, NEW p \in Proc, Searching(p), RecordNew(p)
  PROVE  Untangled'
<1> DEFINE old == procs[p]
           row == [status |-> old.outcome, started_at |-> old.started,
                   due |-> old.due,
                   ended |-> IF old.op = "ping" THEN Punctual(old.started) ELSE "no",
                   overruled |-> FALSE]
<1>0. old \in ProcType /\ old.due \in Nat BY TimesTyped
<1>1. PICK h : h = [old EXCEPT !.at = "health", !.started = 0, !.due = 0] OBVIOUS
<1>2. h.op = "missed" /\ h.at = "health" BY <1>0, <1>1 DEF ProcType, Searching
<1>3. /\ procs' = [procs EXCEPT ![p] = h] /\ checkins' = Append(checkins, row)
      /\ UNCHANGED <<now, monitor>> /\ old.at = "record"
  BY <1>1 DEF RecordNew, TimeoutsInv
<1>4. procs'[p] = h /\ \A q \in Proc : q # p => procs'[q] = procs[q]
  BY <1>3 DEF TimeoutsInv
<1>5. \A q \in Proc : Searching(q)' <=> q = p
  BY <1>2, <1>4 DEF Searching, Untangled
<1>6. row \in CheckIn BY <1>0 DEF ProcType, CheckIn, Punctual
<1>7. row.due = old.due OBVIOUS
<1> HIDE DEF row
<1>8. PICK k : /\ Len(checkins') = k /\ k = Len(checkins) + 1 /\ Len(checkins) \in Nat
               /\ \A i \in 1..Len(checkins) : checkins'[i] = checkins[i]
               /\ checkins'[k] = row
  BY <1>3, <1>6, AppendProperties DEF TimeoutsInv
<1>9. /\ \A i \in 1..Len(checkins) : Due(i)' = Due(i)
      /\ Due(k)' = old.due
  BY <1>7, <1>8 DEF Due
<1>10. \A i \in 1..Len(checkins') : i \in 1..Len(checkins) \/ i = k
  BY <1>8
<1>11. /\ old.due < now
       /\ \A i \in 1..Len(checkins) : Due(i) # 0 => Due(i) < old.due
  BY <1>3 DEF Untangled
<1>12. \A i \in 1..Len(checkins) : Due(i) \in Nat BY TimesTyped
<1>13. \A i \in 1..Len(checkins') : Due(i)' # 0 => Due(i)' < now'
  BY <1>3, <1>9, <1>10, <1>11 DEF Untangled
<1>14. \A i, j \in 1..Len(checkins') : Due(i)' # 0 /\ Due(i)' = Due(j)' => i = j
  <2> SUFFICES ASSUME NEW i \in 1..Len(checkins'), NEW j \in 1..Len(checkins'),
                      Due(i)' # 0, Due(i)' = Due(j)'
               PROVE  i = j
    OBVIOUS
  <2>1. CASE i \in 1..Len(checkins) /\ j \in 1..Len(checkins)
    BY <1>9, <2>1 DEF Untangled
  <2>2. CASE i = k /\ j \in 1..Len(checkins)
    <3>1. Due(j) # 0 /\ Due(j) = old.due BY <1>9, <2>2
    <3> QED BY <1>0, <1>11, <2>2, <3>1
  <2>3. CASE i \in 1..Len(checkins) /\ j = k
    <3>1. Due(i) # 0 /\ Due(i) = old.due BY <1>9, <2>3
    <3> QED BY <1>0, <1>11, <2>3, <3>1
  <2> QED BY <1>10, <2>1, <2>2, <2>3
<1>15. \A q \in Proc : ~ Searching(q)' => procs'[q].due = 0
  BY <1>4, <1>5 DEF Untangled, Searching
<1>16. \E q \in Proc : Searching(q)' /\ procs'[q].at \in {"health", "last"}
  BY <1>2, <1>4, <1>5
<1>17. \A q \in Proc : Searching(q)' => procs'[q].at # "record"
  BY <1>2, <1>4, <1>5
<1> QED BY <1>5, <1>13, <1>14, <1>15, <1>16, <1>17 DEF Untangled

\* The run goes on; once it has written the last check-in, or if it is not
\* there yet, the monitor is ahead of every deadline.
LEMMA SearchMoves ==
  ASSUME TimeoutsInv, Untangled, NEW p \in Proc, NEW h, Searching(p),
         procs[p].at # "record", procs' = [procs EXCEPT ![p] = h],
         UNCHANGED <<now, checkins>>,
         h.op = "missed" => h.at # "record",
         h.op # "missed" => h.due = 0,
         \/ h.op = "missed" /\ h.at \in {"health", "last"}
         \/ monitor'.last_at = now
         \/ procs[p].at \notin {"health", "last"} /\ monitor'.last_at = monitor.last_at
  PROVE  Untangled'
<1>1. procs'[p] = h /\ \A q \in Proc : q # p => procs'[q] = procs[q]
  BY DEF TimeoutsInv
<1>2. \A q \in Proc : Searching(q) => q = p BY DEF Untangled
<1>3. \A q \in Proc : Searching(q)' => q = p /\ h.op = "missed"
  BY <1>1, <1>2 DEF Searching
<1>4. \A i : Due(i)' = Due(i) BY DEF Due
<1>5. \A q \in Proc : ~ Searching(q)' => procs'[q].due = 0
  BY <1>1, <1>2 DEF Searching, Untangled
<1>6. \A q \in Proc : Searching(q)' => procs'[q].at # "record" BY <1>1, <1>3
<1>7. \/ \E q \in Proc : Searching(q)' /\ procs'[q].at \in {"health", "last"}
      \/ \A i \in 1..Len(checkins') : Due(i)' # 0 => Due(i)' < monitor'.last_at
  <2>1. CASE h.op = "missed" /\ h.at \in {"health", "last"}
    BY <1>1, <2>1 DEF Searching
  <2>2. CASE monitor'.last_at = now BY <1>4, <2>2 DEF Untangled
  <2>3. CASE procs[p].at \notin {"health", "last"} /\ monitor'.last_at = monitor.last_at
    BY <1>2, <1>4, <2>3 DEF Untangled
  <2> QED BY <2>1, <2>2, <2>3
<1> QED BY <1>3, <1>4, <1>5, <1>6, <1>7 DEF Untangled

\* A free slot, and what is left of a timeout run, is no run of the missed-run
\* detector.
LEMMA NoSearch ==
  /\ Free.op # "missed" /\ Free.due = 0
  /\ \A g : Rest(g).op # "missed" /\ Rest(g).due = 0
  /\ Listing("timeout").op # "missed" /\ Listing("timeout").due = 0
<1>1. Free.op # "missed" /\ Free.due = 0 BY DEF Free
<1>2. \A g : Rest(g).op # "missed" /\ Rest(g).due = 0 BY DEF Rest, Free
<1>3. Listing("timeout").op # "missed" /\ Listing("timeout").due = 0
  BY DEF Listing, Free
<1> QED BY <1>1, <1>2, <1>3

\* A request that is no run of the missed-run detector begins.
LEMMA CallMisses ==
  ASSUME TimeoutsInv, TimeoutsInv', Untangled, NEW h, Call(h), h.op # "missed", h.due = 0
  PROVE  Untangled'
<1> DEFINE slot == CHOOSE p \in Request : procs[p] = Free
<1>1. slot \in Proc /\ procs[slot] = Free BY DEF Call, Proc
<1>2. procs' = [procs EXCEPT ![slot] = h] /\ UNCHANGED <<now, monitor, checkins>>
  BY DEF Call, tables
<1> HIDE DEF slot
<1>3. ~ Searching(slot) BY <1>1, NoSearch DEF Searching
<1>4. \A i : Due(i)' = Due(i) BY <1>2 DEF Due
<1> QED BY <1>1, <1>2, <1>3, <1>4, OtherMisses

\* A detector run begins, by the scheduler or triggered by an admin.
LEMMA DetectorMisses ==
  ASSUME TimeoutsInv, TimeoutsInv', Untangled, NEW op \in Detector,
         Trigger(op) \/ RunDetector(op), ~ tangled'
  PROVE  Untangled'
<1>1. PICK p \in Proc : /\ procs[p] = Free /\ procs' = [procs EXCEPT ![p] = Listing(op)]
                        /\ UNCHANGED <<now, monitor, checkins>>
  <2>1. CASE Trigger(op)
    <3> DEFINE slot == CHOOSE p \in Request : procs[p] = Free
    <3>1. slot \in Proc /\ procs[slot] = Free BY <2>1 DEF Trigger, Call, Proc
    <3>2. /\ procs' = [procs EXCEPT ![slot] = Listing(op)]
          /\ UNCHANGED <<now, monitor, checkins>>
      BY <2>1 DEF Trigger, Call, tables
    <3> QED BY <3>1, <3>2
  <2>2. CASE RunDetector(op) BY <2>2 DEF RunDetector, tables, Proc
  <2> QED BY <2>1, <2>2
<1>2. CASE op = "missed"
  <2>1. Overdue(monitor, now) BY <1>2 DEF Trigger, RunDetector, Finds
  <2>2. \A q \in Proc : ~ Searching(q)
    BY <1>2 DEF Trigger, RunDetector, Tangles, Searching
  <2> QED BY <1>1, <1>2, <2>1, <2>2, SearchBegins
<1>3. CASE op = "timeout"
  <2>1. ~ Searching(p) BY <1>1, NoSearch DEF Searching
  <2>2. \A i : Due(i)' = Due(i) BY <1>1 DEF Due
  <2> QED BY <1>1, <1>3, <2>1, <2>2, NoSearch, OtherMisses
<1> QED BY <1>2, <1>3 DEF Detector

\* The statements of a handler.
LEMMA StatementMisses ==
  ASSUME TimeoutsInv, TimeoutsInv', Untangled, NEW p \in Proc, Statement(p)
  PROVE  Untangled'
<1> DEFINE old == procs[p]
<1>0. /\ old \in ProcType /\ procs \in [Proc -> ProcType] /\ monitor \in Monitor
      /\ (~ Searching(p) => old.due = 0)
  BY DEF TimeoutsInv, Untangled
<1>1. CASE RecordNew(p)
  <2>1. CASE Searching(p) BY <1>1, <2>1, SearchRecords
  <2>2. CASE ~ Searching(p)
    <3> DEFINE row == [status |-> old.outcome, started_at |-> old.started,
                       due |-> old.due,
                       ended |-> IF old.op = "ping" THEN Punctual(old.started) ELSE "no",
                       overruled |-> FALSE]
    <3>1. PICK h : h = [old EXCEPT !.at = "health", !.started = 0, !.due = 0]
      OBVIOUS
    <3>2. h.op # "missed" /\ h.due = 0 BY <1>0, <2>2, <3>1 DEF ProcType, Searching
    <3>3. /\ procs' = [procs EXCEPT ![p] = h] /\ checkins' = Append(checkins, row)
          /\ UNCHANGED <<now, monitor>>
      BY <1>0, <1>1, <3>1 DEF RecordNew
    <3>4. row \in CheckIn /\ row.due = 0 BY <1>0, <2>2 DEF ProcType, CheckIn, Punctual
    <3> HIDE DEF row
    <3>5. PICK k : /\ Len(checkins') = k /\ k = Len(checkins) + 1
                   /\ Len(checkins) \in Nat /\ checkins'[k] = row
                   /\ \A i \in 1..Len(checkins) : checkins'[i] = checkins[i]
      BY <3>3, <3>4, AppendProperties DEF TimeoutsInv
    <3>6. \A i \in 1..Len(checkins') : i \in 1..Len(checkins) \/ i = k BY <3>5
    <3>7. Due(k)' = 0 /\ \A i \in 1..Len(checkins) : Due(i)' = Due(i)
      BY <3>4, <3>5 DEF Due
    <3> QED BY <2>2, <3>2, <3>3, <3>6, <3>7, OtherMisses
  <2> QED BY <2>1, <2>2
<1>2. ASSUME NEW id \in 1..Len(checkins), RecordOver(p, id) PROVE Untangled'
  <2>1. ~ Searching(p) BY <1>2 DEF RecordOver, Searching
  <2>2. PICK h : h = [old EXCEPT !.at = "health", !.id = 0, !.todo = old.todo \ {id}]
    OBVIOUS
  <2>3. h.op # "missed" /\ h.due = 0 BY <1>0, <2>1, <2>2 DEF ProcType, Searching
  <2>4. /\ procs' = [procs EXCEPT ![p] = h] /\ UNCHANGED <<now, monitor>>
    BY <1>0, <1>2, <2>2 DEF RecordOver
  <2>5. checkins \in Seq(CheckIn) /\ checkins[id] \in CheckIn BY DEF TimeoutsInv
  <2>6. PICK row : /\ checkins' = [checkins EXCEPT ![id] = row]
                   /\ row = [checkins[id] EXCEPT !.status = old.outcome,
                                !.ended = Ended(old, checkins[id]),
                                !.overruled = (old.op = "timeout")]
    BY <1>2, <2>5 DEF RecordOver
  <2>7. row.due = checkins[id].due BY <2>5, <2>6 DEF CheckIn
  <2>8. Len(checkins') = Len(checkins) BY <2>5, <2>6
  <2>9. \A i \in 1..Len(checkins) : Due(i)' = Due(i) BY <2>5, <2>6, <2>7 DEF Due
  <2> QED BY <2>1, <2>3, <2>4, <2>8, <2>9, OtherMisses
<1>3. CASE WriteHealth(p)
  <2>1. PICK h : h = AfterHealth(old) OBVIOUS
  <2>2. /\ h.op = old.op /\ h.due = old.due
        /\ h.op = "missed" => h.at = "last"
    BY <1>0, <2>1 DEF AfterHealth, ProcType
  <2>3. /\ procs' = [procs EXCEPT ![p] = h] /\ UNCHANGED <<now, checkins>>
        /\ monitor'.last_at = monitor.last_at /\ old.at = "health"
    BY <1>0, <1>3, <2>1 DEF WriteHealth, Monitor
  <2>4. \A i : Due(i)' = Due(i) BY <2>3 DEF Due
  <2>5. CASE Searching(p) BY <2>2, <2>3, <2>5, SearchMoves DEF Searching
  <2>6. CASE ~ Searching(p)
    BY <1>0, <2>2, <2>3, <2>4, <2>6, OtherMisses DEF Searching
  <2> QED BY <2>5, <2>6
<1>4. CASE WriteLast(p)
  <2>1. PICK h : h = [old EXCEPT !.at = "stats", !.next = 0] OBVIOUS
  <2>2. h.op = old.op /\ h.due = old.due /\ h.at = "stats"
    BY <1>0, <2>1 DEF ProcType
  <2>3. /\ procs' = [procs EXCEPT ![p] = h] /\ UNCHANGED <<now, checkins>>
        /\ monitor'.last_at = now /\ old.at = "last"
    BY <1>0, <1>4, <2>1 DEF WriteLast, Monitor
  <2>4. \A i : Due(i)' = Due(i) BY <2>3 DEF Due
  <2>5. CASE Searching(p) BY <2>2, <2>3, <2>5, SearchMoves DEF Searching
  <2>6. CASE ~ Searching(p)
    BY <1>0, <2>2, <2>3, <2>4, <2>6, OtherMisses DEF Searching
  <2> QED BY <2>5, <2>6
<1>5. CASE WriteStats(p) \/ WriteMonitor(p)
  <2>2. \E g : /\ procs' = [procs EXCEPT ![p] = g] /\ g.op # "missed" /\ g.due = 0
    BY <1>0, <1>5, NoSearch DEF WriteStats, WriteMonitor
  <2>3. /\ UNCHANGED <<now, checkins>> /\ old.at \in {"stats", "write"}
        /\ monitor'.last_at = monitor.last_at
    BY <1>0, <1>5 DEF WriteStats, WriteMonitor, Incremented, Stored, Monitor
  <2>4. \A i : Due(i)' = Due(i) BY <2>3 DEF Due
  <2>5. CASE Searching(p) BY <2>2, <2>3, <2>5, SearchMoves
  <2>6. CASE ~ Searching(p) BY <2>2, <2>3, <2>4, <2>6, OtherMisses
  <2> QED BY <2>5, <2>6
<1> QED BY <1>1, <1>2, <1>3, <1>4, <1>5 DEF Statement

\* A failing statement of another handler.
LEMMA FailureMisses ==
  ASSUME TimeoutsInv, TimeoutsInv', Untangled, NEW p \in Proc, StatementFails(p), ~ tangled'
  PROVE  Untangled'
<1> DEFINE old == procs[p]
<1>0. /\ old \in ProcType /\ procs \in [Proc -> ProcType]
      /\ UNCHANGED <<now, monitor, checkins>>
      /\ old.at \in {"record", "health", "last", "stats", "write"}
  BY DEF TimeoutsInv, StatementFails, tables, ProcType
<1>1. ~ Searching(p) BY DEF StatementFails, Searching
<1>2. old.due = 0 /\ old.op # "missed" BY <1>1 DEF Untangled, Searching
<1>3. \E h : procs' = [procs EXCEPT ![p] = h] /\ h.op # "missed" /\ h.due = 0
  <2>1. CASE old.at = "write" BY <2>1, NoSearch DEF StatementFails
  <2>2. CASE old.at = "record" BY <2>2, NoSearch DEF StatementFails
  <2>3. CASE old.at \in {"health", "last"}
    <3>1. PICK h : /\ procs' = [procs EXCEPT ![p] = h]
                   /\ \/ h = AfterHealth(old)
                      \/ h = [old EXCEPT !.at = "stats", !.next = 0]
      BY <1>0, <2>3 DEF StatementFails
    <3>2. h.op = old.op /\ h.due = old.due
      <4>1. PICK o : o = old /\ o \in ProcType BY <1>0
      <4>2. CASE h = [o EXCEPT !.at = "stats", !.next = 0] BY <4>1, <4>2 DEF ProcType
      <4>3. CASE h = AfterHealth(o) BY <4>1, <4>3 DEF ProcType, AfterHealth
      <4> QED BY <3>1, <4>1, <4>2, <4>3
    <3> QED BY <1>2, <3>1, <3>2
  <2>4. CASE old.at = "stats"
    <3>1. procs' = [procs EXCEPT ![p] = Rest(old)] BY <1>0, <2>4 DEF StatementFails
    <3> QED BY <3>1, NoSearch
  <2> QED BY <1>0, <2>1, <2>2, <2>3, <2>4
<1>4. \A i : Due(i)' = Due(i) BY <1>0 DEF Due
<1> QED BY <1>0, <1>1, <1>3, <1>4, OtherMisses

\* A report that cannot read the monitor again.
LEMMA RereadMisses ==
  ASSUME TimeoutsInv, TimeoutsInv', Untangled, NEW p \in Proc, RereadFails(p)
  PROVE  Untangled'
<1>1. PICK old : old = procs[p] /\ old \in ProcType BY DEF TimeoutsInv
<1>2. PICK h : h = [old EXCEPT !.next = 0] OBVIOUS
<1>3. h.op = old.op /\ h.due = old.due BY <1>1, <1>2 DEF ProcType
<1>4. /\ procs' = [procs EXCEPT ![p] = h] /\ UNCHANGED <<now, monitor, checkins>>
      /\ old.op = "report"
  BY <1>1, <1>2 DEF RereadFails, TimeoutsInv, tables
<1>5. ~ Searching(p) /\ old.due = 0
  BY <1>1, <1>4 DEF Searching, Untangled
<1>6. \A i : Due(i)' = Due(i) BY <1>4 DEF Due
<1> QED BY <1>3, <1>4, <1>5, <1>6, OtherMisses

\* Every step keeps the invariant of missed check-ins.
LEMMA MissStep ==
  ASSUME TimeoutsInv, TimeoutsInv', MissInv, [Next]_vars
  PROVE  MissInv'
<1>1. tangled => tangled'
  BY DEF Next, vars, Tick, Start, Ping, Report, Change, Trigger, RunDetector, Call,
         Tangles, Statement, RecordNew, RecordOver, WriteHealth, WriteLast, WriteStats,
         WriteMonitor, StatementFails, RereadFails, Gone
<1> SUFFICES ASSUME Untangled, ~ tangled' PROVE Untangled'
  BY <1>1 DEF MissInv
<1>3. CASE UNCHANGED <<procs, monitor>> /\ now' >= now
           /\ \A i \in 1..Len(checkins') : Due(i)' # 0 =>
                i \in 1..Len(checkins) /\ Due(i)' = Due(i)
  <2>1. \A q \in Proc : Searching(q)' <=> Searching(q) BY <1>3 DEF Searching
  <2>2. \A q \in Proc : ~ Searching(q)' => procs'[q].due = 0
    BY <1>3, <2>1 DEF Untangled
  <2> QED BY <1>3, <2>1, <2>2, OthersMiss
<1>4. CASE Tick \/ UNCHANGED vars
  <2>1. UNCHANGED <<procs, monitor, checkins>> /\ now' >= now
    BY <1>4 DEF Tick, vars, tables, TimeoutsInv
  <2>2. \A i : Due(i)' = Due(i) BY <2>1 DEF Due
  <2> QED BY <1>3, <2>1, <2>2
<1>5. CASE Start
  <2> DEFINE row == [status |-> "in_progress", started_at |-> now, due |-> 0,
                     ended |-> "no", overruled |-> FALSE]
  <2>1. /\ checkins' = Append(checkins, row) /\ UNCHANGED <<procs, monitor>>
        /\ now' >= now
    BY <1>5 DEF Start, TimeoutsInv
  <2>2. row \in CheckIn /\ row.due = 0 BY DEF CheckIn, CheckInStatus, TimeoutsInv
  <2> HIDE DEF row
  <2>3. PICK k : /\ Len(checkins') = k /\ k = Len(checkins) + 1
                 /\ Len(checkins) \in Nat /\ checkins'[k] = row
                 /\ \A i \in 1..Len(checkins) : checkins'[i] = checkins[i]
    BY <2>1, <2>2, AppendProperties DEF TimeoutsInv
  <2>4. \A i \in 1..Len(checkins') : i \in 1..Len(checkins) \/ i = k BY <2>3
  <2>5. Due(k)' = 0 /\ \A i \in 1..Len(checkins) : Due(i)' = Due(i)
    BY <2>2, <2>3 DEF Due
  <2> QED BY <1>3, <2>1, <2>4, <2>5
<1>6. ASSUME NEW outcome, NEW started, Ping(outcome, started) PROVE Untangled'
  <2>1. PICK h : Call(h) /\ h = [Free EXCEPT !.op = "ping", !.at = "record",
                    !.outcome = outcome, !.started = started,
                    !.next = calculate_next_expected(now)]
    BY <1>6 DEF Ping
  <2>2. h.op # "missed" /\ h.due = 0 BY <2>1 DEF Free
  <2> QED BY <2>1, <2>2, CallMisses
<1>7. ASSUME NEW outcome, NEW id, Report(id, outcome) PROVE Untangled'
  <2>1. PICK h : Call(h) /\ h = [Free EXCEPT !.op = "report", !.at = "record",
                    !.outcome = outcome, !.id = id,
                    !.next = calculate_next_expected(now)]
    BY <1>7 DEF Report
  <2>2. h.op # "missed" /\ h.due = 0 BY <2>1 DEF Free
  <2> QED BY <2>1, <2>2, CallMisses
<1>8. ASSUME NEW op \in {"pause", "resume", "update"}, NEW limited,
             Change(op, limited)
      PROVE  Untangled'
  <2>1. PICK h : Call(h) /\ h = [Free EXCEPT !.op = op, !.at = "write",
                                            !.copy = Changed(op, limited)]
    BY <1>8 DEF Change
  <2>2. h.op # "missed" /\ h.due = 0 BY <2>1 DEF Free
  <2> QED BY <2>1, <2>2, CallMisses
<1>9. ASSUME NEW ps, Gone(ps) PROVE Untangled'
  <2>1. /\ procs' = [p \in Proc |-> IF p \in ps THEN Free ELSE procs[p]]
        /\ UNCHANGED <<now, monitor, checkins>>
        /\ \A p \in ps : procs[p].op # "missed"
    BY <1>9 DEF Gone, tables
  <2>2. \A q \in Proc : procs'[q] = IF q \in ps THEN Free ELSE procs[q] BY <2>1
  <2>3. \A q \in Proc : Searching(q) \/ Searching(q)' => procs'[q] = procs[q]
    BY <2>1, <2>2, NoSearch DEF Searching
  <2>4. \A q \in Proc : ~ Searching(q)' => procs'[q].due = 0
    BY <2>2, NoSearch DEF Searching, Untangled
  <2>5. \A i : Due(i)' = Due(i) BY <2>1 DEF Due
  <2>6. now' >= now BY <2>1 DEF TimeoutsInv
  <2> QED BY <2>1, <2>3, <2>4, <2>5, <2>6, OthersMiss
<1> QED BY <1>4, <1>5, <1>6, <1>7, <1>8, <1>9, DetectorMisses, StatementMisses,
           FailureMisses, RereadMisses
        DEF Next

\* No two missed check-ins are about the same deadline, unless two runs of the
\* missed-run detector overlap or one of its statements fails
\* (cron_missed_run.rs, list_overdue_monitors).
THEOREM MissesAreUnique == Spec => []OneMissPerDeadline
<1>1. Init => MissInv
  <2> SUFFICES ASSUME Init PROVE Untangled BY DEF MissInv
  <2>1. Len(checkins) = 0 /\ \A p \in Proc : procs[p] = Free BY DEF Init
  <2> QED BY <2>1, NoSearch DEF Untangled, Searching
<1>2. TimeoutsInv /\ TimeoutsInv' /\ MissInv /\ [Next]_vars => MissInv' BY MissStep
<1>3. MissInv => OneMissPerDeadline
  BY DEF MissInv, Untangled, Due, OneMissPerDeadline
<1> QED BY <1>1, <1>2, <1>3, TimeoutsInvariant, PTL DEF Spec
==============================================================================

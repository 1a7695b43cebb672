-------------------------- MODULE SchedulesProofs --------------------------
(***************************************************************************)
(* Proofs about Schedules, for any finite sets of tasks, any number of     *)
(* runs, instants, deaths, failed statements and requests of the owner:    *)
(* a due time starts one run, the runs of a repeating task are an interval *)
(* apart, and a task piles up one run for each death or failure at most.   *)
(*                                                                         *)
(* The invariant is in three parts.  ShapeInv says what a pass of the      *)
(* scheduler has in hand between two statements, FireInv how the fires     *)
(* there were, the claims in hand and a task's next_fire_at lie in time,   *)
(* and PileInv counts the runs that still go on.                           *)
(***************************************************************************)
EXTENDS Schedules, FiniteSetTheorems, FunctionTheorems, TLAPS

(* The rows of the runs and what a pass of the scheduler holds.            *)
RunStates == ActiveStates \union {"none", "settled", "interrupted"}
RunRows   == [state : RunStates, task : Scheduled \union {"none"},
              kind : {"none", "fire", "continuation"},
              session : {NoRunId} \union RunIds, due : Nat, at : Nat]
Passes    == [at : {"read", "claim", "check", "start", "record"}, now : Nat,
              rows : Seq(Due), claimed : Seq(Due), run : {NoRunId} \union RunIds]
Firing    == {"check", "start", "record"}

(* Run ids are handed out in order.                                        *)
InOrder == \E k \in 0 .. Cardinality(RunIds) :
              \A r \in RunIds : /\ runs[r].state # "none" <=> r <= k
                                /\ r > k => runs[r] = Unused

(* What each step of a pass finds in hand.                                 *)
PassShape ==
    /\ pass.now <= clock
    /\ ~alive \/ pass.at = "read" => pass = Idle
    /\ pass.at = "claim" => pass.rows # <<>>
    /\ pass.at \in Firing => pass.claimed # <<>> /\ pass.rows = <<>>
    /\ pass.at = "record" =>
          pass.run \in RunIds /\ runs[pass.run].task = Head(pass.claimed).task

(* The rows of a pass are rows of different tasks, still to be claimed or  *)
(* claimed.                                                                *)
PassRows ==
    /\ \A i, j \in 1 .. Len(pass.rows) : i # j => pass.rows[i].task # pass.rows[j].task
    /\ \A i, j \in 1 .. Len(pass.claimed) : i # j => pass.claimed[i].task # pass.claimed[j].task
    /\ \A i \in 1 .. Len(pass.rows), j \in 1 .. Len(pass.claimed) :
          pass.rows[i].task # pass.claimed[j].task

(* A row in hand was due when the pass began, and the last run it names is *)
(* still the one recorded: only the pass itself records one.               *)
Stands(row) == row.next <= pass.now /\ row.last = tasks[row.task].last
RowsStand ==
    /\ \A i \in 1 .. Len(pass.rows) : Stands(pass.rows[i])
    /\ \A i \in 1 .. Len(pass.claimed) : Stands(pass.claimed[i])

(* The types, and what a pass has in hand.                                 *)
ShapeInv == ScheduleTypeOK /\ InOrder /\ PassShape /\ PassRows /\ RowsStand

(* A task's next fire is past every fire it had.                           *)
Ahead(t) ==
    /\ t \in Repeating => tasks[t].next <= clock + Interval
    /\ \A r \in Fires(t) :
          /\ t \in Repeating => runs[r].due < tasks[t].next /\ runs[r].at + Interval <= tasks[t].next
          /\ t \in OneOff => ~tasks[t].enabled /\ tasks[t].next <= clock

(* A claim moved the task past the due time it claimed.                    *)
Claimed(row) ==
    /\ row.task \in Repeating =>
          row.next < tasks[row.task].next /\ pass.now + Interval <= tasks[row.task].next
    /\ row.task \in OneOff => ~tasks[row.task].enabled /\ tasks[row.task].next <= clock

(* A claim that has not started its run yet.                               *)
Waiting(row) ==
    \A r \in Fires(row.task) :
        row.task \in Repeating /\ runs[r].due < row.next /\ runs[r].at + Interval <= pass.now

(* Each claim in hand moved its task, and until its start no fire of the   *)
(* task is as late as it.                                                  *)
ClaimInv ==
    \A i \in 1 .. Len(pass.claimed) :
        /\ Claimed(pass.claimed[i])
        /\ ~(i = 1 /\ pass.at = "record") => Waiting(pass.claimed[i])

(* Fires, claims and next fires in order: what FireAtMostOnce and          *)
(* FiresSpaced need to survive a start.                                    *)
FireInv == (\A t \in Scheduled : Ahead(t)) /\ ClaimInv /\ FireAtMostOnce /\ FiresSpaced

(* The runs of a task that go on; the one that does not count against the  *)
(* bound, which is the last recorded or the one about to be; and a pass    *)
(* about to start one.                                                     *)
Going(t)   == {r \in RunIds : runs[r].task = t /\ Active(r)}
Excused(t) == IF pass.at = "record" /\ Head(pass.claimed).task = t THEN pass.run ELSE tasks[t].last
AtStart(t) == pass.at = "start" /\ Head(pass.claimed).task = t
(* The bound on what piles up: the check before a start finds the last     *)
(* recorded run over, so that all that go on then are excused by a death   *)
(* or a failed statement.                                                  *)
PileAt(t) ==
    /\ Cardinality(Going(t) \ {Excused(t)}) <= stops + lost
    /\ ~alive \/ AtStart(t) => Cardinality(Going(t)) <= stops + lost
PileInv == \A t \in Scheduled : PileAt(t)

-----------------------------------------------------------------------------
(* Counting.                                                               *)

LEMMA Numbers ==
    /\ IsFiniteSet(RunIds) /\ Cardinality(RunIds) \in Nat
    /\ RunIds = 1 .. Cardinality(RunIds) /\ RunIds \subseteq Nat
  <1>1. IsFiniteSet(RunIds) /\ RunIds = 1 .. Cardinality(RunIds) BY ScheduleAssumption
  <1>2. Cardinality(RunIds) \in Nat BY <1>1, FS_CardinalityType
  <1> QED BY <1>1, <1>2

(* The next run's id is the first that is free.                            *)
LEMMA NextIsFree ==
    ASSUME InOrder
    PROVE  /\ NextRun \in 1 .. (Cardinality(RunIds) + 1)
           /\ \A r \in RunIds : runs[r].state # "none" <=> r < NextRun
           /\ \A r \in RunIds : r >= NextRun => runs[r] = Unused
           /\ UnusedRuns # {} => NextRun \in RunIds
  <1>1. PICK k \in 0 .. Cardinality(RunIds) :
           \A r \in RunIds : (runs[r].state # "none" <=> r <= k) /\ (r > k => runs[r] = Unused)
    BY DEF InOrder
  <1>2. Cardinality(RunIds) \in Nat /\ RunIds = 1 .. Cardinality(RunIds) BY Numbers
  <1>3. RunIds \ UnusedRuns = 1 .. k BY <1>1, <1>2 DEF UnusedRuns
  <1>4. k \in Int /\ Cardinality(1 .. k) = IF 1 > k THEN 0 ELSE k - 1 + 1
    BY <1>2, FS_Interval
  <1>5. NextRun = k + 1
    <2>1. k \in Nat BY <1>2
    <2>2. Cardinality(1 .. k) = k BY <1>4, <2>1
    <2> QED BY <1>3, <2>2 DEF NextRun
  <1>6. UnusedRuns # {} => k < Cardinality(RunIds) BY <1>1, <1>2 DEF UnusedRuns
  <1> QED BY <1>1, <1>2, <1>5, <1>6

(* The rank of a number in a finite set: distinct, in order, without gaps. *)
Rank(r, S) == Cardinality({s \in S : s < r})

LEMMA Ranks ==
    ASSUME NEW S \in SUBSET Nat, IsFiniteSet(S)
    PROVE  /\ Cardinality(S) \in Nat
           /\ \A r \in S : Rank(r, S) \in 0 .. (Cardinality(S) - 1)
           /\ \A r, q \in S : r < q => Rank(r, S) < Rank(q, S)
           /\ \A n \in 0 .. (Cardinality(S) - 1) : \E r \in S : Rank(r, S) = n
  <1> DEFINE below(r) == {s \in S : s < r}
             N == Cardinality(S)
  <1>1. N \in Nat BY FS_CardinalityType
  <1>2. ASSUME NEW r \in S PROVE IsFiniteSet(below(r)) /\ Cardinality(below(r)) \in Nat
    BY FS_Subset, FS_CardinalityType
  <1>3. ASSUME NEW r \in S PROVE Cardinality(below(r)) \in 0 .. (N - 1)
    <2>1. below(r) \subseteq S \ {r} OBVIOUS
    <2>2. IsFiniteSet(S \ {r}) /\ Cardinality(S \ {r}) = N - 1 BY FS_RemoveElement
    <2>3. Cardinality(below(r)) <= N - 1 BY <2>1, <2>2, FS_Subset
    <2> QED BY <1>1, <1>2, <2>3
  <1>4. ASSUME NEW r \in S, NEW q \in S, r < q PROVE Cardinality(below(r)) < Cardinality(below(q))
    <2>1. below(r) \union {r} \subseteq below(q)
      <3>1. ASSUME NEW s \in below(r) PROVE s \in below(q)
        <4>1. s \in Nat /\ r \in Nat /\ q \in Nat /\ s \in S /\ s < r OBVIOUS
        <4>2. s < q BY <1>4, <4>1
        <4> QED BY <4>1, <4>2
      <3>2. r \in below(q) BY <1>4
      <3> HIDE DEF below
      <3> QED BY <3>1, <3>2
    <2>2. r \notin below(r) OBVIOUS
    <2>3. Cardinality(below(r) \union {r}) = Cardinality(below(r)) + 1 BY <1>2, <2>2, FS_AddElement
    <2>4. Cardinality(below(r) \union {r}) <= Cardinality(below(q)) BY <1>2, <2>1, FS_Subset
    <2> QED BY <1>2, <2>3, <2>4
  <1> DEFINE f == [r \in S |-> Cardinality(below(r))]
             T == 0 .. (N - 1)
  <1>5. f \in [S -> T] BY <1>3
  <1>6. ASSUME NEW r \in S, NEW q \in S, f[r] = f[q] PROVE r = q
    <2>1. r \in Nat /\ q \in Nat OBVIOUS
    <2>2. Cardinality(below(r)) = Cardinality(below(q)) BY <1>6
    <2>3. ~(r < q) /\ ~(q < r) BY <1>2, <1>4, <2>2
    <2> QED BY <2>1, <2>3
  <1>7. f \in Injection(S, T) BY <1>5, <1>6, Fun_IsInj
  <1>8. IsFiniteSet(T) /\ Cardinality(T) = N
    <2>1. 0 \in Int /\ N - 1 \in Int BY <1>1
    <2>2. IsFiniteSet(T) /\ Cardinality(T) = IF 0 > N - 1 THEN 0 ELSE (N - 1) - 0 + 1
      BY <2>1, FS_Interval
    <2> QED BY <1>1, <2>2
  <1>9. f \in Surjection(S, T) BY <1>7, <1>8, FS_Injection
  <1>10. ASSUME NEW n \in T PROVE \E r \in S : Cardinality(below(r)) = n
    <2> HIDE DEF f, T
    <2>1. \E r \in S : f[r] = n BY <1>9 DEF Surjection
    <2> USE DEF f
    <2> QED BY <2>1
  <1> QED BY <1>1, <1>3, <1>4, <1>10 DEF Rank

(* Sequences as a pass uses them.                                          *)
LEMMA TailOf ==
    ASSUME NEW X, NEW q \in Seq(X), q # <<>>
    PROVE  /\ Head(q) = q[1] /\ Head(q) \in X /\ 1 \in 1 .. Len(q)
           /\ Tail(q) \in Seq(X) /\ Len(Tail(q)) = Len(q) - 1 /\ Len(q) \in Nat
           /\ \A i \in 1 .. Len(Tail(q)) : i + 1 \in 2 .. Len(q) /\ Tail(q)[i] = q[i + 1]
           /\ Tail(q) = <<>> <=> Len(q) = 1
  <1>1. Len(q) \in Nat /\ Len(q) # 0 OBVIOUS
  <1>2. Head(q) = q[1] /\ Head(q) \in X /\ 1 \in 1 .. Len(q) BY <1>1
  <1>3. Tail(q) \in Seq(X) /\ Len(Tail(q)) = Len(q) - 1 BY <1>1
  <1>4. \A i \in 1 .. Len(Tail(q)) : i + 1 \in 2 .. Len(q) /\ Tail(q)[i] = q[i + 1] BY <1>1, <1>3
  <1> DEFINE t == Tail(q)
  <1>a. t \in Seq(X) BY <1>3
  <1> HIDE DEF t
  <1>b. t = <<>> => Len(t) = 0 OBVIOUS
  <1>c. Len(t) = 0 => t = <<>> BY <1>a
  <1>5. Tail(q) = <<>> <=> Len(Tail(q)) = 0 BY <1>b, <1>c DEF t
  <1>6. Tail(q) = <<>> <=> Len(q) = 1 BY <1>1, <1>3, <1>5
  <1> QED BY <1>1, <1>2, <1>3, <1>4, <1>6

LEMMA AppendOf ==
    ASSUME NEW X, NEW q \in Seq(X), NEW x \in X
    PROVE  /\ Append(q, x) \in Seq(X) /\ Len(Append(q, x)) = Len(q) + 1 /\ Len(q) \in Nat
           /\ \A i \in 1 .. Len(q) : Append(q, x)[i] = q[i]
           /\ Append(q, x)[Len(q) + 1] = x /\ Append(q, x) # <<>>
  OBVIOUS

-----------------------------------------------------------------------------
(* The pass.                                                               *)

LEMMA PassFields ==
    ASSUME ScheduleTypeOK
    PROVE  /\ pass \in Passes
           /\ pass = [at |-> pass.at, now |-> pass.now, rows |-> pass.rows,
                      claimed |-> pass.claimed, run |-> pass.run]
           /\ pass.at \in {"read", "claim", "check", "start", "record"} /\ pass.now \in Nat
           /\ pass.rows \in Seq(Due) /\ pass.claimed \in Seq(Due)
           /\ pass.run \in {NoRunId} \union RunIds
           /\ Len(pass.rows) \in Nat /\ Len(pass.claimed) \in Nat
  <1>1. pass \in Passes BY DEF ScheduleTypeOK, Passes
  <1>2. pass.rows \in Seq(Due) /\ pass.claimed \in Seq(Due) BY <1>1 DEF Passes
  <1>3. Len(pass.rows) \in Nat /\ Len(pass.claimed) \in Nat BY <1>2
  <1>4. /\ pass = [at |-> pass.at, now |-> pass.now, rows |-> pass.rows,
                   claimed |-> pass.claimed, run |-> pass.run]
        /\ pass.at \in {"read", "claim", "check", "start", "record"} /\ pass.now \in Nat
        /\ pass.run \in {NoRunId} \union RunIds
    BY <1>1 DEF Passes
  <1> QED BY <1>1, <1>2, <1>3, <1>4

LEMMA IdleFields ==
    /\ Idle \in Passes /\ Idle.at = "read" /\ Idle.now = 0
    /\ Idle.rows = <<>> /\ Idle.claimed = <<>> /\ Len(Idle.rows) = 0 /\ Len(Idle.claimed) = 0
  <1>1. <<>> \in Seq(Due) OBVIOUS
  <1>2. /\ Idle.at = "read" /\ Idle.now = 0 /\ Idle.rows = <<>> /\ Idle.claimed = <<>>
    BY DEF Idle
  <1>3. Idle \in Passes BY <1>1 DEF Idle, Passes
  <1>4. Len(Idle.rows) = 0 /\ Len(Idle.claimed) = 0 BY <1>2
  <1> QED BY <1>2, <1>3, <1>4

(* A pass that ended holds nothing.                                        *)
LEMMA EndedPass ==
    ASSUME pass' = Idle, clock' \in Nat
    PROVE  pass' \in Passes /\ PassShape' /\ PassRows' /\ RowsStand'
  <1>1. /\ pass' \in Passes /\ pass'.at = "read" /\ pass'.now = 0
        /\ Len(pass'.rows) = 0 /\ Len(pass'.claimed) = 0
    BY IdleFields
  <1> QED BY <1>1 DEF PassShape, PassRows, RowsStand, Firing

(* The fire in hand is over: the other claims stay as they are.            *)
LEMMA NextFireOf ==
    ASSUME ScheduleTypeOK, PassShape, pass.at \in Firing, NEW p, p = NextFire
    PROVE  /\ p \in Passes /\ p.rows = <<>> /\ p.at \in {"read", "check"}
           /\ p.at = "read" => p = Idle
           /\ p.at = "check" => p.claimed # <<>> /\ p.now = pass.now
           /\ \A i \in 1 .. Len(p.claimed) :
                 /\ p.at = "check" /\ p.now = pass.now
                 /\ i + 1 \in 2 .. Len(pass.claimed) /\ p.claimed[i] = pass.claimed[i + 1]
  <1>1. pass.claimed # <<>> /\ pass.rows = <<>> BY DEF PassShape
  <1> DEFINE q == pass.claimed
  <1>2. q \in Seq(Due) /\ pass \in Passes BY PassFields
  <1>3. /\ Tail(q) \in Seq(Due) /\ Len(Tail(q)) = Len(q) - 1 /\ Len(q) \in Nat
        /\ \A i \in 1 .. Len(Tail(q)) : i + 1 \in 2 .. Len(q) /\ Tail(q)[i] = q[i + 1]
        /\ Tail(q) = <<>> <=> Len(q) = 1
    BY <1>1, <1>2, TailOf
  <1>4. CASE Len(q) = 1
    <2>1. p = Idle BY <1>4 DEF NextFire
    <2> QED BY <2>1, IdleFields
  <1>5. CASE Len(q) # 1
    <2>1. p = [at |-> "check", now |-> pass.now, rows |-> pass.rows, claimed |-> Tail(q), run |-> NoRunId]
      <3>1. p = [pass EXCEPT !.claimed = Tail(pass.claimed), !.at = "check", !.run = NoRunId]
        BY <1>5 DEF NextFire
      <3> QED BY <3>1, PassFields
    <2> DEFINE u == Tail(q)
    <2>2. u \in Seq(Due) /\ u # <<>> BY <1>3, <1>5
    <2> HIDE DEF u
    <2>3. p.at = "check" /\ p.now = pass.now /\ p.rows = <<>> /\ p.claimed = u
      BY <1>1, <2>1 DEF u
    <2>4. p \in Passes
      <3>1. p = [at |-> "check", now |-> pass.now, rows |-> pass.rows, claimed |-> u, run |-> NoRunId]
        BY <2>1 DEF u
      <3> QED BY <2>2, <3>1, PassFields DEF Passes
    <2> QED BY <1>3, <2>2, <2>3, <2>4 DEF u
  <1> QED BY <1>4, <1>5

LEMMA SeqOf ==
    ASSUME NEW X, NEW n \in Nat, NEW s \in [1 .. n -> X]
    PROVE  s \in Seq(X) /\ Len(s) = n
  OBVIOUS

(* What a read of the due rows gives: one row of each due task.            *)
LEMMA DueRowsOf ==
    ASSUME ScheduleTypeOK, NEW s \in DueRows
    PROVE  /\ s \in Seq(Due) /\ Len(s) \in Nat
           /\ \A i \in 1 .. Len(s) :
                 /\ s[i].task \in Scheduled /\ s[i].next = tasks[s[i].task].next
                 /\ s[i].next <= clock /\ s[i].last = tasks[s[i].task].last
           /\ \A i, j \in 1 .. Len(s) : i # j => s[i].task # s[j].task
  <1> DEFINE due == {t \in Scheduled :
                        tasks[t].present /\ tasks[t].enabled /\ tasks[t].next <= clock}
             n == Cardinality(due)
             row(t) == [task |-> t, next |-> tasks[t].next, last |-> tasks[t].last]
  <1>1. PICK o \in [1 .. n -> due] : /\ \A t \in due : \E i \in DOMAIN o : o[i] = t
                                     /\ s = [i \in DOMAIN o |-> row(o[i])]
    BY DEF DueRows
  <1>2. IsFiniteSet(due)
    <2>1. IsFiniteSet(Scheduled) BY ScheduleAssumption, FS_Union DEF Scheduled
    <2> QED BY <2>1, FS_Subset
  <1>3. n \in Nat BY <1>2, FS_CardinalityType
  <1>4. IsFiniteSet(1 .. n) /\ Cardinality(1 .. n) = Cardinality(due)
    <2>1. 1 \in Int /\ n \in Int BY <1>3
    <2>2. IsFiniteSet(1 .. n) /\ Cardinality(1 .. n) = IF 1 > n THEN 0 ELSE n - 1 + 1
      BY <2>1, FS_Interval
    <2> QED BY <1>3, <2>2
  <1>5. \A i, j \in 1 .. n : o[i] = o[j] => i = j
    <2> HIDE DEF due
    <2>1. o \in Surjection(1 .. n, due) BY <1>1, Fun_IsSurj
    <2>2. o \in Injection(1 .. n, due) BY <1>4, <2>1, FS_SurjSameCardinalityImpliesInj
    <2> QED BY <2>2 DEF Injection, IsInjective
  <1>6. ASSUME NEW t \in due
        PROVE  row(t) \in Due /\ row(t).task = t /\ row(t).next = tasks[t].next
               /\ row(t).last = tasks[t].last /\ tasks[t].next <= clock /\ t \in Scheduled
    <2>1. tasks[t] \in Row BY DEF ScheduleTypeOK
    <2> QED BY <2>1 DEF Row, Due
  <1>7. \A i \in 1 .. n : o[i] \in due /\ s[i] = row(o[i])
    BY <1>1
  <1> HIDE DEF due, row
  <1>8. s \in [1 .. n -> Due] BY <1>1, <1>6
  <1>9. s \in Seq(Due) /\ Len(s) = n BY <1>3, <1>8, SeqOf
  <1>10. ASSUME NEW i \in 1 .. n
         PROVE  /\ s[i].task = o[i] /\ s[i].task \in Scheduled /\ s[i].next = tasks[s[i].task].next
                /\ s[i].next <= clock /\ s[i].last = tasks[s[i].task].last
    BY <1>6, <1>7
  <1> QED BY <1>3, <1>5, <1>9, <1>10

(* How a step may move a task's row: a repeating task's next fire only     *)
(* goes up, to an interval from now at most; a one-off's time stays, and a *)
(* disabled one whose time passed stays disabled.                          *)
TaskMoves(t) ==
    /\ t \in Repeating =>
          tasks[t].next <= tasks'[t].next /\ tasks'[t].next <= clock' + Interval
    /\ t \in OneOff =>
          tasks'[t].next = tasks[t].next /\ (tasks'[t].enabled => tasks[t].enabled \/ tasks[t].next > clock)

LEMMA TaskFields ==
    ASSUME ScheduleTypeOK, NEW t \in Scheduled
    PROVE  /\ tasks[t] \in Row /\ tasks[t].next \in Nat /\ tasks[t].enabled \in BOOLEAN
           /\ tasks[t].present \in BOOLEAN /\ tasks[t].last \in {NoRunId} \union RunIds
           /\ tasks[t] = [present |-> tasks[t].present, enabled |-> tasks[t].enabled,
                          next |-> tasks[t].next, last |-> tasks[t].last]
           /\ clock \in Nat /\ Interval \in Nat /\ Interval > 0
           /\ (t \in OneOff => t \notin Repeating) /\ (t \notin OneOff => t \in Repeating)
  <1>1. tasks[t] \in Row BY DEF ScheduleTypeOK
  <1>2. clock \in Nat BY ScheduleAssumption DEF ScheduleTypeOK
  <1> QED BY <1>1, <1>2, ScheduleAssumption DEF Row, Scheduled

(* Every task moves so when none changes and the clock does not go back.   *)
LEMMA TasksStay ==
    ASSUME ScheduleTypeOK, FireInv, tasks' = tasks, clock' \in Nat, clock' >= clock
    PROVE  \A t \in Scheduled : TaskMoves(t)
  <1> SUFFICES ASSUME NEW t \in Scheduled PROVE TaskMoves(t) OBVIOUS
  <1>1. t \in Repeating => tasks[t].next <= clock + Interval BY DEF FireInv, Ahead
  <1>2. tasks[t].next \in Nat /\ clock \in Nat /\ Interval \in Nat BY TaskFields
  <1>3. t \in Repeating => tasks[t].next <= clock' + Interval BY <1>1, <1>2
  <1> QED BY <1>2, <1>3 DEF TaskMoves

LEMMA OwnerMoves ==
    ASSUME ScheduleTypeOK, FireInv, NEW t \in Scheduled, Pause(t) \/ Reenable(t) \/ Delete(t)
    PROVE  /\ tasks' \in [Scheduled -> Row]
           /\ \A u \in Scheduled : tasks'[u].last = tasks[u].last /\ TaskMoves(u)
  <1>1. clock' = clock BY DEF Pause, Reenable, Delete, Request
  <1>2. tasks \in [Scheduled -> Row] BY DEF ScheduleTypeOK
  <1> DEFINE next == IF t \in OneOff THEN tasks[t].next ELSE clock + Interval
  <1>3. \/ tasks' = [tasks EXCEPT ![t].enabled = FALSE]
        \/ /\ tasks' = [tasks EXCEPT ![t].enabled = TRUE, ![t].next = next]
           /\ t \in OneOff => tasks[t].next > clock
        \/ tasks' = [tasks EXCEPT ![t].present = FALSE]
    BY DEF Pause, Reenable, Delete, FirstFire
  <1>a. /\ tasks[t] \in Row /\ tasks[t].next \in Nat /\ tasks[t].enabled \in BOOLEAN
        /\ tasks[t].present \in BOOLEAN /\ tasks[t].last \in {NoRunId} \union RunIds
        /\ tasks[t] = [present |-> tasks[t].present, enabled |-> tasks[t].enabled,
                       next |-> tasks[t].next, last |-> tasks[t].last]
        /\ clock \in Nat /\ Interval \in Nat
        /\ (t \in OneOff => t \notin Repeating) /\ (t \notin OneOff => t \in Repeating)
    BY TaskFields
  <1>4. next \in Nat BY <1>a
  <1>5. \E row \in Row :
           /\ tasks' = [tasks EXCEPT ![t] = row] /\ row.last = tasks[t].last
           /\ row.next \in {tasks[t].next, next}
           /\ (row.enabled => tasks[t].enabled \/ (t \in OneOff => tasks[t].next > clock))
    <2> HIDE DEF next
    <2>1. CASE tasks' = [tasks EXCEPT ![t].enabled = FALSE]
      <3> DEFINE row == [tasks[t] EXCEPT !.enabled = FALSE]
      <3>1. tasks' = [tasks EXCEPT ![t] = row] BY <1>2, <2>1
      <3>2. row \in Row /\ row.next = tasks[t].next /\ row.last = tasks[t].last BY <1>a DEF Row
      <3>3. ~row.enabled BY <1>a DEF Row
      <3> HIDE DEF row
      <3> QED BY <3>1, <3>2, <3>3
    <2>2. CASE /\ tasks' = [tasks EXCEPT ![t].enabled = TRUE, ![t].next = next]
               /\ t \in OneOff => tasks[t].next > clock
      <3> DEFINE row == [tasks[t] EXCEPT !.enabled = TRUE, !.next = next]
      <3>1. tasks' = [tasks EXCEPT ![t] = row] BY <1>2, <2>2
      <3>2. row \in Row /\ row.next = next /\ row.last = tasks[t].last BY <1>4, <1>a DEF Row
      <3> HIDE DEF row
      <3> QED BY <2>2, <3>1, <3>2
    <2>3. CASE tasks' = [tasks EXCEPT ![t].present = FALSE]
      <3> DEFINE row == [tasks[t] EXCEPT !.present = FALSE]
      <3>1. tasks' = [tasks EXCEPT ![t] = row] BY <1>2, <2>3
      <3>2. row \in Row /\ row.next = tasks[t].next /\ row.last = tasks[t].last BY <1>a DEF Row
      <3>3. row.enabled => tasks[t].enabled BY <1>a DEF Row
      <3> HIDE DEF row
      <3> QED BY <3>1, <3>2, <3>3
    <2> QED BY <1>3, <2>1, <2>2, <2>3
  <1>6. PICK row \in Row :
           /\ tasks' = [tasks EXCEPT ![t] = row] /\ row.last = tasks[t].last
           /\ row.next \in {tasks[t].next, next}
           /\ (row.enabled => tasks[t].enabled \/ (t \in OneOff => tasks[t].next > clock))
    BY <1>5
  <1>7. ASSUME NEW u \in Scheduled PROVE tasks'[u].last = tasks[u].last /\ TaskMoves(u)
    <2>1. u \in Repeating => tasks[u].next <= clock + Interval BY DEF FireInv, Ahead
    <2>2. CASE u # t
      <3>1. tasks'[u] = tasks[u] BY <1>2, <1>6, <2>2
      <3>2. tasks[u].next \in Nat BY TaskFields
      <3> QED BY <1>1, <2>1, <3>1, <3>2 DEF TaskMoves
    <2>3. CASE u = t
      <3>1. tasks'[t] = row BY <1>2, <1>6
      <3>2. CASE t \in OneOff
        <4>1. row.next = tasks[t].next BY <1>6, <3>2
        <4> QED BY <1>6, <1>a, <2>3, <3>1, <3>2, <4>1 DEF TaskMoves
      <3>3. CASE t \notin OneOff
        <4>1. row.next \in {tasks[t].next, clock + Interval} BY <1>6, <3>3
        <4>2. tasks[t].next <= row.next /\ row.next <= clock + Interval
          BY <1>a, <2>1, <2>3, <3>3, <4>1
        <4> QED BY <1>1, <1>6, <1>a, <2>3, <3>1, <3>3, <4>2 DEF TaskMoves
      <3> QED BY <3>2, <3>3
    <2> QED BY <2>2, <2>3
  <1>8. tasks' \in [Scheduled -> Row] BY <1>2, <1>6
  <1> QED BY <1>7, <1>8

(* A claim: the row leaves the due ones, and the task moves past it.       *)
Took(won) ==
    /\ pass' \in Passes /\ pass'.now = pass.now
    /\ pass'.rows = Tail(pass.rows) /\ pass'.claimed = won
    /\ IF Tail(pass.rows) # <<>> THEN pass'.at = "claim" ELSE pass'.at = "check" /\ won # <<>>

(* A claim that succeeded: the row was as it was read.                     *)
Won(row) ==
    /\ tasks[row.task].enabled /\ tasks[row.task].next = row.next
    /\ tasks'[row.task].last = tasks[row.task].last
    /\ \A u \in Scheduled : u # row.task => tasks'[u] = tasks[u]
    /\ row.task \in OneOff => ~tasks'[row.task].enabled /\ tasks'[row.task].next = row.next
    /\ row.task \in Repeating => tasks'[row.task].next = pass.now + Interval

LEMMA ClaimOf ==
    ASSUME ShapeInv, ClaimRow
    PROVE  /\ UNCHANGED <<clock, alive, stops, runs, requests>>
           /\ tasks' \in [Scheduled -> Row] /\ pass.rows # <<>>
           /\ \/ pass' = Idle /\ tasks' = tasks /\ lost' = lost + 1 /\ lost < MaxLostWrites
              \/ tasks' = tasks /\ lost' = lost /\ (pass' = Idle \/ Took(pass.claimed))
              \/ Won(Head(pass.rows)) /\ lost' = lost /\ Took(Append(pass.claimed, Head(pass.rows)))
  <1> DEFINE row == Head(pass.rows)
             t == row.task
             more == Tail(pass.rows) # <<>>
             mine == tasks[t].present /\ tasks[t].enabled /\ tasks[t].next = row.next
             moved(won) == [pass EXCEPT !.rows = Tail(@), !.claimed = won,
                                        !.at = IF more THEN "claim" ELSE "check"]
  <1>0. ScheduleTypeOK /\ pass.rows # <<>> BY DEF ShapeInv, PassShape, ClaimRow
  <1>1. UNCHANGED <<clock, alive, stops, runs, requests>> BY DEF ClaimRow
  <1>2. /\ pass = [at |-> pass.at, now |-> pass.now, rows |-> pass.rows,
                   claimed |-> pass.claimed, run |-> pass.run]
        /\ pass.now \in Nat /\ pass.rows \in Seq(Due) /\ pass.claimed \in Seq(Due)
        /\ pass.run \in {NoRunId} \union RunIds
    BY <1>0, PassFields
  <1>3. row \in Due /\ Tail(pass.rows) \in Seq(Due) BY <1>0, <1>2, TailOf
  <1>4. t \in Scheduled /\ row.next \in Nat BY <1>3 DEF Due
  <1>5. ASSUME NEW won \in Seq(Due), pass' = moved(won), more \/ won # <<>>
        PROVE  Took(won)
    <2> DEFINE rest == Tail(pass.rows)
    <2>1. rest \in Seq(Due) BY <1>3
    <2>2. pass' = [at |-> IF rest # <<>> THEN "claim" ELSE "check", now |-> pass.now, rows |-> rest,
                   claimed |-> won, run |-> pass.run]
      BY <1>2, <1>5
    <2>3. rest # <<>> \/ won # <<>> BY <1>5
    <2> HIDE DEF rest
    <2>4. /\ pass' \in Passes /\ pass'.now = pass.now /\ pass'.rows = rest /\ pass'.claimed = won
          /\ pass'.at = IF rest # <<>> THEN "claim" ELSE "check"
      BY <1>2, <2>1, <2>2 DEF Passes
    <2> QED BY <2>3, <2>4 DEF Took, rest
  <1>6. CASE pass' = Idle /\ tasks' = tasks /\ lost' = lost + 1 /\ lost < MaxLostWrites
    BY <1>0, <1>1, <1>6 DEF ScheduleTypeOK
  <1>7. CASE lost' = lost /\ ~mine /\ tasks' = tasks
             /\ pass' = IF ~more /\ pass.claimed = <<>> THEN Idle ELSE moved(pass.claimed)
    <2>1. pass' = Idle \/ Took(pass.claimed)
      <3> HIDE DEF more, moved
      <3> QED BY <1>2, <1>5, <1>7
    <2> QED BY <1>0, <1>1, <1>7, <2>1 DEF ScheduleTypeOK
  <1>8. CASE /\ lost' = lost /\ mine
             /\ tasks' = IF t \in OneOff THEN [tasks EXCEPT ![t].enabled = FALSE]
                         ELSE [tasks EXCEPT ![t].next = NextAfter(pass.now, row.next)]
             /\ pass' = IF ~more /\ Append(pass.claimed, row) = <<>> THEN Idle
                        ELSE moved(Append(pass.claimed, row))
    <2>1. Append(pass.claimed, row) \in Seq(Due) /\ Append(pass.claimed, row) # <<>>
      BY <1>2, <1>3, AppendOf
    <2>2. Took(Append(pass.claimed, row))
      <3> DEFINE won == Append(pass.claimed, row)
      <3>1. pass' = moved(won) /\ won # <<>> /\ won \in Seq(Due) BY <1>8, <2>1
      <3> HIDE DEF won, more, moved
      <3>2. Took(won) BY <1>5, <3>1
      <3> QED BY <3>2 DEF won
    <2>3. tasks[t] \in Row /\ tasks \in [Scheduled -> Row] BY <1>0, <1>4 DEF ScheduleTypeOK
    <2> HIDE DEF t, row
    <2>4. tasks' \in [Scheduled -> Row] /\ Won(row)
      <3>0. mine BY <1>8
      <3>1. CASE t \in OneOff
        <4> DEFINE r == [tasks[t] EXCEPT !.enabled = FALSE]
        <4>1. tasks' = [tasks EXCEPT ![t] = r] BY <1>8, <2>3, <3>1
        <4>2. r \in Row /\ r.next = tasks[t].next /\ r.last = tasks[t].last BY <2>3 DEF Row
        <4>3. ~r.enabled BY <2>3 DEF Row
        <4>4. t \notin Repeating BY <3>1, ScheduleAssumption
        <4> HIDE DEF r
        <4>5. tasks'[t] = r /\ \A u \in Scheduled : u # t => tasks'[u] = tasks[u] BY <1>4, <2>3, <4>1
        <4>6. tasks' \in [Scheduled -> Row] BY <2>3, <4>1, <4>2
        <4> QED BY <3>0, <4>2, <4>3, <4>4, <4>5, <4>6 DEF Won, t
      <3>2. CASE t \notin OneOff
        <4> DEFINE n == pass.now + Interval
                   r == [tasks[t] EXCEPT !.next = n]
        <4>1. tasks' = [tasks EXCEPT ![t] = r] BY <1>8, <2>3, <3>2 DEF NextAfter
        <4>0. n \in Nat BY <1>2, ScheduleAssumption
        <4>2. r \in Row /\ r.next = n /\ r.last = tasks[t].last BY <2>3, <4>0 DEF Row
        <4> HIDE DEF r
        <4>5. tasks'[t] = r /\ \A u \in Scheduled : u # t => tasks'[u] = tasks[u] BY <1>4, <2>3, <4>1
        <4>6. tasks' \in [Scheduled -> Row] BY <2>3, <4>1, <4>2
        <4> QED BY <3>0, <3>2, <4>2, <4>5, <4>6 DEF Won, t
      <3> QED BY <3>1, <3>2
    <2> QED BY <1>0, <1>1, <1>8, <2>2, <2>4 DEF row
  <1> QED BY <1>6, <1>7, <1>8 DEF ClaimRow

-----------------------------------------------------------------------------
(* The runs.                                                               *)

(* A step that starts no fire keeps the fires as they are.                 *)
SameFires ==
    \A r \in RunIds :
        /\ runs'[r].kind = "fire" <=> runs[r].kind = "fire"
        /\ runs[r].kind = "fire" => runs'[r].task = runs[r].task /\ runs'[r].due = runs[r].due
                                    /\ runs'[r].at = runs[r].at

LEMMA RunTypes ==
    ASSUME ScheduleTypeOK
    PROVE  runs \in [RunIds -> RunRows]
  BY DEF ScheduleTypeOK, RunRows, RunStates

LEMMA GoingFinite ==
    ASSUME NEW t
    PROVE  IsFiniteSet(Going(t)) /\ Cardinality(Going(t)) \in Nat
           /\ IsFiniteSet(Going(t)') /\ Cardinality(Going(t)') \in Nat
  <1>1. Going(t) \subseteq RunIds /\ Going(t)' \subseteq RunIds BY DEF Going
  <1>2. IsFiniteSet(Going(t)) /\ IsFiniteSet(Going(t)') BY <1>1, Numbers, FS_Subset
  <1> QED BY <1>2, FS_CardinalityType

(* A restart interrupts what was working and continues some of it under    *)
(* the next ids: no fire is added, and no task has more runs going.        *)
LEMMA RestartOf ==
    ASSUME ScheduleTypeOK, InOrder, Restart
    PROVE  /\ runs' \in [RunIds -> RunRows] /\ InOrder' /\ SameFires
           /\ \A t \in Scheduled : Cardinality(Going(t)') <= Cardinality(Going(t))
  <1> DEFINE cut == {r \in RunIds : runs[r].state = "working"}
             again == {r \in cut : Newest(r) /\ runs[r].kind = "fire"}
             new(r, S) == NextRun + Cardinality({s \in S : s < r})
  <1>1. PICK S \in SUBSET again :
             /\ {new(r, S) : r \in S} \subseteq RunIds
             /\ runs' = [i \in RunIds |->
                   IF i \in cut THEN [runs[i] EXCEPT !.state = "interrupted"]
                   ELSE IF \E r \in S : new(r, S) = i
                     THEN LET r == CHOOSE r \in S : new(r, S) = i
                          IN  [runs[r] EXCEPT !.kind = "continuation", !.at = clock]
                   ELSE runs[i]]
    BY DEF Restart
  <1> DEFINE id(r) == NextRun + Rank(r, S)
             src(i) == CHOOSE r \in S : id(r) = i
             N == Cardinality(RunIds)
             M == Cardinality(S)
  <1>2. N \in Nat /\ RunIds = 1 .. N /\ NextRun \in 1 .. (N + 1) /\ IsFiniteSet(RunIds) /\ RunIds \subseteq Nat
        /\ (\A r \in RunIds : runs[r].state # "none" <=> r < NextRun)
        /\ (\A r \in RunIds : r >= NextRun => runs[r] = Unused)
    BY Numbers, NextIsFree
  <1>3. S \in SUBSET Nat /\ S \subseteq cut /\ S \subseteq RunIds /\ IsFiniteSet(S) /\ cut \subseteq RunIds
    <2>1. S \subseteq cut /\ cut \subseteq RunIds OBVIOUS
    <2> QED BY <1>2, <2>1, FS_Subset
  <1>4. /\ M \in Nat
        /\ \A r \in S : Rank(r, S) \in 0 .. (M - 1)
        /\ \A r, q \in S : r < q => Rank(r, S) < Rank(q, S)
        /\ \A n \in 0 .. (M - 1) : \E r \in S : Rank(r, S) = n
    BY <1>3, Ranks
  <1>5. /\ \A r \in S : id(r) \in RunIds
        /\ runs' = [i \in RunIds |->
              IF i \in cut THEN [runs[i] EXCEPT !.state = "interrupted"]
              ELSE IF \E r \in S : id(r) = i
                THEN [runs[src(i)] EXCEPT !.kind = "continuation", !.at = clock]
              ELSE runs[i]]
    BY <1>1 DEF Rank
  <1> HIDE DEF new
  <1>6. ASSUME NEW i \in RunIds, i < NextRun
        PROVE  runs'[i] = IF i \in cut THEN [runs[i] EXCEPT !.state = "interrupted"] ELSE runs[i]
    <2>1. \A r \in S : id(r) # i BY <1>2, <1>4, <1>6
    <2> HIDE DEF cut, id, src
    <2> QED BY <1>5, <2>1
  <1>7. ASSUME NEW i \in RunIds, i >= NextRun
        PROVE  /\ i \notin cut
               /\ ~(\E r \in S : id(r) = i) => runs'[i] = runs[i]
               /\ (\E r \in S : id(r) = i) =>
                     /\ src(i) \in S /\ id(src(i)) = i
                     /\ runs'[i] = [runs[src(i)] EXCEPT !.kind = "continuation", !.at = clock]
    <2>1. i \notin cut
      <3>1. runs[i] = Unused BY <1>2, <1>7
      <3> QED BY <3>1 DEF Unused
    <2>2. (\E r \in S : id(r) = i) => src(i) \in S /\ id(src(i)) = i OBVIOUS
    <2> HIDE DEF cut, id, src
    <2> QED BY <1>5, <2>1, <2>2
  <1>8. ASSUME NEW r \in RunIds
        PROVE  /\ runs[r] \in RunRows
               /\ LET x == [runs[r] EXCEPT !.state = "interrupted"]
                  IN  x \in RunRows /\ x.state = "interrupted" /\ x.task = runs[r].task
                      /\ x.kind = runs[r].kind /\ x.due = runs[r].due /\ x.at = runs[r].at
               /\ LET x == [runs[r] EXCEPT !.kind = "continuation", !.at = clock]
                  IN  x \in RunRows /\ x.state = runs[r].state /\ x.task = runs[r].task
                      /\ x.kind = "continuation"
    <2>1. runs[r] \in RunRows BY RunTypes
    <2>2. clock \in Nat BY ScheduleAssumption DEF ScheduleTypeOK
    <2> QED BY <2>1, <2>2 DEF RunRows, RunStates
  <1> HIDE DEF src, id, again
  <1>9. ASSUME NEW i \in RunIds
        PROVE  \/ i < NextRun /\ i \in cut
               \/ i < NextRun /\ i \notin cut
               \/ i >= NextRun /\ (\E r \in S : id(r) = i)
               \/ i >= NextRun /\ ~(\E r \in S : id(r) = i)
    BY <1>2
  <1>10. runs' \in [RunIds -> RunRows]
    <2>1. ASSUME NEW i \in RunIds PROVE runs'[i] \in RunRows
      <3>1. CASE i < NextRun BY <1>6, <1>8, <3>1
      <3>2. CASE i >= NextRun /\ (\E r \in S : id(r) = i)
        <4>1. src(i) \in RunIds /\ runs'[i] = [runs[src(i)] EXCEPT !.kind = "continuation", !.at = clock]
          BY <1>3, <1>7, <3>2
        <4> QED BY <1>8, <4>1
      <3>3. CASE i >= NextRun /\ ~(\E r \in S : id(r) = i)
        <4>1. runs'[i] = runs[i] BY <1>7, <3>3
        <4> QED BY <1>8, <4>1
      <3> QED BY <1>9, <3>1, <3>2, <3>3
    <2>2. runs' = [i \in RunIds |-> runs'[i]] BY <1>5
    <2> QED BY <2>1, <2>2
  <1>11. SameFires
    <2>1. ASSUME NEW i \in RunIds
          PROVE  /\ runs'[i].kind = "fire" <=> runs[i].kind = "fire"
                 /\ runs[i].kind = "fire" => runs'[i].task = runs[i].task /\ runs'[i].due = runs[i].due
                                             /\ runs'[i].at = runs[i].at
      <3>1. CASE i < NextRun BY <1>6, <1>8, <3>1
      <3>2. CASE i >= NextRun
        <4>1. runs[i].kind = "none" BY <1>2, <3>2 DEF Unused
        <4>2. CASE \E r \in S : id(r) = i
          <5>1. src(i) \in RunIds /\ runs'[i] = [runs[src(i)] EXCEPT !.kind = "continuation", !.at = clock]
            BY <1>3, <1>7, <3>2, <4>2
          <5>2. runs'[i].kind = "continuation" BY <1>8, <5>1
          <5> QED BY <4>1, <5>2
        <4>3. CASE ~(\E r \in S : id(r) = i)
          <5>1. runs'[i] = runs[i] BY <1>7, <3>2, <4>3
          <5> QED BY <4>1, <5>1
        <4> QED BY <4>2, <4>3
      <3> QED BY <1>2, <3>1, <3>2
    <2> QED BY <2>1 DEF SameFires
  (* the state of every run afterwards *)
  <1>12. ASSUME NEW i \in RunIds
         PROVE  /\ i < NextRun /\ i \in cut => runs'[i].state = "interrupted"
                /\ i < NextRun /\ i \notin cut => runs'[i] = runs[i]
                /\ i >= NextRun /\ (\E r \in S : id(r) = i) =>
                      /\ src(i) \in S /\ id(src(i)) = i /\ src(i) \in RunIds
                      /\ runs'[i].state = "working" /\ runs'[i].task = runs[src(i)].task
                /\ i >= NextRun /\ ~(\E r \in S : id(r) = i) => runs'[i] = Unused
    <2>0. i \in Nat /\ NextRun \in Nat BY <1>2
    <2>1. CASE i < NextRun
      <3>1. runs'[i] = IF i \in cut THEN [runs[i] EXCEPT !.state = "interrupted"] ELSE runs[i]
        BY <1>6, <2>1
      <3>2. [runs[i] EXCEPT !.state = "interrupted"].state = "interrupted" BY <1>8
      <3> HIDE DEF cut
      <3> QED BY <2>0, <2>1, <3>1, <3>2
    <2>2. CASE i >= NextRun /\ (\E r \in S : id(r) = i)
      <3>1. /\ src(i) \in S /\ id(src(i)) = i
            /\ runs'[i] = [runs[src(i)] EXCEPT !.kind = "continuation", !.at = clock]
        BY <1>7, <2>2
      <3>2. src(i) \in RunIds /\ runs[src(i)].state = "working" BY <1>3, <3>1
      <3>3. runs'[i].state = "working" /\ runs'[i].task = runs[src(i)].task BY <1>8, <3>1, <3>2
      <3> QED BY <1>2, <2>2, <3>1, <3>2, <3>3
    <2>3. CASE i >= NextRun /\ ~(\E r \in S : id(r) = i)
      <3>1. runs'[i] = runs[i] BY <1>7, <2>3
      <3> QED BY <1>2, <2>3, <3>1
    <2> QED BY <1>2, <2>1, <2>2, <2>3
  <1>13. InOrder'
    <2> DEFINE k == NextRun - 1 + M
    <2>1. k \in 0 .. N
      <3>1. CASE M = 0 BY <1>2, <3>1
      <3>2. CASE M > 0
        <4>1. M - 1 \in 0 .. (M - 1) BY <1>4, <3>2
        <4>2. PICK r \in S : Rank(r, S) = M - 1 BY <1>4, <4>1
        <4>3. id(r) \in RunIds /\ id(r) = NextRun + (M - 1) BY <1>5, <4>2 DEF id
        <4> QED BY <1>2, <1>4, <4>3
      <3> QED BY <1>4, <3>1, <3>2
    <2>2. ASSUME NEW i \in RunIds, i >= NextRun
          PROVE  (\E r \in S : id(r) = i) <=> i <= k
      <3>1. ASSUME NEW r \in S, id(r) = i PROVE i <= k BY <1>2, <1>4, <3>1 DEF id
      <3>2. ASSUME i <= k PROVE \E r \in S : id(r) = i
        <4>1. i - NextRun \in 0 .. (M - 1) BY <1>2, <1>4, <2>2, <3>2
        <4>2. PICK r \in S : Rank(r, S) = i - NextRun BY <1>4, <4>1
        <4>3. id(r) = i BY <1>2, <4>2 DEF id
        <4> QED BY <4>3
      <3> QED BY <3>1, <3>2
    <2>3. ASSUME NEW i \in RunIds
          PROVE  /\ runs'[i].state # "none" <=> i <= k
                 /\ i > k => runs'[i] = Unused
      <3>1. CASE i < NextRun
        <4>1. i <= k BY <1>2, <1>4, <3>1
        <4>2. runs'[i].state # "none" BY <1>2, <1>12, <3>1
        <4> QED BY <1>2, <2>1, <4>1, <4>2
      <3>2. CASE i >= NextRun /\ (\E r \in S : id(r) = i)
        <4>1. i <= k BY <2>2, <3>2
        <4>2. runs'[i].state # "none" BY <1>12, <3>2
        <4> QED BY <1>2, <2>1, <4>1, <4>2
      <3>3. CASE i >= NextRun /\ ~(\E r \in S : id(r) = i)
        <4>1. ~(i <= k) BY <2>2, <3>3
        <4>2. runs'[i] = Unused BY <1>12, <3>3
        <4>3. runs'[i].state = "none" BY <4>2 DEF Unused
        <4> QED BY <4>1, <4>2, <4>3
      <3> QED BY <1>9, <3>1, <3>2, <3>3
    <2> HIDE DEF k
    <2> QED BY <2>1, <2>3 DEF InOrder
  <1>14. ASSUME NEW t \in Scheduled PROVE Cardinality(Going(t)') <= Cardinality(Going(t))
    <2> DEFINE g == [i \in Going(t)' |-> IF i < NextRun THEN i ELSE src(i)]
    <2>1. ASSUME NEW i \in Going(t)'
          PROVE  /\ g[i] \in Going(t) /\ i \in RunIds
                 /\ i < NextRun => g[i] = i /\ i \notin cut
                 /\ ~(i < NextRun) => g[i] \in cut /\ id(g[i]) = i
      <3>1. i \in RunIds /\ runs'[i].task = t /\ runs'[i].state \in ActiveStates
        BY DEF Going, Active
      <3>2. CASE i < NextRun
        <4>1. i \notin cut BY <1>12, <3>1, <3>2 DEF ActiveStates
        <4>2. runs'[i] = runs[i] BY <1>12, <3>1, <3>2, <4>1
        <4> QED BY <3>1, <3>2, <4>1, <4>2 DEF Going, Active
      <3>3. CASE ~(i < NextRun)
        <4>0. i >= NextRun BY <1>2, <3>1, <3>3
        <4>1. \E r \in S : id(r) = i BY <1>12, <3>1, <4>0 DEF ActiveStates, Unused
        <4>2. /\ src(i) \in S /\ id(src(i)) = i /\ src(i) \in RunIds
              /\ runs'[i].task = runs[src(i)].task
          BY <1>12, <3>1, <4>0, <4>1
        <4>3. src(i) \in cut /\ runs[src(i)].state = "working" BY <1>3, <4>2
        <4> QED BY <3>1, <3>3, <4>2, <4>3 DEF Going, Active, ActiveStates
      <3> QED BY <3>2, <3>3
    <2>2. g \in [Going(t)' -> Going(t)] BY <2>1
    <2>3. ASSUME NEW i \in Going(t)', NEW j \in Going(t)', g[i] = g[j] PROVE i = j
      <3> HIDE DEF g
      <3> QED BY <2>1, <2>3
    <2> HIDE DEF g
    <2>4. g \in Injection(Going(t)', Going(t)) BY <2>2, <2>3, Fun_IsInj
    <2> QED BY <2>4, GoingFinite, FS_Injection
  <1> QED BY <1>10, <1>11, <1>13, <1>14

(* A start: the run gets the first free id, and is a fire of the task.     *)
Started(row) ==
    /\ NextRun \in RunIds /\ runs' \in [RunIds -> RunRows]
    /\ \A r \in RunIds : r # NextRun => runs'[r] = runs[r]
    /\ runs[NextRun] = Unused
    /\ runs'[NextRun].kind = "fire" /\ runs'[NextRun].state = "working"
    /\ runs'[NextRun].task = row.task /\ runs'[NextRun].due = row.next /\ runs'[NextRun].at = pass.now

LEMMA StartOf ==
    ASSUME ShapeInv, StartRun
    PROVE  /\ UNCHANGED <<clock, alive, stops, tasks, requests>> /\ pass.claimed # <<>>
           /\ \/ /\ Started(Head(pass.claimed)) /\ InOrder' /\ lost' = lost
                 /\ pass' = [pass EXCEPT !.at = "record", !.run = NextRun]
              \/ lost < MaxLostWrites /\ lost' = lost + 1 /\ pass' = NextFire /\ runs' = runs
  <1>1. ScheduleTypeOK /\ InOrder /\ pass.claimed # <<>> /\ pass.at = "start"
    BY DEF ShapeInv, PassShape, StartRun, Firing
  <1>2. UNCHANGED <<clock, alive, stops, tasks, requests>> BY DEF StartRun
  <1>3. CASE lost < MaxLostWrites /\ lost' = lost + 1 /\ pass' = NextFire /\ runs' = runs
    BY <1>1, <1>2, <1>3
  <1> DEFINE row == Head(pass.claimed)
             run == [state |-> "working", task |-> row.task, kind |-> "fire",
                     session |-> SessionOf(row), due |-> row.next, at |-> pass.now]
  <1>4. CASE /\ UnusedRuns # {} /\ runs' = [runs EXCEPT ![NextRun] = run] /\ lost' = lost
             /\ pass' = [pass EXCEPT !.at = "record", !.run = NextRun]
    <2>1. /\ NextRun \in 1 .. (Cardinality(RunIds) + 1) /\ NextRun \in RunIds
          /\ \A r \in RunIds : runs[r].state # "none" <=> r < NextRun
          /\ \A r \in RunIds : r >= NextRun => runs[r] = Unused
          /\ Cardinality(RunIds) \in Nat /\ RunIds = 1 .. Cardinality(RunIds)
      BY <1>1, <1>4, NextIsFree, Numbers
    <2>2. row \in Due /\ pass.now \in Nat BY <1>1, PassFields, TailOf
    <2>3. runs \in [RunIds -> RunRows] BY <1>1, RunTypes
    <2>4. row.task \in Scheduled /\ row.next \in Nat /\ row.last \in {NoRunId} \union RunIds
      BY <2>2 DEF Due
    <2> HIDE DEF row
    <2>5. SessionOf(row) \in {NoRunId} \union RunIds
      <3>1. CASE row.last = NoRunId BY <2>1, <3>1 DEF SessionOf
      <3>2. CASE row.last # NoRunId
        <4>1. runs[row.last] \in RunRows BY <2>3, <2>4, <3>2
        <4> QED BY <3>2, <4>1 DEF SessionOf, RunRows
      <3> QED BY <3>1, <3>2
    <2>6. run \in RunRows
      <3> DEFINE x == SessionOf(row)
      <3>1. x \in {NoRunId} \union RunIds BY <2>5
      <3> HIDE DEF x
      <3>2. [state |-> "working", task |-> row.task, kind |-> "fire",
             session |-> x, due |-> row.next, at |-> pass.now] \in RunRows
        BY <2>2, <2>4, <3>1 DEF RunRows, RunStates, ActiveStates
      <3> QED BY <3>2 DEF x
    <2>7. run.kind = "fire" /\ run.state = "working" /\ run.task = row.task /\ run.due = row.next
          /\ run.at = pass.now
      OBVIOUS
    <2> HIDE DEF run
    <2>8. runs' \in [RunIds -> RunRows] /\ runs'[NextRun] = run
          /\ \A r \in RunIds : r # NextRun => runs'[r] = runs[r]
      BY <1>4, <2>1, <2>3, <2>6
    <2>9. Started(row) BY <2>1, <2>7, <2>8 DEF Started
    <2>10. NextRun \in 0 .. Cardinality(RunIds) BY <2>1
    <2>11. ASSUME NEW r \in RunIds
           PROVE  (runs'[r].state # "none" <=> r <= NextRun) /\ (r > NextRun => runs'[r] = Unused)
      <3>1. CASE r = NextRun BY <2>1, <2>7, <2>8, <3>1
      <3>2. CASE r # NextRun BY <2>1, <2>8, <3>2
      <3> QED BY <3>1, <3>2
    <2> DEFINE k == NextRun
    <2>12. k \in 0 .. Cardinality(RunIds)
           /\ \A r \in RunIds : (runs'[r].state # "none" <=> r <= k) /\ (r > k => runs'[r] = Unused)
      BY <2>10, <2>11
    <2> HIDE DEF k
    <2>13. InOrder' BY <2>12 DEF InOrder
    <2> QED BY <1>1, <1>2, <1>4, <2>9, <2>13 DEF row
  <1> QED BY <1>3, <1>4 DEF StartRun

(* The pass goes on with the rows it has.                                  *)
LEMMA PassGoesOn ==
    ASSUME ShapeInv, clock' \in Nat, clock' >= clock, pass' = pass,
           pass = Idle \/ alive',
           \A u \in Scheduled : tasks'[u].last = tasks[u].last,
           pass.at = "record" => runs'[pass.run].task = runs[pass.run].task
    PROVE  pass' \in Passes /\ PassShape' /\ PassRows' /\ RowsStand'
  <1>1. ScheduleTypeOK BY DEF ShapeInv
  <1>2. pass \in Passes /\ pass.rows \in Seq(Due) /\ pass.claimed \in Seq(Due) /\ pass.now \in Nat
    BY <1>1, PassFields
  <1>3. clock \in Nat BY <1>1, ScheduleAssumption DEF ScheduleTypeOK
  <1>4. PassRows' BY DEF ShapeInv, PassRows
  <1>5. \A row \in Due : row.task \in Scheduled BY DEF Due
  <1>6. RowsStand'
    <2>1. ASSUME NEW row \in Due, Stands(row) PROVE Stands(row)'
      BY <1>5, <2>1 DEF Stands
    <2>2. \A i \in 1 .. Len(pass.rows) : pass.rows[i] \in Due BY <1>2
    <2>3. \A i \in 1 .. Len(pass.claimed) : pass.claimed[i] \in Due BY <1>2
    <2>4. RowsStand BY DEF ShapeInv
    <2> QED BY <2>1, <2>2, <2>3, <2>4 DEF RowsStand, Stands
  <1>7. PassShape'
    <2>1. PassShape BY DEF ShapeInv
    <2>2. pass.now <= clock' BY <1>2, <1>3, <2>1 DEF PassShape
    <2>3. pass = Idle => pass.at = "read" BY IdleFields
    <2> QED BY <2>1, <2>2, <2>3 DEF PassShape
  <1> QED BY <1>2, <1>4, <1>6, <1>7

(* The pass drops the fire in hand.                                        *)
LEMMA PassDrops ==
    ASSUME ShapeInv, pass.at \in Firing, pass' = NextFire, clock' = clock, alive',
           \A u \in Scheduled : u # Head(pass.claimed).task => tasks'[u].last = tasks[u].last
    PROVE  pass' \in Passes /\ PassShape' /\ PassRows' /\ RowsStand'
  <1>1. ScheduleTypeOK /\ PassShape BY DEF ShapeInv
  <1>2. clock \in Nat BY <1>1, ScheduleAssumption DEF ScheduleTypeOK
  <1>3. CASE pass' = Idle BY <1>2, <1>3, EndedPass
  <1>4. CASE pass' # Idle
    <2> DEFINE q == pass.claimed
               n == Len(pass'.claimed)
    <2>1. /\ pass' \in Passes /\ pass'.rows = <<>> /\ pass'.at = "check"
          /\ pass'.claimed # <<>> /\ pass'.now = pass.now
          /\ \A i \in 1 .. n : i + 1 \in 2 .. Len(q) /\ pass'.claimed[i] = q[i + 1]
      BY <1>1, <1>4, NextFireOf
    <2>2. q # <<>> /\ q \in Seq(Due) BY <1>1, PassFields DEF PassShape
    <2>3. Head(q) = q[1] /\ Len(q) \in Nat /\ 1 \in 1 .. Len(q) BY <2>2, TailOf
    <2>4. Len(pass'.rows) = 0 BY <2>1
    <2>5. PassShape' BY <1>1, <2>1 DEF PassShape, Firing
    <2> HIDE DEF n
    <2>a. n \in Nat
      <3>1. pass'.claimed \in Seq(Due) BY <2>1 DEF Passes
      <3> QED BY <3>1 DEF n
    <2>6. ASSUME NEW i \in 1 .. n, NEW j \in 1 .. n, i # j
          PROVE  pass'.claimed[i].task # pass'.claimed[j].task
      <3>1. i + 1 \in 1 .. Len(q) /\ j + 1 \in 1 .. Len(q) /\ i + 1 # j + 1
        BY <2>1, <2>3, <2>6, <2>a
      <3>2. \A a, b \in 1 .. Len(q) : a # b => q[a].task # q[b].task BY DEF ShapeInv, PassRows
      <3> QED BY <2>1, <3>1, <3>2
    <2>7. PassRows' BY <2>4, <2>6 DEF PassRows, n
    <2>8. ASSUME NEW i \in 1 .. n PROVE Stands(pass.claimed[i])'
      <3>1. i + 1 \in 1 .. Len(q) /\ i + 1 # 1 /\ pass'.claimed[i] = q[i + 1] BY <2>1, <2>3, <2>a
      <3>2. q[i + 1] \in Due /\ Stands(q[i + 1]) BY <2>2, <3>1 DEF ShapeInv, RowsStand
      <3>3. q[i + 1].task \in Scheduled BY <3>2 DEF Due
      <3>4. q[i + 1].task # q[1].task BY <2>3, <3>1 DEF ShapeInv, PassRows
      <3> QED BY <2>1, <2>3, <3>1, <3>2, <3>3, <3>4 DEF Stands
    <2>9. RowsStand' BY <2>4, <2>8 DEF RowsStand, n
    <2> QED BY <2>1, <2>5, <2>7, <2>9
  <1> QED BY <1>3, <1>4

(* The read: the pass takes a row of each due task.                        *)
LEMMA ReadOf ==
    ASSUME ShapeInv, ReadDue
    PROVE  /\ UNCHANGED <<clock, alive, stops, tasks, runs, lost, requests>>
           /\ pass' \in Passes /\ PassShape' /\ PassRows' /\ RowsStand'
           /\ pass'.at \in {"read", "claim"} /\ Len(pass'.claimed) = 0
  <1>1. ScheduleTypeOK /\ pass = Idle /\ alive BY DEF ShapeInv, PassShape, ReadDue
  <1>2. UNCHANGED <<clock, alive, stops, tasks, runs, lost, requests>> BY DEF ReadDue
  <1>3. clock \in Nat BY <1>1, ScheduleAssumption DEF ScheduleTypeOK
  <1>4. PICK s \in DueRows :
           pass' = IF s = <<>> THEN Idle ELSE [pass EXCEPT !.at = "claim", !.now = clock, !.rows = s]
    BY DEF ReadDue
  <1>5. CASE s = <<>>
    <2>1. pass' = Idle BY <1>4, <1>5
    <2> QED BY <1>2, <1>3, <2>1, EndedPass, IdleFields
  <1>6. CASE s # <<>>
    <2>1. /\ s \in Seq(Due) /\ Len(s) \in Nat
          /\ \A i \in 1 .. Len(s) :
                /\ s[i].task \in Scheduled /\ s[i].next = tasks[s[i].task].next
                /\ s[i].next <= clock /\ s[i].last = tasks[s[i].task].last
          /\ \A i, j \in 1 .. Len(s) : i # j => s[i].task # s[j].task
      BY <1>1, DueRowsOf
    <2>2. pass' = [at |-> "claim", now |-> clock, rows |-> s, claimed |-> pass.claimed, run |-> pass.run]
      BY <1>1, <1>4, <1>6, PassFields
    <2>3. pass.claimed = <<>> /\ pass.claimed \in Seq(Due) /\ pass.run \in {NoRunId} \union RunIds
      BY <1>1, IdleFields, PassFields
    <2>4. /\ pass' \in Passes /\ pass'.at = "claim" /\ pass'.now = clock /\ pass'.rows = s
          /\ pass'.claimed = <<>>
      BY <1>3, <2>1, <2>2, <2>3 DEF Passes
    <2>5. Len(pass'.claimed) = 0 BY <2>4
    <2>6. PassShape' BY <1>1, <1>2, <1>3, <1>6, <2>4 DEF PassShape, Firing
    <2>7. PassRows' BY <2>1, <2>4, <2>5 DEF PassRows
    <2>8. RowsStand' BY <1>2, <2>1, <2>4, <2>5 DEF RowsStand, Stands
    <2> QED BY <1>2, <2>4, <2>5, <2>6, <2>7, <2>8
  <1> QED BY <1>5, <1>6

LEMMA ClaimShape ==
    ASSUME ShapeInv, ClaimRow
    PROVE  pass' \in Passes /\ PassShape' /\ PassRows' /\ RowsStand'
  <1>1. ScheduleTypeOK /\ PassShape /\ PassRows /\ RowsStand BY DEF ShapeInv
  <1>2. clock \in Nat /\ clock' = clock /\ alive' = alive /\ alive /\ pass.rows # <<>>
    BY <1>1, ClaimOf, ScheduleAssumption DEF ScheduleTypeOK, ClaimRow
  <1>3. CASE pass' = Idle BY <1>2, <1>3, EndedPass
  <1> DEFINE q == pass.rows
             row == Head(pass.rows)
  <1>4. /\ q \in Seq(Due) /\ pass.claimed \in Seq(Due) /\ Len(pass.claimed) \in Nat
        /\ row = q[1] /\ row \in Due /\ 1 \in 1 .. Len(q) /\ Len(q) \in Nat
        /\ Len(Tail(q)) = Len(q) - 1
        /\ \A i \in 1 .. Len(Tail(q)) : i + 1 \in 2 .. Len(q) /\ Tail(q)[i] = q[i + 1]
    BY <1>1, <1>2, PassFields, TailOf
  <1>5. \A u \in Scheduled : tasks'[u].last = tasks[u].last BY ClaimOf DEF Won
  <1>6. ASSUME NEW won \in {pass.claimed, Append(pass.claimed, row)}, Took(won)
        PROVE  pass' \in Passes /\ PassShape' /\ PassRows' /\ RowsStand'
    <2> HIDE DEF q, row
    (* a claimed row is an earlier claim or the first due row *)
    <2>1. Len(won) \in Nat
          /\ \A j \in 1 .. Len(won) :
                \/ j \in 1 .. Len(pass.claimed) /\ won[j] = pass.claimed[j]
                \/ j = Len(pass.claimed) + 1 /\ won[j] = row
      <3>1. CASE won = pass.claimed BY <1>4, <3>1
      <3>2. CASE won = Append(pass.claimed, row)
        <4>1. /\ Len(won) = Len(pass.claimed) + 1 /\ \A i \in 1 .. Len(pass.claimed) : won[i] = pass.claimed[i]
              /\ won[Len(pass.claimed) + 1] = row
          BY <1>4, <3>2, AppendOf
        <4> QED BY <1>4, <4>1
      <3> QED BY <1>6, <3>1, <3>2
    <2>2. /\ pass' \in Passes /\ pass'.now = pass.now /\ pass'.rows = Tail(q) /\ pass'.claimed = won
          /\ IF Tail(q) # <<>> THEN pass'.at = "claim" ELSE pass'.at = "check" /\ won # <<>>
      BY <1>6 DEF Took, q
    <2>3. PassShape' BY <1>1, <1>2, <2>2 DEF PassShape, Firing
    <2>4. /\ \A i, j \in 1 .. Len(q) : i # j => q[i].task # q[j].task
          /\ \A i, j \in 1 .. Len(pass.claimed) : i # j => pass.claimed[i].task # pass.claimed[j].task
          /\ \A i \in 1 .. Len(q), j \in 1 .. Len(pass.claimed) : q[i].task # pass.claimed[j].task
      BY <1>1 DEF PassRows, q
    <2>5. ASSUME NEW i \in 1 .. Len(Tail(q))
          PROVE  i + 1 \in 1 .. Len(q) /\ i + 1 # 1 /\ Tail(q)[i] = q[i + 1] /\ i \in Nat
      BY <1>4
    <2>6. ASSUME NEW i \in 1 .. Len(Tail(q)), NEW j \in 1 .. Len(Tail(q)), i # j
          PROVE  Tail(q)[i].task # Tail(q)[j].task
      BY <2>4, <2>5, <2>6
    <2>7. ASSUME NEW i \in 1 .. Len(won), NEW j \in 1 .. Len(won), i # j
          PROVE  won[i].task # won[j].task
      BY <1>4, <2>1, <2>4, <2>7
    <2>8. ASSUME NEW i \in 1 .. Len(Tail(q)), NEW j \in 1 .. Len(won)
          PROVE  Tail(q)[i].task # won[j].task
      BY <1>4, <2>1, <2>4, <2>5
    <2>9. PassRows' BY <2>2, <2>6, <2>7, <2>8 DEF PassRows
    <2>11. (\A i \in 1 .. Len(q) : Stands(q[i])) /\ (\A i \in 1 .. Len(pass.claimed) : Stands(pass.claimed[i]))
      BY <1>1 DEF RowsStand, q
    <2>12. (\A i \in 1 .. Len(q) : q[i] \in Due) /\ (\A i \in 1 .. Len(pass.claimed) : pass.claimed[i] \in Due)
      BY <1>4
    <2>13. ASSUME NEW i \in 1 .. Len(Tail(q)) PROVE Tail(q)[i] \in Due /\ Stands(Tail(q)[i])
      BY <2>5, <2>11, <2>12
    <2>14. ASSUME NEW i \in 1 .. Len(won) PROVE won[i] \in Due /\ Stands(won[i])
      BY <1>4, <2>1, <2>11, <2>12
    <2>15. \A i \in 1 .. Len(pass'.rows) : Stands(pass.rows[i])'
      <3>1. ASSUME NEW i \in 1 .. Len(pass'.rows) PROVE Stands(pass.rows[i])'
        <4>1. pass'.rows[i] \in Due /\ Stands(pass'.rows[i]) BY <2>2, <2>13
        <4>2. pass'.rows[i].task \in Scheduled BY <4>1 DEF Due
        <4> QED BY <1>5, <2>2, <4>1, <4>2 DEF Stands
      <3> QED BY <3>1
    <2>16. \A i \in 1 .. Len(pass'.claimed) : Stands(pass.claimed[i])'
      <3>1. ASSUME NEW i \in 1 .. Len(pass'.claimed) PROVE Stands(pass.claimed[i])'
        <4>1. pass'.claimed[i] \in Due /\ Stands(pass'.claimed[i]) BY <2>2, <2>14
        <4>2. pass'.claimed[i].task \in Scheduled BY <4>1 DEF Due
        <4> QED BY <1>5, <2>2, <4>1, <4>2 DEF Stands
      <3> QED BY <3>1
    <2>17. RowsStand' BY <2>15, <2>16 DEF RowsStand
    <2> QED BY <2>2, <2>3, <2>9, <2>17
  <1> HIDE DEF q
  <1> QED BY <1>3, <1>6, ClaimOf

LEMMA ShapeStep ==
    ASSUME ShapeInv, FireInv, [ScheduleNext]_scheduleVars
    PROVE  ShapeInv'
  <1>1. ScheduleTypeOK /\ InOrder BY DEF ShapeInv
  <1>2. /\ clock \in 0 .. Horizon /\ clock \in Nat /\ Horizon \in Nat /\ alive \in BOOLEAN
        /\ stops \in 0 .. MaxStops /\ MaxStops \in Nat /\ tasks \in [Scheduled -> Row]
        /\ runs \in [RunIds -> RunRows] /\ lost \in 0 .. MaxLostWrites /\ MaxLostWrites \in Nat
        /\ requests \in 0 .. MaxRequests /\ MaxRequests \in Nat
    BY <1>1, RunTypes, ScheduleAssumption DEF ScheduleTypeOK
  <1>3. SUFFICES /\ clock' \in 0 .. Horizon /\ alive' \in BOOLEAN /\ stops' \in 0 .. MaxStops
                 /\ tasks' \in [Scheduled -> Row] /\ runs' \in [RunIds -> RunRows]
                 /\ lost' \in 0 .. MaxLostWrites /\ requests' \in 0 .. MaxRequests
                 /\ InOrder' /\ pass' \in Passes /\ PassShape' /\ PassRows' /\ RowsStand'
    BY DEF ShapeInv, ScheduleTypeOK, RunRows, RunStates, Passes
  <1>4. runs' = runs => InOrder' BY <1>1 DEF InOrder
  <1>5. lost < MaxLostWrites /\ lost' = lost + 1 => lost' \in 0 .. MaxLostWrites BY <1>2
  <1>6. CASE ReadDue BY <1>2, <1>4, <1>6, ReadOf
  <1>7. CASE ClaimRow
    <2>1. /\ UNCHANGED <<clock, alive, stops, runs, requests>> /\ tasks' \in [Scheduled -> Row]
          /\ lost' = lost \/ (lost < MaxLostWrites /\ lost' = lost + 1)
      BY <1>7, ClaimOf
    <2>2. pass' \in Passes /\ PassShape' /\ PassRows' /\ RowsStand' BY <1>7, ClaimShape
    <2> QED BY <1>2, <1>4, <1>5, <2>1, <2>2
  <1>8. ASSUME pass.at \in Firing, pass' = NextFire, alive, UNCHANGED <<clock, alive, stops, runs, requests>>,
               tasks' = tasks \/ tasks' = [tasks EXCEPT ![Head(pass.claimed).task].last = pass.run],
               lost' = lost \/ (lost < MaxLostWrites /\ lost' = lost + 1)
        PROVE  /\ tasks' \in [Scheduled -> Row] /\ lost' \in 0 .. MaxLostWrites /\ InOrder'
               /\ pass' \in Passes /\ PassShape' /\ PassRows' /\ RowsStand'
    <2>1. pass.run \in {NoRunId} \union RunIds BY <1>1, PassFields
    <2>2. tasks' \in [Scheduled -> Row] BY <1>2, <1>8, <2>1 DEF Row
    <2>3. \A u \in Scheduled : u # Head(pass.claimed).task => tasks'[u].last = tasks[u].last
      BY <1>2, <1>8
    <2>4. pass' \in Passes /\ PassShape' /\ PassRows' /\ RowsStand' BY <1>8, <2>3, PassDrops
    <2> QED BY <1>2, <1>4, <1>5, <1>8, <2>2, <2>4
  (* a fire that starts or is recorded *)
  <1>9. ASSUME pass.at \in Firing, alive', UNCHANGED <<clock, tasks>>, NEW a \in {"start", "record"}, NEW r \in {NoRunId} \union RunIds,
               pass' = [pass EXCEPT !.at = a, !.run = r],
               a = "record" => r \in RunIds /\ runs'[r].task = Head(pass.claimed).task
        PROVE  pass' \in Passes /\ PassShape' /\ PassRows' /\ RowsStand'
    <2>1. /\ pass' \in Passes /\ pass'.at = a /\ pass'.now = pass.now /\ pass'.rows = pass.rows
          /\ pass'.claimed = pass.claimed /\ pass'.run = r
      BY <1>1, <1>9, PassFields DEF Passes
    <2>2. PassShape' BY <1>9, <2>1 DEF ShapeInv, PassShape, Firing
    <2>3. PassRows' BY <2>1 DEF ShapeInv, PassRows
    <2>4. RowsStand' BY <1>9, <2>1 DEF ShapeInv, RowsStand, Stands
    <2> QED BY <2>1, <2>2, <2>3, <2>4
  <1>10. CASE CheckPrevious
    <2>1. UNCHANGED <<clock, alive, stops, tasks, runs, requests>> /\ alive /\ pass.at = "check"
      BY <1>10 DEF CheckPrevious
    <2>2. lost' = lost \/ (lost < MaxLostWrites /\ lost' = lost + 1) BY <1>10 DEF CheckPrevious
    <2>3. pass' = NextFire \/ pass' = [pass EXCEPT !.at = "start"] BY <1>10 DEF CheckPrevious
    <2>4. CASE pass' = NextFire BY <1>2, <1>8, <2>1, <2>2, <2>4 DEF Firing
    <2>5. CASE pass' = [pass EXCEPT !.at = "start"]
      <3>1. pass' = [pass EXCEPT !.at = "start", !.run = pass.run] /\ pass.run \in {NoRunId} \union RunIds
        BY <1>1, <2>5, PassFields
      <3>2. pass' \in Passes /\ PassShape' /\ PassRows' /\ RowsStand' BY <1>9, <2>1, <3>1 DEF Firing
      <3> QED BY <1>2, <1>4, <1>5, <2>1, <2>2, <3>2
    <2> QED BY <2>3, <2>4, <2>5
  <1>11. CASE StartRun
    <2>1. UNCHANGED <<clock, alive, stops, tasks, requests>> /\ alive /\ pass.at = "start"
      BY <1>11 DEF StartRun
    <2>2. CASE lost < MaxLostWrites /\ lost' = lost + 1 /\ pass' = NextFire /\ runs' = runs
      BY <1>2, <1>8, <2>1, <2>2 DEF Firing
    <2>3. CASE /\ Started(Head(pass.claimed)) /\ InOrder' /\ lost' = lost
               /\ pass' = [pass EXCEPT !.at = "record", !.run = NextRun]
      <3> DEFINE n == NextRun
      <3>1. n \in RunIds /\ runs'[n].task = Head(pass.claimed).task /\ runs' \in [RunIds -> RunRows]
            /\ pass' = [pass EXCEPT !.at = "record", !.run = n]
        BY <2>3 DEF Started
      <3> HIDE DEF n
      <3>2. pass' \in Passes /\ PassShape' /\ PassRows' /\ RowsStand' BY <1>9, <2>1, <3>1 DEF Firing
      <3> QED BY <1>2, <2>1, <2>3, <3>1, <3>2
    <2> QED BY <1>11, <2>2, <2>3, StartOf
  <1>12. CASE RecordRun
    <2>1. UNCHANGED <<clock, alive, stops, runs, requests>> /\ alive /\ pass.at = "record" /\ pass' = NextFire
      BY <1>12 DEF RecordRun
    <2>2. /\ lost' = lost \/ (lost < MaxLostWrites /\ lost' = lost + 1)
          /\ tasks' = tasks \/ tasks' = [tasks EXCEPT ![Head(pass.claimed).task].last = pass.run]
      BY <1>12 DEF RecordRun
    <2> QED BY <1>2, <1>8, <2>1, <2>2 DEF Firing
  <1>13. CASE \E t \in Scheduled : Pause(t) \/ Reenable(t) \/ Delete(t)
    <2>1. PICK t \in Scheduled : Pause(t) \/ Reenable(t) \/ Delete(t) BY <1>13
    <2>2. UNCHANGED <<clock, alive, stops, runs, pass, lost>> /\ alive
          /\ requests < MaxRequests /\ requests' = requests + 1
      BY <2>1 DEF Pause, Reenable, Delete, Request
    <2>3. tasks' \in [Scheduled -> Row] /\ \A u \in Scheduled : tasks'[u].last = tasks[u].last
      BY <1>1, <2>1, OwnerMoves
    <2>4. requests' \in 0 .. MaxRequests BY <1>2, <2>2
    <2>5. pass' \in Passes /\ PassShape' /\ PassRows' /\ RowsStand' BY <1>2, <2>2, <2>3, PassGoesOn
    <2> QED BY <1>2, <1>4, <2>2, <2>3, <2>4, <2>5
  <1>14. CASE \E r \in RunIds, to \in ActiveStates \union {"settled"} : RunMoves(r, to)
    <2>1. PICK r \in RunIds, to \in ActiveStates \union {"settled"} : RunMoves(r, to) BY <1>14
    <2>2. UNCHANGED <<clock, alive, stops, tasks, pass, lost, requests>> /\ alive
          /\ runs' = [runs EXCEPT ![r].state = to] /\ runs[r].state \in ActiveStates
      BY <2>1 DEF RunMoves, Active
    <2>3. runs' \in [RunIds -> RunRows]
          /\ (\A i \in RunIds : runs'[i].task = runs[i].task /\ (i # r => runs'[i] = runs[i]))
          /\ runs'[r].state = to
      BY <1>2, <2>2 DEF RunRows, RunStates
    <2>4. InOrder'
      <3>1. PICK k \in 0 .. Cardinality(RunIds) :
               \A i \in RunIds : (runs[i].state # "none" <=> i <= k) /\ (i > k => runs[i] = Unused)
        BY <1>1 DEF InOrder
      <3>2. runs[r].state # "none" /\ to # "none" /\ ~(r > k)
        BY <2>2, <3>1, Numbers DEF ActiveStates
      <3>3. \A i \in RunIds : (runs'[i].state # "none" <=> i <= k) /\ (i > k => runs'[i] = Unused)
        BY <2>3, <3>1, <3>2
      <3> QED BY <3>1, <3>3 DEF InOrder
    <2>5. pass.at = "record" => pass.run \in RunIds BY DEF ShapeInv, PassShape
    <2>6. pass' \in Passes /\ PassShape' /\ PassRows' /\ RowsStand'
      BY <1>2, <2>2, <2>3, <2>5, PassGoesOn
    <2> QED BY <1>2, <2>2, <2>3, <2>4, <2>6
  <1>15. CASE TimePasses
    <2>1. UNCHANGED <<alive, stops, tasks, runs, pass, lost, requests>> /\ clock < Horizon /\ clock' = clock + 1
      BY <1>15 DEF TimePasses
    <2>2. clock' \in 0 .. Horizon /\ clock' \in Nat /\ clock' >= clock BY <1>2, <2>1
    <2>3. pass = Idle \/ alive BY DEF ShapeInv, PassShape
    <2>4. pass' \in Passes /\ PassShape' /\ PassRows' /\ RowsStand' BY <2>1, <2>2, <2>3, PassGoesOn
    <2> QED BY <1>2, <1>4, <2>1, <2>2, <2>4
  <1>16. CASE DaemonDies
    <2>1. /\ UNCHANGED <<clock, tasks, runs, lost, requests>> /\ pass' = Idle
          /\ stops < MaxStops /\ stops' = stops + 1
      BY <1>16 DEF DaemonDies
    <2>2. alive' \in BOOLEAN BY <1>16, Zenon DEF DaemonDies
    <2>3. stops' \in 0 .. MaxStops BY <1>2, <2>1
    <2>4. pass' \in Passes /\ PassShape' /\ PassRows' /\ RowsStand' BY <1>2, <2>1, EndedPass
    <2> QED BY <1>2, <1>4, <2>1, <2>2, <2>3, <2>4
  <1>17. CASE Restart
    <2>1. UNCHANGED <<clock, stops, tasks, pass, lost, requests>> /\ ~alive BY <1>17 DEF Restart
    <2>2. alive' \in BOOLEAN BY <1>17, Zenon DEF Restart
    <2>3. runs' \in [RunIds -> RunRows] /\ InOrder' BY <1>1, <1>17, RestartOf
    <2>4. pass' = Idle BY <2>1 DEF ShapeInv, PassShape
    <2>5. pass' \in Passes /\ PassShape' /\ PassRows' /\ RowsStand' BY <1>2, <2>1, <2>4, EndedPass
    <2> QED BY <1>2, <2>1, <2>2, <2>3, <2>5
  <1>18. CASE UNCHANGED scheduleVars
    <2>1. UNCHANGED <<clock, alive, stops, tasks, runs, pass, lost, requests>> BY <1>18 DEF scheduleVars
    <2>2. pass = Idle \/ alive BY DEF ShapeInv, PassShape
    <2>3. pass' \in Passes /\ PassShape' /\ PassRows' /\ RowsStand' BY <1>2, <2>1, <2>2, PassGoesOn
    <2> QED BY <1>2, <1>4, <2>1, <2>3
  <1> QED BY <1>6, <1>7, <1>10, <1>11, <1>12, <1>13, <1>14, <1>15, <1>16, <1>17, <1>18
          DEF ScheduleNext, SchedulerStep

-----------------------------------------------------------------------------
(* Fires.                                                                  *)

(* A claim of the pass is one it had, or a new one that is in order.       *)
Remains(i, j) ==
    /\ pass'.claimed[i] = pass.claimed[j] /\ pass'.now = pass.now
    /\ (i = 1 /\ pass'.at = "record") \/ ~(j = 1 /\ pass.at = "record")

ClaimsRemain ==
    \A i \in 1 .. Len(pass'.claimed) :
        \/ \E j \in 1 .. Len(pass.claimed) : Remains(i, j)
        \/ Claimed(pass.claimed[i])' /\ Waiting(pass.claimed[i])'

LEMMA FireFields ==
    ASSUME ScheduleTypeOK, NEW r \in RunIds
    PROVE  runs[r].due \in Nat /\ runs[r].at \in Nat
  <1>1. runs[r] \in RunRows BY RunTypes
  <1> QED BY <1>1 DEF RunRows

(* A claim stands while the task only moves on.                            *)
LEMMA ClaimStands ==
    ASSUME ScheduleTypeOK, ScheduleTypeOK', pass'.now = pass.now, clock' >= clock,
           NEW row \in Due, TaskMoves(row.task), Claimed(row)
    PROVE  Claimed(row)'
  <1>1. row.task \in Scheduled /\ row.next \in Nat BY DEF Due
  <1>2. tasks[row.task].next \in Nat /\ clock \in Nat /\ Interval \in Nat BY <1>1, TaskFields
  <1>3. tasks' \in [Scheduled -> Row] /\ clock' \in Nat BY ScheduleAssumption DEF ScheduleTypeOK
  <1>4. tasks'[row.task].next \in Nat BY <1>1, <1>3 DEF Row
  <1>5. pass.now \in Nat BY PassFields
  <1> QED BY <1>1, <1>2, <1>3, <1>4, <1>5 DEF Claimed, TaskMoves

LEMMA FiresKept ==
    ASSUME ShapeInv, ShapeInv', FireInv, SameFires, clock' >= clock,
           \A t \in Scheduled : TaskMoves(t), ClaimsRemain
    PROVE  FireInv'
  <1>1. ScheduleTypeOK /\ ScheduleTypeOK' BY DEF ShapeInv
  <1>2. ASSUME NEW t PROVE Fires(t)' = Fires(t) BY DEF Fires, SameFires
  <1>3. ASSUME NEW t, NEW r \in Fires(t)
        PROVE  r \in RunIds /\ runs'[r].due = runs[r].due /\ runs'[r].at = runs[r].at
               /\ runs[r].due \in Nat /\ runs[r].at \in Nat
    BY <1>1, FireFields DEF Fires, SameFires
  <1>4. ASSUME NEW t \in Scheduled PROVE Ahead(t)'
    <2>1. tasks[t].next \in Nat /\ clock \in Nat /\ Interval \in Nat BY <1>1, TaskFields
    <2>2. tasks' \in [Scheduled -> Row] /\ clock' \in Nat BY <1>1, ScheduleAssumption DEF ScheduleTypeOK
    <2>3. tasks'[t].next \in Nat BY <2>2 DEF Row
    <2>4. Ahead(t) /\ TaskMoves(t) BY DEF FireInv
    <2>5. t \in Repeating => tasks'[t].next <= clock' + Interval BY <2>4 DEF TaskMoves
    <2>6. ASSUME NEW r \in Fires(t)
          PROVE  /\ t \in Repeating => runs'[r].due < tasks'[t].next /\ runs'[r].at + Interval <= tasks'[t].next
                 /\ t \in OneOff => ~tasks'[t].enabled /\ tasks'[t].next <= clock'
      <3>1. runs'[r].due = runs[r].due /\ runs'[r].at = runs[r].at /\ runs[r].due \in Nat /\ runs[r].at \in Nat
        BY <1>3
      <3>2. CASE t \in Repeating
        <4>1. t \notin OneOff BY <3>2, ScheduleAssumption
        <4> QED BY <2>1, <2>3, <2>4, <3>1, <3>2, <4>1 DEF Ahead, TaskMoves
      <3>3. CASE t \in OneOff
        <4>1. t \notin Repeating BY <3>3, ScheduleAssumption
        <4> QED BY <2>1, <2>2, <2>3, <2>4, <3>3, <4>1 DEF Ahead, TaskMoves
      <3> QED BY <3>2, <3>3
    <2> QED BY <1>2, <2>5, <2>6 DEF Ahead
  <1>5. ClaimInv'
    <2>1. ASSUME NEW i \in 1 .. Len(pass'.claimed)
          PROVE  /\ Claimed(pass.claimed[i])'
                 /\ ~(i = 1 /\ pass'.at = "record") => Waiting(pass.claimed[i])'
      <3> SUFFICES ASSUME NEW j \in 1 .. Len(pass.claimed), Remains(i, j)
                   PROVE  /\ Claimed(pass.claimed[i])'
                          /\ ~(i = 1 /\ pass'.at = "record") => Waiting(pass.claimed[i])'
        BY DEF ClaimsRemain
      <3>1. /\ pass'.claimed[i] = pass.claimed[j] /\ pass'.now = pass.now
            /\ (i = 1 /\ pass'.at = "record") \/ ~(j = 1 /\ pass.at = "record")
        BY DEF Remains
      <3>2. pass.claimed[j] \in Due
        <4>1. pass.claimed \in Seq(Due) BY <1>1, PassFields
        <4> QED BY <4>1
      <3>3. PICK row \in Due : row = pass.claimed[j] BY <3>2
      <3>4. row.task \in Scheduled BY <3>3 DEF Due
      <3>5. Claimed(row) /\ (~(j = 1 /\ pass.at = "record") => Waiting(row)) BY <3>3 DEF FireInv, ClaimInv
      <3>6. TaskMoves(row.task) BY <3>4
      <3>7. Claimed(row)' BY <1>1, <3>1, <3>3, <3>5, <3>6, ClaimStands
      <3>8. Waiting(row) => Waiting(row)'
        <4>1. ASSUME Waiting(row), NEW r \in Fires(row.task)'
              PROVE  row.task \in Repeating /\ runs'[r].due < row.next /\ runs'[r].at + Interval <= pass'.now
          <5>1. r \in Fires(row.task) BY <1>2, <4>1
          <5>2. runs'[r].due = runs[r].due /\ runs'[r].at = runs[r].at BY <1>3, <5>1
          <5> QED BY <3>1, <4>1, <5>1, <5>2 DEF Waiting
        <4> QED BY <4>1 DEF Waiting
      <3>9. Claimed(pass.claimed[i])' BY <3>1, <3>3, <3>7 DEF Claimed
      <3>10. Waiting(row)' => Waiting(pass.claimed[i])' BY <3>1, <3>3 DEF Waiting, Fires
      <3> QED BY <3>1, <3>5, <3>8, <3>9, <3>10
    <2> QED BY <2>1 DEF ClaimInv
  <1>6. FireAtMostOnce'
    <2>1. ASSUME NEW t \in Scheduled, NEW r \in Fires(t)', NEW s \in Fires(t)', r # s
          PROVE  t \in Repeating /\ runs'[r].due # runs'[s].due
      <3>1. r \in Fires(t) /\ s \in Fires(t) BY <1>2
      <3>2. runs'[r].due = runs[r].due /\ runs'[s].due = runs[s].due BY <1>3, <3>1
      <3> QED BY <2>1, <3>1, <3>2 DEF FireInv, FireAtMostOnce
    <2> QED BY <2>1 DEF FireAtMostOnce
  <1>7. FiresSpaced'
    <2>1. ASSUME NEW t \in Repeating, NEW r \in Fires(t)', NEW s \in Fires(t)', r < s
          PROVE  runs'[r].at + Interval <= runs'[s].at
      <3>1. r \in Fires(t) /\ s \in Fires(t) BY <1>2
      <3>2. runs'[r].at = runs[r].at /\ runs'[s].at = runs[s].at BY <1>3, <3>1
      <3> QED BY <2>1, <3>1, <3>2 DEF FireInv, FiresSpaced
    <2> QED BY <2>1 DEF FiresSpaced
  <1> QED BY <1>4, <1>5, <1>6, <1>7 DEF FireInv

(* The fires of a step that leaves the runs alone.                         *)
LEMMA NoFire ==
    ASSUME runs' = runs
    PROVE  SameFires
  BY DEF SameFires

(* A pass that keeps its claims, drops the one in hand, or ends.           *)
LEMMA ClaimsStay ==
    ASSUME ScheduleTypeOK, PassShape,
           \/ pass' = pass
           \/ Len(pass'.claimed) = 0
           \/ pass' = Idle
           \/ pass.at = "check" /\ pass' = [pass EXCEPT !.at = "start"]
           \/ pass.at \in Firing /\ pass' = NextFire
    PROVE  ClaimsRemain
  <1>0. pass.claimed \in Seq(Due) /\ Len(pass.claimed) \in Nat BY PassFields
  <1>1. CASE pass' = pass
    <2>1. \A i \in 1 .. Len(pass'.claimed) : i \in 1 .. Len(pass.claimed) /\ Remains(i, i)
      BY <1>1 DEF Remains
    <2> QED BY <2>1 DEF ClaimsRemain
  <1>2. CASE Len(pass'.claimed) = 0 BY <1>2 DEF ClaimsRemain
  <1>3. CASE pass' = Idle BY <1>3, IdleFields DEF ClaimsRemain
  <1>4. CASE pass.at = "check" /\ pass' = [pass EXCEPT !.at = "start"]
    <2>0. pass'.claimed = pass.claimed /\ pass'.now = pass.now /\ pass.at # "record" BY <1>4, PassFields
    <2>1. \A i \in 1 .. Len(pass'.claimed) : i \in 1 .. Len(pass.claimed) /\ Remains(i, i)
      BY <2>0 DEF Remains
    <2> QED BY <2>1 DEF ClaimsRemain
  <1>5. CASE pass.at \in Firing /\ pass' = NextFire
    <2>1. \A i \in 1 .. Len(pass'.claimed) :
                 /\ pass'.at = "check" /\ pass'.now = pass.now
                 /\ i + 1 \in 2 .. Len(pass.claimed) /\ pass'.claimed[i] = pass.claimed[i + 1]
      BY <1>5, NextFireOf
    <2>2. ASSUME NEW i \in 1 .. Len(pass'.claimed)
          PROVE  i + 1 \in 1 .. Len(pass.claimed) /\ Remains(i, i + 1)
      <3>1. i + 1 \in 1 .. Len(pass.claimed) /\ i + 1 # 1 BY <1>0, <2>1
      <3> QED BY <2>1, <3>1 DEF Remains
    <2> QED BY <2>2 DEF ClaimsRemain
  <1> QED BY <1>1, <1>2, <1>3, <1>4, <1>5

(* A won claim: the task moves on, and the row waits for its run.          *)
LEMMA ClaimFires ==
    ASSUME ShapeInv, ShapeInv', FireInv, UNCHANGED <<clock, runs>>, pass.rows # <<>>,
           Won(Head(pass.rows)), Took(Append(pass.claimed, Head(pass.rows)))
    PROVE  FireInv'
  <1>1. ScheduleTypeOK /\ ScheduleTypeOK' BY DEF ShapeInv
  <1>2. /\ pass.rows \in Seq(Due) /\ pass.claimed \in Seq(Due) /\ Len(pass.claimed) \in Nat
        /\ pass.now \in Nat
    BY <1>1, PassFields
  <1>3. PICK row \in Due : row = Head(pass.rows) /\ row = pass.rows[1] /\ 1 \in 1 .. Len(pass.rows)
    BY <1>2, TailOf
  <1>4. row.task \in Scheduled /\ row.next \in Nat BY <1>3 DEF Due
  <1> DEFINE t == row.task
  <1>5. /\ tasks[t].enabled /\ tasks[t].next = row.next
        /\ \A u \in Scheduled : u # t => tasks'[u] = tasks[u]
        /\ t \in OneOff => ~tasks'[t].enabled /\ tasks'[t].next = row.next
        /\ t \in Repeating => tasks'[t].next = pass.now + Interval
    BY <1>3 DEF Won
  <1>6. pass'.now = pass.now /\ pass'.claimed = Append(pass.claimed, row) BY <1>3 DEF Took
  <1>7. row.next <= pass.now /\ pass.now <= clock BY <1>3 DEF ShapeInv, RowsStand, Stands, PassShape
  <1>8. clock \in Nat /\ Interval \in Nat /\ Interval > 0 /\ clock' = clock
        /\ (t \in OneOff => t \notin Repeating)
    BY <1>1, <1>4, TaskFields
  <1>9. \A u \in Scheduled : TaskMoves(u)
    <2>1. ASSUME NEW u \in Scheduled, u # t PROVE TaskMoves(u)
      <3>1. tasks'[u] = tasks[u] /\ tasks[u].next \in Nat BY <1>1, <1>5, <2>1, TaskFields
      <3>2. u \in Repeating => tasks[u].next <= clock + Interval BY DEF FireInv, Ahead
      <3> QED BY <1>8, <3>1, <3>2 DEF TaskMoves
    <2>2. TaskMoves(t)
      <3>1. t \in Repeating => row.next <= pass.now + Interval /\ pass.now + Interval <= clock + Interval
        BY <1>2, <1>4, <1>7, <1>8
      <3> QED BY <1>5, <1>8, <3>1 DEF TaskMoves
    <2> QED BY <2>1, <2>2
  <1>10. ASSUME NEW r \in Fires(t)
         PROVE  t \in Repeating /\ runs[r].due < row.next /\ runs[r].at + Interval <= row.next
                /\ runs[r].at \in Nat
    <2>1. Ahead(t) BY <1>4 DEF FireInv
    <2>2. t \in Repeating BY <1>4, <1>5, <2>1 DEF Ahead, Scheduled
    <2>3. r \in RunIds BY DEF Fires
    <2> QED BY <1>1, <1>5, <2>1, <2>2, <2>3, FireFields DEF Ahead
  <1>11. Waiting(row)'
    <2>1. ASSUME NEW r \in Fires(t)
          PROVE  t \in Repeating /\ runs[r].due < row.next /\ runs[r].at + Interval <= pass.now
      <3>1. /\ t \in Repeating /\ runs[r].due < row.next /\ runs[r].at + Interval <= row.next
            /\ runs[r].at \in Nat
        BY <1>10
      <3> QED BY <1>2, <1>4, <1>7, <1>8, <3>1
    <2>2. Fires(t)' = Fires(t) BY DEF Fires
    <2> QED BY <1>6, <2>1, <2>2 DEF Waiting
  <1>12. Claimed(row)'
    <2>1. t \in Repeating => row.next < pass.now + Interval BY <1>2, <1>4, <1>7, <1>8
    <2>2. t \in OneOff => row.next <= clock BY <1>2, <1>4, <1>7, <1>8
    <2>3. t \in Repeating => pass.now + Interval <= pass.now + Interval BY <1>2, <1>8
    <2> QED BY <1>5, <1>6, <1>8, <2>1, <2>2, <2>3 DEF Claimed
  <1>13. ClaimsRemain
    <2>1. /\ Len(pass'.claimed) = Len(pass.claimed) + 1
          /\ \A i \in 1 .. Len(pass.claimed) : pass'.claimed[i] = pass.claimed[i]
          /\ pass'.claimed[Len(pass.claimed) + 1] = row
      BY <1>2, <1>6, AppendOf
    <2>2. pass.at # "record" BY <1>1, IdleFields DEF ShapeInv, PassShape, Firing
    <2>3. ASSUME NEW i \in 1 .. Len(pass'.claimed)
          PROVE  \/ \E j \in 1 .. Len(pass.claimed) : Remains(i, j)
                 \/ Claimed(pass.claimed[i])' /\ Waiting(pass.claimed[i])'
      <3>1. CASE i \in 1 .. Len(pass.claimed)
        <4>1. Remains(i, i) BY <1>6, <2>1, <2>2, <3>1 DEF Remains
        <4> QED BY <3>1, <4>1
      <3>2. CASE i = Len(pass.claimed) + 1
        <4>1. pass'.claimed[i] = row BY <2>1, <3>2
        <4> QED BY <1>11, <1>12, <4>1 DEF Claimed, Waiting, Fires
      <3> QED BY <1>2, <2>1, <3>1, <3>2
    <2> QED BY <2>3 DEF ClaimsRemain
  <1>14. clock' >= clock BY <1>8
  <1> QED BY <1>9, <1>13, <1>14, FiresKept, NoFire

(* A start: the new fire is the task's latest, and it is of the due time   *)
(* the claim in hand moved the task past.                                  *)
LEMMA StartFires ==
    ASSUME ShapeInv, ShapeInv', FireInv, UNCHANGED <<clock, tasks>>, pass.at = "start",
           Started(Head(pass.claimed)), pass' = [pass EXCEPT !.at = "record", !.run = NextRun]
    PROVE  FireInv'
  <1>1. ScheduleTypeOK /\ ScheduleTypeOK' /\ InOrder /\ pass.claimed # <<>>
    BY DEF ShapeInv, PassShape, Firing
  <1>2. /\ pass.claimed \in Seq(Due) /\ Len(pass.claimed) \in Nat /\ pass.now \in Nat
        /\ pass'.claimed = pass.claimed /\ pass'.now = pass.now /\ pass'.at = "record"
    BY <1>1, PassFields
  <1>3. PICK row \in Due : row = Head(pass.claimed) /\ row = pass.claimed[1] /\ 1 \in 1 .. Len(pass.claimed)
    BY <1>1, <1>2, TailOf
  <1>4. row.task \in Scheduled /\ row.next \in Nat BY <1>3 DEF Due
  <1>5. Claimed(row) /\ Waiting(row) BY <1>3 DEF FireInv, ClaimInv
  <1>6. PICK n \in RunIds : n = NextRun BY DEF Started
  <1>7. /\ \A r \in RunIds : r # n => runs'[r] = runs[r]
        /\ runs[n] = Unused /\ runs'[n].kind = "fire" /\ runs'[n].task = row.task
        /\ runs'[n].due = row.next /\ runs'[n].at = pass.now
    BY <1>3, <1>6 DEF Started
  <1>8. ASSUME NEW t, NEW r \in Fires(t)
        PROVE  /\ r \in RunIds /\ r < n /\ r # n /\ runs'[r] = runs[r]
               /\ runs[r].due \in Nat /\ runs[r].at \in Nat
    <2>1. r \in RunIds /\ runs[r].kind = "fire" BY DEF Fires
    <2>2. runs[r] # Unused BY <2>1 DEF Unused
    <2>3. r < n
      <3>1. r \in Nat /\ n \in Nat BY <2>1, Numbers
      <3>2. r >= n => runs[r] = Unused BY <1>1, <1>6, <2>1, NextIsFree
      <3> QED BY <2>2, <3>1, <3>2
    <2>4. r # n BY <1>7, <2>2
    <2> QED BY <1>1, <1>7, <2>1, <2>3, <2>4, FireFields
  <1>9. ASSUME NEW t, t # row.task PROVE Fires(t)' = Fires(t)
    <2>1. ASSUME NEW r \in RunIds PROVE r \in Fires(t)' <=> r \in Fires(t)
      <3>1. CASE r = n BY <1>7, <1>9, <3>1 DEF Fires, Unused
      <3>2. CASE r # n BY <1>7, <3>2 DEF Fires
      <3> QED BY <3>1, <3>2
    <2> QED BY <2>1 DEF Fires
  <1>10. Fires(row.task)' = Fires(row.task) \union {n}
    <2>1. ASSUME NEW r \in RunIds PROVE r \in Fires(row.task)' <=> r \in Fires(row.task) \/ r = n
      <3>1. CASE r = n BY <1>7, <3>1 DEF Fires
      <3>2. CASE r # n BY <1>7, <3>2 DEF Fires
      <3> QED BY <3>1, <3>2
    <2> QED BY <2>1 DEF Fires
  <1>11. clock \in Nat /\ Interval \in Nat /\ clock' = clock /\ tasks' = tasks
    BY <1>1, <1>4, TaskFields
  <1>12. ASSUME NEW t \in Scheduled PROVE Ahead(t)'
    <2>1. Ahead(t) BY DEF FireInv
    <2>2. ASSUME NEW r \in Fires(t)'
          PROVE  /\ t \in Repeating => runs'[r].due < tasks[t].next /\ runs'[r].at + Interval <= tasks[t].next
                 /\ t \in OneOff => ~tasks[t].enabled /\ tasks[t].next <= clock
      <3>1. CASE r \in Fires(t)
        <4>1. runs'[r] = runs[r] BY <1>8, <3>1
        <4> QED BY <2>1, <3>1, <4>1 DEF Ahead
      <3>2. CASE r \notin Fires(t)
        <4>1. t = row.task /\ r = n BY <1>9, <1>10, <3>2
        <4> QED BY <1>5, <1>7, <4>1 DEF Claimed
      <3> QED BY <3>1, <3>2
    <2> QED BY <1>11, <2>1, <2>2 DEF Ahead
  <1>13. ClaimInv'
    <2>1. ASSUME NEW i \in 1 .. Len(pass.claimed)
          PROVE  /\ Claimed(pass.claimed[i])'
                 /\ i # 1 => Waiting(pass.claimed[i])'
      <3>1. Claimed(pass.claimed[i]) /\ Waiting(pass.claimed[i]) BY DEF FireInv, ClaimInv
      <3>2. Claimed(pass.claimed[i])' BY <1>2, <1>11, <3>1 DEF Claimed
      <3>3. CASE i # 1
        <4>1. pass.claimed[i].task # row.task BY <1>3, <3>3 DEF ShapeInv, PassRows
        <4>2. PICK other : other = pass.claimed[i] OBVIOUS
        <4>3. Fires(other.task)' = Fires(other.task) BY <1>9, <4>1, <4>2
        <4>4. ASSUME NEW r \in Fires(other.task)
              PROVE  other.task \in Repeating /\ runs'[r].due < other.next /\ runs'[r].at + Interval <= pass'.now
          <5>1. runs'[r] = runs[r] BY <1>8
          <5> QED BY <1>2, <3>1, <4>2, <5>1 DEF Waiting
        <4>5. Waiting(other)' BY <4>3, <4>4 DEF Waiting
        <4> QED BY <1>2, <3>2, <4>2, <4>5 DEF Waiting, Fires
      <3> QED BY <3>2, <3>3
    <2> QED BY <1>2, <2>1 DEF ClaimInv
  <1>14. ASSUME NEW r \in Fires(row.task)
         PROVE  row.task \in Repeating /\ runs[r].due < row.next /\ runs[r].at + Interval <= pass.now
    BY <1>5 DEF Waiting
  <1>15. FireAtMostOnce'
    <2>1. ASSUME NEW t \in Scheduled, NEW r \in Fires(t)', NEW s \in Fires(t)', r # s
          PROVE  t \in Repeating /\ runs'[r].due # runs'[s].due
      <3>1. CASE r \in Fires(t) /\ s \in Fires(t)
        <4>1. runs'[r] = runs[r] /\ runs'[s] = runs[s] BY <1>8, <3>1
        <4> QED BY <2>1, <3>1, <4>1 DEF FireInv, FireAtMostOnce
      <3>2. ASSUME NEW x \in Fires(row.task)
            PROVE  row.task \in Repeating /\ runs'[x].due # runs'[n].due
        <4>1. row.task \in Repeating /\ runs[x].due < row.next /\ runs'[x] = runs[x] /\ runs[x].due \in Nat
          BY <1>8, <1>14
        <4>2. runs'[x].due # row.next BY <1>4, <4>1
        <4> QED BY <1>7, <4>1, <4>2
      <3>3. CASE r \notin Fires(t)
        <4>1. t = row.task /\ r = n /\ s \in Fires(t) BY <1>9, <1>10, <2>1, <3>3
        <4> QED BY <3>2, <4>1
      <3>4. CASE s \notin Fires(t)
        <4>1. t = row.task /\ s = n /\ r \in Fires(t) BY <1>9, <1>10, <2>1, <3>4
        <4> QED BY <3>2, <4>1
      <3> QED BY <3>1, <3>3, <3>4
    <2> QED BY <2>1 DEF FireAtMostOnce
  <1>16. FiresSpaced'
    <2>1. ASSUME NEW t \in Repeating, NEW r \in Fires(t)', NEW s \in Fires(t)', r < s
          PROVE  runs'[r].at + Interval <= runs'[s].at
      <3>0. r \in Nat /\ s \in Nat /\ n \in Nat BY Numbers DEF Fires
      <3>1. CASE r \in Fires(t) /\ s \in Fires(t)
        <4>1. runs'[r] = runs[r] /\ runs'[s] = runs[s] BY <1>8, <3>1
        <4> QED BY <2>1, <3>1, <4>1 DEF FireInv, FiresSpaced
      <3>2. CASE r \notin Fires(t)
        <4>1. t = row.task /\ r = n BY <1>9, <1>10, <3>2
        <4>2. s # n BY <2>1, <3>0, <4>1
        <4>3. s \in Fires(row.task) BY <1>10, <4>1, <4>2
        <4>4. s < n BY <1>8, <4>3
        <4> QED BY <2>1, <3>0, <4>1, <4>4
      <3>3. CASE r \in Fires(t) /\ s \notin Fires(t)
        <4>1. t = row.task /\ s = n BY <1>9, <1>10, <3>3
        <4>2. runs'[r] = runs[r] /\ runs[r].at + Interval <= pass.now BY <1>8, <1>14, <3>3, <4>1
        <4> QED BY <1>7, <4>1, <4>2
      <3> QED BY <3>1, <3>2, <3>3
    <2> QED BY <2>1 DEF FiresSpaced
  <1> QED BY <1>12, <1>13, <1>15, <1>16 DEF FireInv

LEMMA FireStep ==
    ASSUME ShapeInv, ShapeInv', FireInv, [ScheduleNext]_scheduleVars
    PROVE  FireInv'
  <1>1. ScheduleTypeOK /\ ScheduleTypeOK' /\ PassShape /\ InOrder BY DEF ShapeInv
  <1>2. clock \in Nat /\ clock' \in Nat BY <1>1, ScheduleAssumption DEF ScheduleTypeOK
  <1>3. clock >= clock BY <1>2
  (* the steps that leave the tasks, the clock and the fires alone *)
  <1>4. ASSUME UNCHANGED <<clock, tasks>>, SameFires, ClaimsRemain PROVE FireInv'
    <2>1. clock' >= clock BY <1>3, <1>4
    <2>2. \A t \in Scheduled : TaskMoves(t) BY <1>1, <1>2, <1>4, <2>1, TasksStay
    <2> QED BY <1>4, <2>1, <2>2, FiresKept
  <1>6. CASE ReadDue
    <2>1. UNCHANGED <<clock, tasks, runs>> /\ Len(pass'.claimed) = 0 BY <1>6, ReadOf
    <2> QED BY <1>1, <1>4, <2>1, NoFire, ClaimsStay
  <1>7. CASE ClaimRow
    <2>1. UNCHANGED <<clock, runs>> /\ pass.rows # <<>> BY <1>7, ClaimOf
    <2>2. CASE tasks' = tasks /\ (pass' = Idle \/ Took(pass.claimed))
      <3>1. CASE pass' = Idle BY <1>1, <1>4, <2>1, <2>2, <3>1, NoFire, ClaimsStay
      <3>2. CASE Took(pass.claimed)
        <4>1. pass'.claimed = pass.claimed /\ pass'.now = pass.now /\ pass.at # "record"
          BY <1>7, <3>2 DEF Took, ClaimRow
        <4>2. \A i \in 1 .. Len(pass'.claimed) : i \in 1 .. Len(pass.claimed) /\ Remains(i, i)
          BY <4>1 DEF Remains
        <4>3. ClaimsRemain BY <4>2 DEF ClaimsRemain
        <4> QED BY <1>4, <2>1, <2>2, <4>3, NoFire
      <3> QED BY <2>2, <3>1, <3>2
    <2>3. CASE Won(Head(pass.rows)) /\ Took(Append(pass.claimed, Head(pass.rows)))
      BY <2>1, <2>3, ClaimFires
    <2> QED BY <1>7, <2>2, <2>3, ClaimOf
  <1>10. CASE CheckPrevious
    <2>1. UNCHANGED <<clock, tasks, runs>> /\ pass.at = "check" BY <1>10 DEF CheckPrevious
    <2>2. pass' = NextFire \/ pass' = [pass EXCEPT !.at = "start"] BY <1>10 DEF CheckPrevious
    <2>3. ClaimsRemain BY <1>1, <2>1, <2>2, ClaimsStay DEF Firing
    <2> QED BY <1>4, <2>1, <2>3, NoFire
  <1>11. CASE StartRun
    <2>1. UNCHANGED <<clock, tasks>> /\ pass.at = "start" BY <1>11 DEF StartRun
    <2>2. CASE pass' = NextFire /\ runs' = runs
      <3>1. ClaimsRemain BY <1>1, <2>1, <2>2, ClaimsStay DEF Firing
      <3> QED BY <1>4, <2>1, <2>2, <3>1, NoFire
    <2>3. CASE Started(Head(pass.claimed)) /\ pass' = [pass EXCEPT !.at = "record", !.run = NextRun]
      BY <2>1, <2>3, StartFires
    <2> QED BY <1>11, <2>2, <2>3, StartOf
  <1>12. CASE RecordRun
    <2>1. UNCHANGED <<clock, runs>> /\ pass.at = "record" /\ pass' = NextFire BY <1>12 DEF RecordRun
    <2>2. ClaimsRemain BY <1>1, <2>1, ClaimsStay DEF Firing
    <2>3. \A t \in Scheduled : tasks'[t].next = tasks[t].next /\ tasks'[t].enabled = tasks[t].enabled
      <3>1. tasks' = tasks \/ tasks' = [tasks EXCEPT ![Head(pass.claimed).task].last = pass.run]
        BY <1>12 DEF RecordRun
      <3>2. tasks \in [Scheduled -> Row] BY <1>1 DEF ScheduleTypeOK
      <3> QED BY <3>1, <3>2 DEF Row
    <2>4. clock' >= clock /\ clock' = clock BY <1>3, <2>1
    <2>5. ASSUME NEW t \in Scheduled PROVE TaskMoves(t)
      <3>1. t \in Repeating => tasks[t].next <= clock + Interval BY DEF FireInv, Ahead
      <3>2. tasks'[t].next = tasks[t].next /\ tasks'[t].enabled = tasks[t].enabled /\ tasks[t].next \in Nat
        BY <1>1, <2>3, TaskFields
      <3>3. tasks[t].next <= tasks[t].next BY <3>2
      <3> QED BY <2>4, <3>1, <3>2, <3>3 DEF TaskMoves
    <2> QED BY <2>1, <2>2, <2>4, <2>5, NoFire, FiresKept
  <1>13. CASE \E t \in Scheduled : Pause(t) \/ Reenable(t) \/ Delete(t)
    <2>1. PICK t \in Scheduled : Pause(t) \/ Reenable(t) \/ Delete(t) BY <1>13
    <2>2. UNCHANGED <<clock, runs, pass>> BY <2>1 DEF Pause, Reenable, Delete, Request
    <2>3. \A u \in Scheduled : TaskMoves(u) BY <1>1, <2>1, OwnerMoves
    <2>4. clock' >= clock BY <1>3, <2>2
    <2>5. ClaimsRemain BY <1>1, <2>2, ClaimsStay
    <2> QED BY <2>2, <2>3, <2>4, <2>5, NoFire, FiresKept
  <1>14. CASE \E r \in RunIds, to \in ActiveStates \union {"settled"} : RunMoves(r, to)
    <2>1. PICK r \in RunIds, to \in ActiveStates \union {"settled"} : RunMoves(r, to) BY <1>14
    <2>2. UNCHANGED <<clock, tasks, pass>> /\ runs' = [runs EXCEPT ![r].state = to]
      BY <2>1 DEF RunMoves
    <2>3. SameFires
      <3>1. runs \in [RunIds -> RunRows] BY <1>1, RunTypes
      <3> QED BY <2>2, <3>1 DEF SameFires, RunRows
    <2>4. ClaimsRemain BY <1>1, <2>2, ClaimsStay
    <2> QED BY <1>4, <2>2, <2>3, <2>4
  <1>15. CASE TimePasses
    <2>1. UNCHANGED <<tasks, runs, pass>> /\ clock' = clock + 1 BY <1>15 DEF TimePasses
    <2>2. clock' >= clock BY <1>2, <2>1
    <2>3. ClaimsRemain BY <1>1, <2>1, ClaimsStay
    <2>4. \A t \in Scheduled : TaskMoves(t) BY <1>1, <1>2, <2>1, <2>2, TasksStay
    <2> QED BY <2>1, <2>2, <2>3, <2>4, NoFire, FiresKept
  <1>16. CASE DaemonDies
    <2>1. UNCHANGED <<clock, tasks, runs>> /\ pass' = Idle BY <1>16 DEF DaemonDies
    <2>2. ClaimsRemain BY <1>1, <2>1, ClaimsStay
    <2> QED BY <1>4, <2>1, <2>2, NoFire
  <1>17. CASE Restart
    <2>1. UNCHANGED <<clock, tasks, pass>> BY <1>17 DEF Restart
    <2>2. SameFires BY <1>1, <1>17, RestartOf
    <2>3. ClaimsRemain BY <1>1, <2>1, ClaimsStay
    <2> QED BY <1>4, <2>1, <2>2, <2>3
  <1>18. CASE UNCHANGED scheduleVars
    <2>1. UNCHANGED <<clock, tasks, runs, pass>> BY <1>18 DEF scheduleVars
    <2>2. ClaimsRemain BY <1>1, <2>1, ClaimsStay
    <2> QED BY <1>4, <2>1, <2>2, NoFire
  <1> QED BY <1>6, <1>7, <1>10, <1>11, <1>12, <1>13, <1>14, <1>15, <1>16, <1>17, <1>18
          DEF ScheduleNext, SchedulerStep

-----------------------------------------------------------------------------
(* Runs that go on.                                                        *)

LEMMA ButOne ==
    ASSUME NEW S, IsFiniteSet(S), NEW x
    PROVE  /\ Cardinality(S) \in Nat /\ Cardinality(S \ {x}) \in Nat /\ IsFiniteSet(S \ {x})
           /\ Cardinality(S \ {x}) <= Cardinality(S)
           /\ Cardinality(S) <= Cardinality(S \ {x}) + 1
  <1>1. Cardinality(S) \in Nat BY FS_CardinalityType
  <1>2. IsFiniteSet(S \ {x}) /\ Cardinality(S \ {x}) = IF x \in S THEN Cardinality(S) - 1 ELSE Cardinality(S)
    BY FS_RemoveElement
  <1>3. Cardinality(S \ {x}) \in Nat BY <1>2, FS_CardinalityType
  <1> QED BY <1>1, <1>2, <1>3

LEMMA Excuses ==
    ASSUME ScheduleTypeOK
    PROVE  stops \in Nat /\ lost \in Nat /\ stops + lost \in Nat
  <1>1. stops \in Nat /\ lost \in Nat BY ScheduleAssumption DEF ScheduleTypeOK
  <1> QED BY <1>1

(* No run of the task is added and what excuses its last run stays.        *)
LEMMA PileStays ==
    ASSUME ScheduleTypeOK, ScheduleTypeOK', NEW t \in Scheduled, PileAt(t),
           Going(t)' \subseteq Going(t), Excused(t)' = Excused(t), stops' = stops,
           lost' = lost \/ lost' = lost + 1,
           (~alive' \/ AtStart(t)') => (~alive \/ AtStart(t))
    PROVE  PileAt(t)'
  <1> DEFINE S == Going(t)
             T == Going(t)'
             x == Excused(t)
             b == stops + lost
             c == stops' + lost'
  <1>1. IsFiniteSet(S) /\ Cardinality(S) \in Nat /\ Cardinality(T) \in Nat BY GoingFinite
  <1>2. IsFiniteSet(S \ {x}) /\ Cardinality(S \ {x}) \in Nat BY <1>1, ButOne
  <1>3. Cardinality(T) <= Cardinality(S) BY <1>1, FS_Subset
  <1>4. Cardinality(T \ {x}) <= Cardinality(S \ {x}) /\ Cardinality(T \ {x}) \in Nat
    <2>1. T \ {x} \subseteq S \ {x} OBVIOUS
    <2>2. IsFiniteSet(T \ {x}) BY <1>2, <2>1, FS_Subset
    <2> QED BY <1>2, <2>1, <2>2, FS_Subset, FS_CardinalityType
  <1>5. b \in Nat /\ c \in Nat /\ b <= c BY Excuses
  <1>6. Cardinality(S \ {x}) <= b BY DEF PileAt
  <1>7. (~alive \/ AtStart(t)) => Cardinality(S) <= b BY DEF PileAt
  <1>8. Excused(t)' = x OBVIOUS
  <1> HIDE DEF S, T, x, b, c
  <1>9. Cardinality(T \ {x}) <= c BY <1>2, <1>4, <1>5, <1>6
  <1>10. (~alive' \/ AtStart(t)') => Cardinality(T) <= c BY <1>1, <1>3, <1>5, <1>7
  <1> QED BY <1>8, <1>9, <1>10 DEF PileAt, T, c

(* Something failed or the daemon died: any one run is excused.            *)
LEMMA PileExcused ==
    ASSUME ScheduleTypeOK, ScheduleTypeOK', NEW t \in Scheduled, PileAt(t), runs' = runs,
           stops' + lost' = stops + lost + 1
    PROVE  PileAt(t)' /\ Cardinality(Going(t)') <= stops' + lost'
  <1> DEFINE S == Going(t)
             x == Excused(t)
             y == Excused(t)'
             b == stops + lost
             c == stops' + lost'
  <1>1. IsFiniteSet(S) /\ Cardinality(S) \in Nat BY GoingFinite
  <1>2. /\ Cardinality(S \ {x}) \in Nat /\ Cardinality(S) <= Cardinality(S \ {x}) + 1
        /\ Cardinality(S \ {y}) \in Nat /\ Cardinality(S \ {y}) <= Cardinality(S)
    BY <1>1, ButOne
  <1>3. Going(t)' = S BY DEF Going, Active
  <1>4. b \in Nat /\ c = b + 1 BY Excuses
  <1>5. Cardinality(S \ {x}) <= b BY DEF PileAt
  <1> HIDE DEF S, x, y, b, c
  <1>6. Cardinality(S) <= c /\ Cardinality(S \ {y}) <= c BY <1>1, <1>2, <1>4, <1>5
  <1> QED BY <1>3, <1>6 DEF PileAt, y, c

LEMMA PileStep ==
    ASSUME ShapeInv, ShapeInv', PileInv, [ScheduleNext]_scheduleVars
    PROVE  PileInv'
  <1>1. ScheduleTypeOK /\ ScheduleTypeOK' /\ PassShape /\ PassShape' /\ InOrder BY DEF ShapeInv
  <1> SUFFICES ASSUME NEW t \in Scheduled PROVE PileAt(t)' BY DEF PileInv
  <1>2. PileAt(t) BY DEF PileInv
  <1>3. runs' = runs => Going(t)' = Going(t) BY DEF Going, Active
  <1>4. tasks \in [Scheduled -> Row] /\ runs \in [RunIds -> RunRows]
    BY <1>1, RunTypes DEF ScheduleTypeOK
  (* the steps of the pass that neither record nor start a fire *)
  <1>5. ASSUME runs' = runs, stops' = stops, lost' = lost \/ lost' = lost + 1,
               tasks'[t].last = tasks[t].last, alive, alive',
               pass.at # "record", pass'.at \in {"read", "claim", "check"}
        PROVE  PileAt(t)'
    <2>1. Excused(t)' = Excused(t) /\ ~AtStart(t)' BY <1>5 DEF Excused, AtStart
    <2> QED BY <1>1, <1>2, <1>3, <1>5, <2>1, PileStays
  (* the pass goes on as it is *)
  <1>6. ASSUME Going(t)' \subseteq Going(t), stops' = stops, lost' = lost, pass' = pass, alive' = alive,
               tasks'[t].last = tasks[t].last
        PROVE  PileAt(t)'
    <2>1. Excused(t)' = Excused(t) /\ (AtStart(t)' <=> AtStart(t)) BY <1>6 DEF Excused, AtStart
    <2> QED BY <1>1, <1>2, <1>6, <2>1, PileStays
  <1>7. CASE ReadDue
    <2>1. UNCHANGED <<alive, stops, tasks, runs, lost>> /\ pass'.at \in {"read", "claim"} BY <1>7, ReadOf
    <2>2. alive /\ pass.at = "read" BY <1>7 DEF ReadDue
    <2> QED BY <1>5, <2>1, <2>2
  <1>8. CASE ClaimRow
    <2>1. UNCHANGED <<alive, stops, runs>> /\ (lost' = lost \/ lost' = lost + 1) BY <1>8, ClaimOf
    <2>2. alive /\ pass.at = "claim" BY <1>8 DEF ClaimRow
    <2>3. tasks'[t].last = tasks[t].last BY <1>8, ClaimOf DEF Won
    <2>4. pass'.at \in {"read", "claim", "check"} BY <1>8, ClaimOf, IdleFields DEF Took
    <2> QED BY <1>5, <2>1, <2>2, <2>3, <2>4
  <1>9. CASE CheckPrevious
    <2>1. UNCHANGED <<alive, stops, tasks, runs>> /\ alive /\ pass.at = "check" BY <1>9 DEF CheckPrevious
    <2>2. CASE pass' = NextFire /\ lost' = lost
      <3>1. pass'.at \in {"read", "check"} BY <1>1, <2>1, <2>2, NextFireOf DEF Firing
      <3> QED BY <1>5, <2>1, <2>2, <3>1
    <2>3. CASE lost' = lost + 1
      <3>1. stops' + lost' = stops + lost + 1 BY <1>1, <2>1, <2>3, Excuses
      <3> QED BY <1>1, <1>2, <2>1, <3>1, PileExcused
    <2>4. CASE ~PreviousActive /\ pass' = [pass EXCEPT !.at = "start"] /\ lost' = lost
      <3>1. pass'.at = "start" /\ pass'.claimed = pass.claimed BY <1>1, <2>4, PassFields
      <3>2. Excused(t)' = Excused(t) /\ Excused(t) = tasks[t].last BY <2>1, <3>1 DEF Excused
      <3>3. CASE Head(pass.claimed).task # t
        <4>1. ~AtStart(t)' BY <3>1, <3>3 DEF AtStart
        <4> QED BY <1>1, <1>2, <1>3, <2>1, <2>4, <3>2, <4>1, PileStays
      <3>4. CASE Head(pass.claimed).task = t
        <4>1. Head(pass.claimed).last = tasks[t].last
          <5>1. pass.claimed # <<>> /\ pass.claimed \in Seq(Due) BY <1>1, <2>1, PassFields DEF PassShape, Firing
          <5>2. Head(pass.claimed) = pass.claimed[1] /\ 1 \in 1 .. Len(pass.claimed) BY <5>1, TailOf
          <5> QED BY <3>4, <5>2 DEF ShapeInv, RowsStand, Stands
        <4>2. tasks[t].last \notin Going(t)
          <5>1. NoRunId \notin RunIds BY Numbers DEF NoRunId
          <5> QED BY <2>4, <4>1, <5>1 DEF PreviousActive, Going
        <4>3. Going(t) \ {Excused(t)} = Going(t) BY <3>2, <4>2
        <4>4. Cardinality(Going(t)) <= stops + lost BY <1>2, <4>3 DEF PileAt
        <4>5. Going(t)' = Going(t) /\ stops' = stops /\ lost' = lost /\ Excused(t)' = Excused(t)
          BY <1>3, <2>1, <2>4, <3>2
        <4>6. Cardinality(Going(t)') <= stops' + lost' BY <4>4, <4>5
        <4>7. Cardinality(Going(t)' \ {Excused(t)'}) <= stops' + lost' BY <4>3, <4>4, <4>5
        <4> QED BY <4>6, <4>7 DEF PileAt
      <3> QED BY <3>3, <3>4
    <2> QED BY <1>9, <2>2, <2>3, <2>4 DEF CheckPrevious
  <1>10. CASE StartRun
    <2>1. UNCHANGED <<alive, stops, tasks>> /\ alive /\ pass.at = "start" BY <1>10 DEF StartRun
    <2>2. CASE lost' = lost + 1 /\ pass' = NextFire /\ runs' = runs
      <3>1. pass'.at \in {"read", "check"} BY <1>1, <2>1, <2>2, NextFireOf DEF Firing
      <3> QED BY <1>5, <2>1, <2>2, <3>1
    <2>3. CASE /\ Started(Head(pass.claimed)) /\ lost' = lost
               /\ pass' = [pass EXCEPT !.at = "record", !.run = NextRun]
      <3>1. PICK n \in RunIds : n = NextRun BY <2>3 DEF Started
      <3>2. /\ \A r \in RunIds : r # n => runs'[r] = runs[r]
            /\ runs[n] = Unused /\ runs'[n].state = "working" /\ runs'[n].task = Head(pass.claimed).task
        BY <2>3, <3>1 DEF Started
      <3>3. pass'.at = "record" /\ pass'.claimed = pass.claimed /\ pass'.run = n
        BY <1>1, <2>3, <3>1, PassFields
      <3>4. n \notin Going(t) BY <3>2 DEF Going, Active, ActiveStates, Unused
      <3>5. CASE Head(pass.claimed).task # t
        <4>1. Going(t)' \subseteq Going(t) BY <3>2, <3>5 DEF Going, Active
        <4>2. Excused(t)' = Excused(t) /\ ~AtStart(t)' BY <2>1, <3>3, <3>5 DEF Excused, AtStart
        <4> QED BY <1>1, <1>2, <2>1, <2>3, <4>1, <4>2, PileStays
      <3>6. CASE Head(pass.claimed).task = t
        <4>1. Going(t)' = Going(t) \union {n}
          <5>1. ASSUME NEW r \in RunIds PROVE r \in Going(t)' <=> r \in Going(t) \/ r = n
            <6>1. CASE r = n BY <3>2, <3>6, <6>1 DEF Going, Active, ActiveStates
            <6>2. CASE r # n BY <3>2, <6>2 DEF Going, Active
            <6> QED BY <6>1, <6>2
          <5> QED BY <5>1 DEF Going
        <4>2. Excused(t)' = n /\ ~AtStart(t)' BY <3>3, <3>6 DEF Excused, AtStart
        <4>3. Going(t)' \ {Excused(t)'} = Going(t) BY <3>4, <4>1, <4>2
        <4>4. Cardinality(Going(t)) <= stops + lost BY <1>2, <2>1, <3>6 DEF PileAt, AtStart
        <4> QED BY <2>1, <2>3, <4>2, <4>3, <4>4 DEF PileAt
      <3> QED BY <3>5, <3>6
    <2> QED BY <1>10, <2>2, <2>3, StartOf
  <1>11. CASE RecordRun
    <2>1. UNCHANGED <<alive, stops, runs>> /\ alive /\ pass.at = "record" /\ pass' = NextFire
      BY <1>11 DEF RecordRun
    <2>2. pass'.at \in {"read", "check"} BY <1>1, <2>1, NextFireOf DEF Firing
    <2>3. CASE lost' = lost + 1
      <3>1. stops' + lost' = stops + lost + 1 BY <1>1, <2>1, <2>3, Excuses
      <3> QED BY <1>1, <1>2, <2>1, <3>1, PileExcused
    <2>4. CASE tasks' = [tasks EXCEPT ![Head(pass.claimed).task].last = pass.run] /\ lost' = lost
      <3>1. tasks'[t].last = IF Head(pass.claimed).task = t THEN pass.run ELSE tasks[t].last
        BY <1>4, <2>4 DEF Row
      <3>2. Excused(t)' = Excused(t) /\ ~AtStart(t)' BY <2>1, <2>2, <3>1 DEF Excused, AtStart
      <3> QED BY <1>1, <1>2, <1>3, <2>1, <2>4, <3>2, PileStays
    <2> QED BY <1>11, <2>3, <2>4 DEF RecordRun
  <1>12. CASE \E u \in Scheduled : Pause(u) \/ Reenable(u) \/ Delete(u)
    <2>1. PICK u \in Scheduled : Pause(u) \/ Reenable(u) \/ Delete(u) BY <1>12
    <2>2. UNCHANGED <<alive, stops, runs, pass, lost>> BY <2>1 DEF Pause, Reenable, Delete, Request
    <2>3. tasks'[t].last = tasks[t].last
      BY <1>4, <2>1 DEF Pause, Reenable, Delete, Row
    <2> QED BY <1>3, <1>6, <2>2, <2>3
  <1>13. CASE \E r \in RunIds, to \in ActiveStates \union {"settled"} : RunMoves(r, to)
    <2>1. PICK r \in RunIds, to \in ActiveStates \union {"settled"} : RunMoves(r, to) BY <1>13
    <2>2. UNCHANGED <<alive, stops, tasks, pass, lost>> /\ runs' = [runs EXCEPT ![r].state = to]
          /\ runs[r].state \in ActiveStates
      BY <2>1 DEF RunMoves, Active
    <2>3. Going(t)' \subseteq Going(t) BY <1>4, <2>2 DEF Going, Active, RunRows
    <2> QED BY <1>6, <2>2, <2>3
  <1>14. CASE TimePasses
    <2>1. UNCHANGED <<alive, stops, tasks, runs, pass, lost>> BY <1>14 DEF TimePasses
    <2> QED BY <1>3, <1>6, <2>1
  <1>15. CASE DaemonDies
    <2>1. runs' = runs /\ lost' = lost /\ stops' = stops + 1 BY <1>15 DEF DaemonDies
    <2>2. stops' + lost' = stops + lost + 1 BY <1>1, <2>1, Excuses
    <2> QED BY <1>1, <1>2, <2>1, <2>2, PileExcused
  <1>16. CASE Restart
    <2>1. UNCHANGED <<stops, tasks, pass, lost>> /\ ~alive /\ alive' BY <1>16 DEF Restart
    <2>2. ~AtStart(t)'
      <3>1. pass'.at = "read" BY <1>1, <2>1, IdleFields DEF PassShape
      <3> QED BY <3>1 DEF AtStart
    <2> DEFINE S == Going(t)'
               y == Excused(t)'
               b == stops + lost
    <2>3. Cardinality(S) <= Cardinality(Going(t)) BY <1>1, <1>16, RestartOf
    <2>4. Cardinality(Going(t)) <= b BY <1>2, <2>1 DEF PileAt
    <2>5. Cardinality(Going(t)) \in Nat /\ IsFiniteSet(S) /\ Cardinality(S) \in Nat BY GoingFinite
    <2>6. Cardinality(S \ {y}) \in Nat /\ Cardinality(S \ {y}) <= Cardinality(S) BY <2>5, ButOne
    <2>7. b \in Nat BY <1>1, Excuses
    <2>8. stops' + lost' = b BY <2>1
    <2> HIDE DEF S, y, b
    <2>9. Cardinality(S \ {y}) <= b BY <2>3, <2>4, <2>5, <2>6, <2>7
    <2> QED BY <2>1, <2>2, <2>8, <2>9 DEF PileAt, S, y
  <1>17. CASE UNCHANGED scheduleVars
    <2>1. UNCHANGED <<alive, stops, tasks, runs, pass, lost>> BY <1>17 DEF scheduleVars
    <2> QED BY <1>3, <1>6, <2>1
  <1> QED BY <1>7, <1>8, <1>9, <1>10, <1>11, <1>12, <1>13, <1>14, <1>15, <1>16, <1>17
          DEF ScheduleNext, SchedulerStep

-----------------------------------------------------------------------------
(* The theorems.                                                           *)

(* The inductive invariant.                                                *)
ScheduleInv == ShapeInv /\ FireInv /\ PileInv

LEMMA ScheduleInvInit ==
    ASSUME ScheduleInit
    PROVE  ScheduleInv
  <1>1. /\ clock = 0 /\ stops = 0 /\ lost = 0 /\ requests = 0 /\ pass = Idle
        /\ runs = [r \in RunIds |-> Unused]
    BY DEF ScheduleInit
  <1>2. alive \in BOOLEAN /\ alive BY Zenon DEF ScheduleInit
  <1>3. Interval \in Nat /\ Horizon \in Nat /\ MaxStops \in Nat /\ MaxLostWrites \in Nat /\ MaxRequests \in Nat
    BY ScheduleAssumption
  <1>4. ASSUME NEW t \in Scheduled
        PROVE  tasks[t].next = 0 + Interval /\ tasks[t].last = NoRunId
    BY DEF ScheduleInit, FirstFire
  <1>5. tasks \in [Scheduled -> Row]
    <2> DEFINE row == [present |-> TRUE, enabled |-> TRUE, next |-> FirstFire(0), last |-> NoRunId]
    <2>1. FirstFire(0) \in Nat BY <1>3 DEF FirstFire
    <2>2. TRUE \in BOOLEAN OBVIOUS
    <2>3. row \in Row BY <2>1, <2>2 DEF Row
    <2>4. tasks = [t \in Scheduled |-> row] BY DEF ScheduleInit
    <2> HIDE DEF row
    <2> QED BY <2>3, <2>4
  <1>6. Unused \in RunRows BY DEF Unused, RunRows, RunStates, NoRunId
  <1>7. runs \in [RunIds -> RunRows] BY <1>1, <1>6
  <1>8. ASSUME NEW r \in RunIds PROVE runs[r] = Unused /\ runs[r].state = "none" /\ runs[r].kind = "none"
    BY <1>1 DEF Unused
  <1>9. ScheduleTypeOK
    <2>1. pass \in Passes BY <1>1, IdleFields
    <2> QED BY <1>1, <1>2, <1>3, <1>5, <1>7, <2>1 DEF ScheduleTypeOK, Passes, RunRows, RunStates
  <1>10. InOrder
    <2>1. 0 \in 0 .. Cardinality(RunIds) /\ RunIds = 1 .. Cardinality(RunIds) /\ Cardinality(RunIds) \in Nat
      BY Numbers
    <2>2. \A r \in RunIds : (runs[r].state # "none" <=> r <= 0) /\ (r > 0 => runs[r] = Unused)
      BY <1>8, <2>1
    <2> QED BY <2>1, <2>2 DEF InOrder
  <1>11. PassShape /\ PassRows /\ RowsStand
    BY <1>1, IdleFields DEF PassShape, PassRows, RowsStand, Firing
  <1>12. FireInv
    <2>1. ASSUME NEW t PROVE Fires(t) = {} BY <1>8 DEF Fires
    <2>2. ASSUME NEW t \in Scheduled PROVE Ahead(t)
      <3>1. tasks[t].next <= clock + Interval BY <1>1, <1>3, <1>4
      <3> QED BY <2>1, <3>1 DEF Ahead
    <2>3. ClaimInv BY <1>1, IdleFields DEF ClaimInv
    <2> QED BY <2>1, <2>2, <2>3 DEF FireInv, FireAtMostOnce, FiresSpaced
  <1>13. PileInv
    <2>1. ASSUME NEW t \in Scheduled PROVE PileAt(t)
      <3>1. Going(t) = {} BY <1>8 DEF Going, Active, ActiveStates
      <3>2. Cardinality({}) = 0 BY FS_EmptySet
      <3>3. {} \ {Excused(t)} = {} OBVIOUS
      <3>4. 0 <= stops + lost BY <1>1
      <3> QED BY <3>1, <3>2, <3>3, <3>4 DEF PileAt
    <2> QED BY <2>1 DEF PileInv
  <1> QED BY <1>9, <1>10, <1>11, <1>12, <1>13 DEF ScheduleInv, ShapeInv

LEMMA ScheduleInvStep ==
    ASSUME ScheduleInv, [ScheduleNext]_scheduleVars
    PROVE  ScheduleInv'
  <1>1. ShapeInv' BY ShapeStep DEF ScheduleInv
  <1>2. FireInv' BY <1>1, FireStep DEF ScheduleInv
  <1>3. PileInv' BY <1>1, PileStep DEF ScheduleInv
  <1> QED BY <1>1, <1>2, <1>3 DEF ScheduleInv

LEMMA ScheduleInvHolds == ScheduleSpec => []ScheduleInv
  BY ScheduleInvInit, ScheduleInvStep, PTL DEF ScheduleSpec

(* FireAtMostOnce for any number of tasks, runs, instants and failures: a  *)
(* due time starts at most one run and a one-off one in its life.          *)
THEOREM FiresOnce == ScheduleSpec => []FireAtMostOnce
  <1>1. ScheduleInv => FireAtMostOnce BY DEF ScheduleInv, FireInv
  <1> QED BY <1>1, ScheduleInvHolds, PTL

(* FiresSpaced: the runs a repeating task starts are an interval apart,    *)
(* whatever outage or pause came in between.                               *)
THEOREM FiresApart == ScheduleSpec => []FiresSpaced
  <1>1. ScheduleInv => FiresSpaced BY DEF ScheduleInv, FireInv
  <1> QED BY <1>1, ScheduleInvHolds, PTL

(* PileUpBounded: a task has one run going, and one more at most for each  *)
(* death of the daemon and each claim, read, start or recording that       *)
(* failed.                                                                 *)
THEOREM PileUpSound == ScheduleSpec => []PileUpBounded
  <1>1. ASSUME ScheduleInv PROVE PileUpBounded
    <2>1. ASSUME NEW t \in Scheduled PROVE Cardinality(Going(t)) <= 1 + stops + lost
      <3> DEFINE S == Going(t)
                 x == Excused(t)
      <3>1. IsFiniteSet(S) BY GoingFinite
      <3>2. Cardinality(S) \in Nat /\ Cardinality(S \ {x}) \in Nat /\ Cardinality(S) <= Cardinality(S \ {x}) + 1
        BY <3>1, ButOne
      <3>3. stops \in Nat /\ lost \in Nat BY <1>1, Excuses DEF ScheduleInv, ShapeInv
      <3>4. Cardinality(S \ {x}) <= stops + lost BY <1>1 DEF ScheduleInv, PileInv, PileAt
      <3> HIDE DEF S, x
      <3>5. Cardinality(S) <= 1 + stops + lost BY <3>2, <3>3, <3>4
      <3> QED BY <3>5 DEF S
    <2> QED BY <2>1 DEF PileUpBounded, Going
  <1> QED BY <1>1, ScheduleInvHolds, PTL
=============================================================================

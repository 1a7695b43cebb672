--------------------------- MODULE FollowingProofs ---------------------------
(***************************************************************************)
(* Proofs about what goes on beside a run, for instances of any size: the  *)
(* log its drivers write (RunLog), what a console that follows it is shown *)
(* (RunStream), what the owner is told (Announcements), and the coding     *)
(* jobs a Stop ends (CodingJobs).  The last three share no state; the last *)
(* theorem is about the instance that explores them together               *)
(* (MCFollowing).                                                          *)
(***************************************************************************)
EXTENDS MCFollowing, FiniteSetTheorems, WellFoundedInduction, TLAPS

(* The run's row and its log.                                              *)
RunInv ==
    /\ row \in OpenStates \union {"settled"}
    /\ log \in Seq(Kinds) /\ log # <<>>
    /\ since \in Nat /\ since <= Len(log)
    /\ SettledIsInTheLog

(* What the log got since the row last moved.                              *)
Announced == {log[i] : i \in (since + 1) .. Len(log)}

(* A driver about to write a move has read an open run; if nobody moved    *)
(* the row since, the event it put into the log is still unanswered.       *)
Moves == {"working", "parked"}
Sound(driver) ==
    /\ driver.at = "append" => driver.to \in Moves
    /\ driver.at = "write" => driver.to \in Moves \union {"settled"}
    /\ (driver.at = "write" /\ driver.fresh /\ driver.to \in Moves) => driver.to \in Announced

DriversInv ==
    /\ drivers \in [Drivers -> DriverStates]
    /\ \A d \in Drivers : Sound(drivers[d])

DownIsIdle == ~up => drivers = [d \in Drivers |-> Off]

(* The bounds: an open run has room for its settlement.                    *)
LogBounds ==
    /\ up \in BOOLEAN /\ deaths \in 0 .. MaxDeaths /\ failures \in 0 .. MaxFailures
    /\ Len(log) <= MaxEvents /\ (row # "settled" => Len(log) < MaxEvents)

LogInv == RunInv /\ DriversInv /\ DownIsIdle /\ LogBounds

-----------------------------------------------------------------------------
(* The run.  Every step leaves row and log alone, appends an event to the  *)
(* log of an open run, moves an open run whose log announces the move, or  *)
(* settles one together with its terminal event.                           *)

Rests == UNCHANGED rowVars
Grows == UNCHANGED <<row, since>> /\ \E kind \in Kinds \ {"terminal"} : AppendEvent(kind)
Moved == /\ row # "settled" /\ row' \in Moves /\ row' \in Announced
         /\ log' = log /\ since' = Len(log)

RowStep == Rests \/ Grows \/ Moved \/ SettleRun

(* What a driver has put into the log stays there until the row moves.     *)
LEMMA SoundStays ==
    ASSUME RunInv, Rests \/ Grows, NEW s \in DriverStates, Sound(s)
    PROVE  Sound(s)'
  <1>1. CASE Rests BY <1>1 DEF Rests, rowVars, Sound, Announced
  <1>2. CASE Grows
    <2>1. log \in Seq(Kinds) /\ Len(log) \in Nat /\ since' = since /\ since \in Nat
      BY <1>2 DEF RunInv, Grows
    <2>2. PICK kind \in Kinds : log' = Append(log, kind) BY <1>2 DEF Grows, AppendEvent
    <2>3. Len(log') = Len(log) + 1 /\ \A i \in 1 .. Len(log) : log'[i] = log[i] BY <2>1, <2>2
    <2>4. ASSUME NEW i \in (since + 1) .. Len(log)
          PROVE  i \in (since' + 1) .. Len(log') /\ log'[i] = log[i]
      BY <2>1, <2>3
    <2>5. Announced \subseteq Announced' BY <2>4 DEF Announced
    <2> QED BY <2>5 DEF Sound
  <1> QED BY <1>1, <1>2

(* One slot is written; the others are as they were.                       *)
LEMMA PutKeeps ==
    ASSUME RunInv, DriversInv, Rests \/ Grows,
           NEW d \in Drivers, NEW s \in DriverStates, Put(d, s), Sound(s)'
    PROVE  DriversInv'
  <1>1. /\ drivers' \in [Drivers -> DriverStates] /\ drivers'[d] = s
        /\ \A e \in Drivers \ {d} : drivers'[e] = drivers[e]
    BY DEF DriversInv, Put
  <1>2. ASSUME NEW e \in Drivers PROVE Sound(drivers[e])'
    <2>1. CASE e = d BY <1>1, <2>1 DEF Sound
    <2>2. CASE e # d
      <3>1. PICK t \in DriverStates : t = drivers[e] /\ Sound(t) BY DEF DriversInv
      <3>2. Sound(t)' BY <3>1, SoundStays
      <3>3. drivers'[e] = t BY <1>1, <2>2, <3>1
      <3> QED BY <3>2, <3>3 DEF Sound
    <2> QED BY <2>1, <2>2
  <1> QED BY <1>1, <1>2 DEF DriversInv

(* A slot that is free, or whose next statement is a read.                 *)
LEMMA Harmless ==
    ASSUME NEW s \in DriverStates, s.at \notin {"append", "write"}
    PROVE  Sound(s)'
  BY DEF Sound

(* The write of a row leaves no driver with a version that matches.        *)
LEMMA StaleKeeps ==
    ASSUME DriversInv, NEW s \in DriverStates, Sound(s)',
           \A d \in Drivers : drivers'[d] = s \/ drivers'[d] = [drivers[d] EXCEPT !.fresh = FALSE],
           drivers' \in [Drivers -> {drivers'[d] : d \in Drivers}]
    PROVE  DriversInv'
  <1>1. ASSUME NEW d \in Drivers PROVE drivers'[d] \in DriverStates /\ Sound(drivers[d])'
    <2>1. CASE drivers'[d] = s BY <2>1 DEF Sound
    <2>2. CASE drivers'[d] = [drivers[d] EXCEPT !.fresh = FALSE]
      <3>1. PICK t \in DriverStates : t = drivers[d] /\ Sound(t) BY DEF DriversInv
      <3>2. drivers'[d] = [t EXCEPT !.fresh = FALSE] BY <2>2, <3>1
      <3>3. /\ drivers'[d] \in DriverStates /\ drivers'[d].at = t.at /\ drivers'[d].to = t.to
            /\ drivers'[d].fresh = FALSE
        BY <3>2 DEF DriverStates
      <3> QED BY <3>1, <3>3 DEF Sound
    <2> QED BY <2>1, <2>2
  <1>2. drivers' \in [Drivers -> DriverStates] BY <1>1
  <1> QED BY <1>1, <1>2 DEF DriversInv

LEMMA OffIsFree == Off \in DriverStates /\ Off.at = "off"
  BY DEF Off, DriverStates, DriverPlaces

(* The steps of a driver, with what each does to row and log.              *)
LEMMA DriverKeeps ==
    ASSUME RunInv, DriversInv, NEW d \in Drivers, DriverStep(d)
    PROVE  RowStep /\ DriversInv'
  <1>0. PICK s \in DriverStates : s = drivers[d] /\ Sound(s) BY DEF DriversInv
  <1>s. /\ s = [at |-> s.at, new |-> s.new, answer |-> s.answer, saw |-> s.saw, to |-> s.to,
                fresh |-> s.fresh, legal |-> s.legal]
        /\ s.new \in BOOLEAN /\ s.answer \in BOOLEAN /\ s.fresh \in BOOLEAN /\ s.legal \in BOOLEAN
        /\ s.saw \in OpenStates \union {"none"} /\ s.at \in DriverPlaces
        /\ s.to \in {"none", "working", "parked", "settled"}
    BY DEF DriverStates
  <1>r. row \in OpenStates \union {"settled"} BY DEF RunInv
  <1>1. CASE DriverLooks(d)
    <2>1. Rests BY <1>1 DEF DriverLooks, Rests
    <2>2. CASE Put(d, Off) BY <2>1, <2>2, OffIsFree, Harmless, PutKeeps DEF RowStep
    <2>3. CASE row # "settled" /\ Put(d, [drivers[d] EXCEPT !.at = "step", !.saw = row, !.fresh = TRUE])
      <3>1. PICK t : t = [s EXCEPT !.at = "step", !.saw = row, !.fresh = TRUE] OBVIOUS
      <3>2. t \in DriverStates /\ t.at = "step" BY <1>r, <2>3, <3>1 DEF DriverStates, DriverPlaces
      <3>3. Put(d, t) BY <1>0, <2>3, <3>1
      <3> QED BY <2>1, <3>2, <3>3, Harmless, PutKeeps DEF RowStep
    <2> QED BY <1>1, <2>2, <2>3 DEF DriverLooks
  <1>2. ASSUME NEW to \in {"working", "parked", "settled"}, DriverReads(d, to)
        PROVE  RowStep /\ DriversInv'
    <2>1. Rests BY <1>2 DEF DriverReads, Rests
    <2>2. CASE Put(d, Off) BY <2>1, <2>2, OffIsFree, Harmless, PutKeeps DEF RowStep
    <2>3. ASSUME row # "settled", NEW legal \in InTable(d, to),
                 Put(d, [drivers[d] EXCEPT
                           !.at = IF to = "settled" THEN "write" ELSE "append",
                           !.answer = @ /\ drivers[d].saw # "parked",
                           !.saw = row, !.to = to, !.fresh = TRUE, !.legal = legal])
          PROVE  RowStep /\ DriversInv'
      <3>1. PICK t : t = [s EXCEPT !.at = IF to = "settled" THEN "write" ELSE "append",
                                   !.answer = @ /\ s.saw # "parked",
                                   !.saw = row, !.to = to, !.fresh = TRUE, !.legal = legal]
        OBVIOUS
      <3>2. legal \in BOOLEAN BY <2>3 DEF InTable
      <3>3. (s.answer /\ s.saw # "parked") \in BOOLEAN OBVIOUS
      <3>4. t \in DriverStates /\ t.to = to /\ t.at = IF to = "settled" THEN "write" ELSE "append"
        BY <1>r, <1>s, <2>3, <3>1, <3>2, <3>3 DEF DriverStates, DriverPlaces
      <3>5. Sound(t)' BY <3>4 DEF Sound, Moves
      <3>6. Put(d, t) BY <1>0, <2>3, <3>1
      <3> QED BY <2>1, <3>4, <3>5, <3>6, PutKeeps DEF RowStep
    <2> QED BY <1>2, <2>2, <2>3 DEF DriverReads
  <1>3. CASE DriverAppends(d)
    <2>1. /\ drivers[d].at = "append" /\ AppendEvent(s.to) /\ UNCHANGED <<row, since>>
          /\ Put(d, [drivers[d] EXCEPT !.at = "write"])
      BY <1>0, <1>3 DEF DriverAppends
    <2>2. s.to \in Moves BY <1>0, <2>1 DEF Sound
    <2>3. Grows BY <2>1, <2>2 DEF Grows, Moves, Kinds
    <2>4. PICK t : t = [s EXCEPT !.at = "write"] OBVIOUS
    <2>5. t \in DriverStates /\ t.to = s.to BY <1>s, <2>4 DEF DriverStates, DriverPlaces
    <2>6. Len(log) \in Nat /\ log' = Append(log, s.to) /\ since \in Nat /\ since <= Len(log)
      BY <2>1 DEF RunInv, AppendEvent
    <2>7. Len(log') = Len(log) + 1 /\ log'[Len(log) + 1] = s.to
      BY <2>2, <2>6 DEF RunInv, Moves, Kinds
    <2>8. Len(log) + 1 \in (since' + 1) .. Len(log') BY <2>1, <2>6, <2>7
    <2>9. s.to \in Announced' BY <2>7, <2>8 DEF Announced
    <2>10. Sound(t)' BY <2>2, <2>5, <2>9 DEF Sound
    <2>11. Put(d, t) BY <1>0, <2>1, <2>4
    <2> QED BY <2>3, <2>5, <2>10, <2>11, PutKeeps DEF RowStep
  <1>4. CASE DriverWrites(d)
    <2>1. drivers[d].at = "write" /\ s.fresh BY <1>0, <1>4 DEF DriverWrites, Accepted, Matches
    <2>2. drivers \in [Drivers -> DriverStates] BY DEF DriversInv
    <2>3. CASE SettleRun /\ drivers' = [Stale EXCEPT ![d] = Off]
      <3>0. PICK t \in DriverStates : t = Off /\ t.at = "off" BY OffIsFree
      <3>1. /\ \A e \in Drivers : drivers'[e] = t \/ drivers'[e] = [drivers[e] EXCEPT !.fresh = FALSE]
            /\ drivers' \in [Drivers -> {drivers'[e] : e \in Drivers}]
        BY <2>3, <3>0 DEF Stale
      <3>2. Sound(t)' BY <3>0, Harmless
      <3> QED BY <2>3, <3>1, <3>2, StaleKeeps DEF RowStep
    <2>4. CASE s.to # "settled"
      <3>1. s.to \in Moves /\ s.to \in Announced BY <1>0, <2>1, <2>4 DEF Sound
      <3>2. row # "settled" /\ row' = s.to /\ since' = Len(log) /\ log' = log
        BY <1>0, <1>4, <2>4 DEF DriverWrites
      <3>3. Moved BY <3>1, <3>2 DEF Moved
      <3>4. PICK next \in {"look", "step"} :
               drivers' = [Stale EXCEPT ![d] = [drivers[d] EXCEPT !.at = next, !.saw = row',
                                                  !.to = "none", !.fresh = TRUE, !.legal = FALSE]]
        BY <1>0, <1>4, <2>4 DEF DriverWrites
      <3>5. PICK t : t = [s EXCEPT !.at = next, !.saw = s.to, !.to = "none", !.fresh = TRUE,
                                   !.legal = FALSE]
        OBVIOUS
      <3>6. t \in DriverStates /\ t.at = next
        BY <1>s, <3>1, <3>5 DEF DriverStates, DriverPlaces, Moves, OpenStates
      <3>7. /\ \A e \in Drivers : drivers'[e] = t \/ drivers'[e] = [drivers[e] EXCEPT !.fresh = FALSE]
            /\ drivers' \in [Drivers -> {drivers'[e] : e \in Drivers}]
        BY <1>0, <3>2, <3>4, <3>5 DEF Stale
      <3>8. Sound(t)' BY <3>6, Harmless
      <3> QED BY <3>3, <3>6, <3>7, <3>8, StaleKeeps DEF RowStep
    <2> QED BY <1>0, <1>4, <2>3, <2>4 DEF DriverWrites
  <1>5. CASE DriverErrs(d)
    <2>1. Rests BY <1>5 DEF DriverErrs, Rests
    <2>2. PICK t : t = IF s.new THEN [Off EXCEPT !.at = "abandon"] ELSE Off OBVIOUS
    <2>3. t \in DriverStates /\ t.at \in {"off", "abandon"}
      BY <2>2 DEF Off, DriverStates, DriverPlaces
    <2>4. Put(d, t) BY <1>0, <1>5, <2>2 DEF DriverErrs
    <2> QED BY <2>1, <2>3, <2>4, Harmless, PutKeeps DEF RowStep
  <1>6. CASE DriverAbandons(d)
    <2>1. Rests BY <1>6 DEF DriverAbandons, Rests
    <2>2. PICK t : t = IF row = "settled" THEN Off
                       ELSE [Off EXCEPT !.at = "write", !.saw = row, !.to = "settled",
                                        !.fresh = TRUE, !.legal = (row # "parked")]
      OBVIOUS
    <2>3. t \in DriverStates /\ Sound(t)'
      <3>1. CASE row = "settled" BY <2>2, <3>1, OffIsFree, Harmless
      <3>2. CASE row # "settled"
        <4>1. (row # "parked") \in BOOLEAN OBVIOUS
        <4>2. t \in DriverStates /\ t.to = "settled" /\ t.at = "write"
          BY <1>r, <2>2, <3>2, <4>1 DEF Off, DriverStates, DriverPlaces
        <4> QED BY <4>2 DEF Sound, Moves
      <3> QED BY <3>1, <3>2
    <2>4. Put(d, t) BY <1>6, <2>2 DEF DriverAbandons
    <2> QED BY <2>1, <2>3, <2>4, PutKeeps DEF RowStep
  <1> QED BY <1>1, <1>2, <1>3, <1>4, <1>5, <1>6 DEF DriverStep

LEMMA LogKeeps ==
    ASSUME RunInv, DriversInv, DownIsIdle, [LogNext]_logVars
    PROVE  RowStep /\ DriversInv'
  <1>1. CASE \E d \in Drivers : DriverStep(d) BY <1>1, DriverKeeps
  <1>2. CASE AppendOutput
    <2>1. Grows /\ drivers' = drivers BY <1>2 DEF AppendOutput, Grows, Kinds
    <2> QED BY <2>1, SoundStays DEF RowStep, DriversInv
  <1>3. CASE StopParked
    <2>1. SettleRun /\ drivers' = Stale BY <1>3 DEF StopParked
    <2>2. PICK t \in DriverStates : t = Off /\ t.at = "off" BY OffIsFree
    <2>3. /\ \A e \in Drivers : drivers'[e] = t \/ drivers'[e] = [drivers[e] EXCEPT !.fresh = FALSE]
          /\ drivers' \in [Drivers -> {drivers'[e] : e \in Drivers}]
      BY <2>1 DEF Stale
    <2>4. Sound(t)' BY <2>2, Harmless
    <2> QED BY <2>1, <2>3, <2>4, StaleKeeps DEF RowStep
  <1>4. CASE Resume
    <2>1. Rests /\ Idle # {} BY <1>4 DEF Resume, Rests
    <2>2. PICK d : d = CHOOSE e \in Idle : TRUE OBVIOUS
    <2>3. d \in Drivers BY <2>1, <2>2 DEF Idle
    <2>4. PICK t : t = [Off EXCEPT !.at = "look", !.answer = TRUE] OBVIOUS
    <2>5. t \in DriverStates /\ t.at = "look" BY <2>4 DEF Off, DriverStates, DriverPlaces
    <2>6. Put(d, t) BY <1>4, <2>2, <2>4 DEF Resume
    <2> QED BY <2>1, <2>3, <2>5, <2>6, Harmless, PutKeeps DEF RowStep
  <1>5. CASE LogDies
    <2>1. Rests /\ drivers' = [d \in Drivers |-> Off] BY <1>5 DEF LogDies, Rests
    <2>2. ASSUME NEW d \in Drivers PROVE drivers'[d] \in DriverStates /\ Sound(drivers[d])'
      BY <2>1, OffIsFree DEF Sound
    <2> QED BY <2>1, <2>2, OffIsFree DEF RowStep, DriversInv
  <1>6. CASE LogRecovers
    <2>1. CASE Rests
      <3>1. drivers' = drivers BY <1>6 DEF LogRecovers
      <3> QED BY <2>1, <3>1, SoundStays DEF RowStep, DriversInv
    <2>2. CASE SettleRun
      <3>1. drivers' = drivers /\ drivers = [d \in Drivers |-> Off]
        BY <1>6 DEF LogRecovers, DownIsIdle
      <3>2. ASSUME NEW d \in Drivers PROVE drivers'[d] \in DriverStates /\ Sound(drivers[d])'
        BY <3>1, OffIsFree DEF Sound
      <3> QED BY <2>2, <3>1, <3>2, OffIsFree DEF RowStep, DriversInv
    <2> QED BY <1>6, <2>1, <2>2 DEF LogRecovers, Rests
  <1>7. CASE UNCHANGED logVars
    <2>1. Rests /\ drivers' = drivers BY <1>7 DEF logVars, Rests, rowVars
    <2> QED BY <2>1, SoundStays DEF RowStep, DriversInv
  <1> QED BY <1>1, <1>2, <1>3, <1>4, <1>5, <1>6, <1>7 DEF LogNext, WriterStep

LEMMA RowStepExtends ==
    ASSUME RunInv, RowStep
    PROVE  /\ log' \in Seq(Kinds) /\ Len(log') \in {Len(log), Len(log) + 1}
           /\ row = "settled" => row' = row /\ log' = log
  <1>0. log \in Seq(Kinds) BY DEF RunInv
  <1>1. \/ log' = log /\ (row = "settled" => row' = row)
        \/ row # "settled" /\ \E kind \in Kinds : log' = Append(log, kind)
    BY DEF RowStep, Rests, rowVars, Grows, AppendEvent, Moved, SettleRun, Kinds
  <1>2. CASE log' = log BY <1>0, <1>1, <1>2
  <1>3. ASSUME row # "settled", NEW kind \in Kinds, log' = Append(log, kind)
        PROVE  log' \in Seq(Kinds) /\ Len(log') = Len(log) + 1
    BY <1>0, <1>3
  <1> QED BY <1>1, <1>2, <1>3

LEMMA RunInvStep ==
    ASSUME RunInv, RowStep
    PROVE  RunInv'
  <1>0. /\ log \in Seq(Kinds) /\ log # <<>> /\ Len(log) \in Nat /\ SettledIsInTheLog
        /\ since \in Nat /\ since <= Len(log) /\ row \in OpenStates \union {"settled"}
    BY DEF RunInv
  <1>1. CASE Rests BY <1>0, <1>1 DEF RunInv, Rests, rowVars, SettledIsInTheLog
  <1>2. CASE Moved
    <2>1. /\ row # "settled" /\ row' # "settled" /\ log' = log /\ since' = Len(log)
          /\ row' \in OpenStates
      BY <1>2 DEF Moved, Moves, OpenStates
    <2>2. Len(log') = Len(log) /\ \A i \in 1 .. Len(log) : log'[i] = log[i] BY <2>1
    <2>3. SettledIsInTheLog' BY <1>0, <2>1, <2>2 DEF SettledIsInTheLog
    <2> QED BY <1>0, <2>1, <2>3 DEF RunInv
  <1>3. CASE Grows \/ SettleRun
    <2>1. PICK kind \in Kinds : /\ log' = Append(log, kind)
                                /\ row # "settled"
                                /\ row' = "settled" <=> kind = "terminal"
      BY <1>3 DEF Grows, AppendEvent, SettleRun, Kinds
    <2>2. /\ log' \in Seq(Kinds) /\ log' # <<>> /\ Len(log') = Len(log) + 1
          /\ log'[Len(log) + 1] = kind /\ \A i \in 1 .. Len(log) : log'[i] = log[i]
      BY <1>0, <2>1
    <2>3. \A i \in 1 .. Len(log) : log[i] # "terminal"
      BY <1>0, <2>1 DEF SettledIsInTheLog
    <2>4. SettledIsInTheLog' BY <1>0, <2>1, <2>2, <2>3 DEF SettledIsInTheLog
    <2>5. row' \in OpenStates \union {"settled"} BY <1>0, <1>3 DEF Grows, SettleRun
    <2>6. since' = since \/ since' = Len(log') BY <1>3 DEF Grows, SettleRun
    <2>7. since' \in Nat /\ since' <= Len(log') BY <1>0, <2>2, <2>6
    <2> QED BY <2>2, <2>4, <2>5, <2>7 DEF RunInv
  <1> QED BY <1>1, <1>2, <1>3 DEF RowStep

LEMMA LogLengthStep ==
    ASSUME RunInv, LogBounds, RowStep
    PROVE  Len(log') <= MaxEvents /\ (row' # "settled" => Len(log') < MaxEvents)
  <1>0. /\ log \in Seq(Kinds) /\ Len(log) \in Nat /\ MaxEvents \in Nat
    BY LogAssumption DEF RunInv
  <1>1. CASE Rests \/ Moved BY <1>1 DEF Rests, rowVars, Moved, LogBounds
  <1>2. CASE SettleRun
    <2>1. Len(log') = Len(log) + 1 BY <1>0, <1>2 DEF SettleRun, Kinds
    <2> QED BY <1>0, <1>2, <2>1 DEF SettleRun, LogBounds
  <1>3. CASE Grows
    <2>1. PICK kind \in Kinds : log' = Append(log, kind) /\ Len(log) + 1 < MaxEvents
      BY <1>3 DEF Grows, AppendEvent
    <2>2. Len(log') = Len(log) + 1 BY <1>0, <2>1
    <2> QED BY <1>0, <2>1, <2>2
  <1> QED BY <1>1, <1>2, <1>3 DEF RowStep

LEMMA WriterKeepsUp ==
    ASSUME WriterStep
    PROVE  /\ up /\ UNCHANGED <<up, deaths>>
           /\ failures' = failures \/ (failures < MaxFailures /\ failures' = failures + 1)
  BY DEF WriterStep, DriverStep, DriverLooks, DriverReads, DriverAppends, DriverWrites,
         DriverErrs, DriverAbandons, AppendOutput, StopParked, Resume

LEMMA LogBoundsStep ==
    ASSUME RunInv, LogBounds, RowStep, [LogNext]_logVars
    PROVE  LogBounds'
  <1>0. /\ log \in Seq(Kinds) /\ Len(log) \in Nat
        /\ MaxEvents \in Nat /\ MaxDeaths \in Nat /\ MaxFailures \in Nat
    BY LogAssumption DEF RunInv
  <1>1. CASE WriterStep
    BY <1>0, <1>1, WriterKeepsUp, LogLengthStep DEF LogBounds
  <1>2. CASE LogDies
    <2>1. up' = FALSE /\ deaths < MaxDeaths /\ deaths' = deaths + 1 /\ failures' = failures
      BY <1>2 DEF LogDies
    <2>2. deaths' \in 0 .. MaxDeaths BY <1>0, <2>1 DEF LogBounds
    <2> QED BY <2>1, <2>2, LogLengthStep DEF LogBounds
  <1>3. CASE LogRecovers BY <1>0, <1>3, LogLengthStep DEF LogRecovers, LogBounds
  <1>4. CASE UNCHANGED logVars BY <1>4, LogLengthStep DEF logVars, LogBounds
  <1> QED BY <1>1, <1>2, <1>3, <1>4 DEF LogNext

LEMMA LogInvInit ==
    ASSUME LogInit PROVE LogInv
  <1>1. RunInv
    BY DEF LogInit, RunInv, SettledIsInTheLog, OpenStates, Kinds
  <1>2. DriversInv
    <2>1. PICK first : first = [Off EXCEPT !.at = "look", !.new = TRUE] OBVIOUS
    <2>2. first \in DriverStates /\ first.at = "look"
      BY <2>1 DEF Off, DriverStates, DriverPlaces
    <2>3. drivers = [d \in Drivers |-> IF d = FirstDriver THEN first ELSE Off]
      BY <2>1 DEF LogInit
    <2>4. ASSUME NEW d \in Drivers PROVE drivers[d] \in DriverStates /\ Sound(drivers[d])
      BY <2>2, <2>3, OffIsFree DEF Sound
    <2> QED BY <2>2, <2>3, <2>4, OffIsFree DEF DriversInv
  <1>3. LogBounds
    <2>1. Len(log) = 1 BY DEF LogInit
    <2> QED BY <2>1, LogAssumption DEF LogInit, LogBounds
  <1> QED BY <1>1, <1>2, <1>3 DEF LogInit, LogInv, DownIsIdle

LEMMA LogInvStep ==
    ASSUME LogInv, [LogNext]_logVars PROVE LogInv' /\ RowStep
  <1>1. RowStep /\ DriversInv' BY LogKeeps DEF LogInv
  <1>2. RunInv' BY <1>1, RunInvStep DEF LogInv
  <1>3. LogBounds' BY <1>1, LogBoundsStep DEF LogInv
  <1>4. DownIsIdle'
    <2>1. CASE WriterStep
      BY <2>1, WriterKeepsUp DEF DownIsIdle
    <2>2. CASE LogDies \/ LogRecovers BY <2>2 DEF LogDies, LogRecovers, DownIsIdle
    <2>3. CASE UNCHANGED logVars BY <2>3 DEF logVars, LogInv, DownIsIdle
    <2> QED BY <2>1, <2>2, <2>3 DEF LogNext
  <1> QED BY <1>1, <1>2, <1>3, <1>4 DEF LogInv

LEMMA LogInvHolds == LogSpec => []LogInv
  BY LogInvInit, LogInvStep, PTL DEF LogSpec

(* Whichever drivers race a settlement and wherever the daemon dies, a run *)
(* is settled exactly when its log ends in the only terminal event, for    *)
(* any number of drivers: settle_run writes both in one transaction and    *)
(* append_run_event refuses a settled run.                                 *)
THEOREM LogAndRowAgree == LogSpec => []SettledIsInTheLog
  <1>1. LogInv => SettledIsInTheLog BY DEF LogInv, RunInv
  <1> QED BY <1>1, LogInvHolds, PTL

LEMMA Explained ==
    ASSUME RunInv, RowStep, row' # row \/ since' # since
    PROVE  \E i \in (since + 1) .. Len(log') :
              log'[i] = IF row' = "settled" THEN "terminal" ELSE row'
  <1>0. log \in Seq(Kinds) /\ Len(log) \in Nat /\ since \in Nat /\ since <= Len(log)
    BY DEF RunInv
  <1>1. Moved \/ SettleRun BY DEF RowStep, Rests, rowVars, Grows
  <1>2. CASE Moved
    <2>1. row' \in Announced /\ log' = log /\ row' # "settled" BY <1>2 DEF Moved, Moves
    <2>2. PICK i \in (since + 1) .. Len(log) : log[i] = row' BY <2>1 DEF Announced
    <2> QED BY <2>1, <2>2
  <1>3. CASE SettleRun
    <2>1. row' = "settled" /\ log' = Append(log, "terminal") BY <1>3 DEF SettleRun
    <2>2. Len(log') = Len(log) + 1 /\ log'[Len(log) + 1] = "terminal"
      BY <1>0, <2>1 DEF Kinds
    <2>3. Len(log) + 1 \in (since + 1) .. Len(log') BY <1>0, <2>2
    <2> QED BY <2>1, <2>2, <2>3
  <1> QED BY <1>1, <1>2, <1>3

(* Whichever drivers overlap, lose their writes or fail, every move of the *)
(* row has its event in the log after all that the log held at the move    *)
(* before, for any number of drivers and any log (advance appends the      *)
(* event first, transition_run matches the version, settle_run writes      *)
(* both).                                                                  *)
THEOREM MovesExplained == LogSpec => StreamExplainsMoves
  <1>1. LogInv /\ [LogNext]_logVars =>
           [row' # row \/ since' # since =>
               \E i \in (since + 1) .. Len(log') :
                  log'[i] = IF row' = "settled" THEN "terminal" ELSE row']_logVars
    BY LogInvStep, Explained DEF LogInv
  <1> QED BY <1>1, LogInvHolds, PTL DEF LogSpec, StreamExplainsMoves

(* A console changes nothing of the run.                                   *)
LEMMA StreamIsLog == [StreamNext]_streamVars => [LogNext]_logVars
  BY DEF StreamNext, LogNext, Connect, ConnectFails, StreamStep, Deliver, ReadPage, ReadHighest,
         ReadLast, ReadFails, Lost, Die, Recover, streamVars

LEMMA StreamRowStep ==
    ASSUME LogInv, [StreamNext]_streamVars PROVE RowStep /\ LogInv' /\ RunInv
  BY StreamIsLog, LogInvStep DEF LogInv

LEMMA StreamLogHolds == StreamSpec => []LogInv
  <1>1. StreamInit => LogInv BY LogInvInit DEF StreamInit
  <1> QED BY <1>1, StreamRowStep, PTL DEF StreamSpec

-----------------------------------------------------------------------------
(* The stream and its client.                                              *)

Conns == [at : {"idle", "page", "highest", "last"}, next : Nat \ {0},
          buffered : SUBSET Nat, top : Nat, finished : BOOLEAN]
Clients == [held : HeldPositions, last : Nat, attempts : Nat,
            phase : {"following", "done", "gaveup"}]

(* A stream holds sequences the log has, and serves a client that follows. *)
ConnInv ==
    /\ conn \in Conns /\ client \in Clients
    /\ conn.buffered \subseteq 1 .. Len(log)
    /\ conn.at # "idle" => up /\ client.phase = "following"
    /\ DoneSawTheEnd

LEMMA LeastNumber ==
    ASSUME NEW S \in SUBSET Nat, S # {}
    PROVE  (CHOOSE n \in S : \A m \in S : n <= m) \in S
  <1> DEFINE Less == OpToRel(<, Nat)
  <1>1. IsWellFoundedOn(Less, Nat) BY NatLessThanWellFounded
  <1>2. \A m, n \in Nat : n < m => <<n, m>> \in Less BY DEF OpToRel
  <1> HIDE DEF Less
  <1>3. PICK n \in S : \A m \in S : ~(<<m, n>> \in Less) BY <1>1, WFMin
  <1>4. \A m \in S : m \in Nat /\ n \in Nat /\ ~(m < n) BY <1>2, <1>3
  <1>5. \A m \in S : n <= m BY <1>4
  <1> QED BY <1>5

LEMMA LoseAttemptTypes ==
    ASSUME client \in Clients, LoseAttempt
    PROVE  /\ client' \in Clients /\ client'.last = client.last
           /\ client'.phase = "done" => client.phase = "done"
  <1> DEFINE given == client.attempts + 1 = MaxAttempts
  <1>1. client' = [client EXCEPT !.attempts = @ + 1, !.phase = IF given THEN "gaveup" ELSE @]
    BY DEF LoseAttempt
  <1> HIDE DEF given
  <1>2. client.attempts + 1 \in Nat BY DEF Clients
  <1> QED BY <1>1, <1>2 DEF Clients

(* A step that ends the stream, that finds none, or that has nothing to do *)
(* with stream and client.                                                 *)
Apart ==
    \/ conn' = NoConn /\ (client' = client \/ LoseAttempt)
    \/ conn.at = "idle" /\ conn' = conn /\ (client' = client \/ LoseAttempt)
    \/ UNCHANGED <<conn, client, up>>

LEMMA ApartKeeps ==
    ASSUME RunInv, RowStep, ConnInv, Apart
    PROVE  ConnInv'
  <1>0. /\ conn \in Conns /\ client \in Clients /\ conn.buffered \subseteq 1 .. Len(log)
        /\ DoneSawTheEnd /\ log \in Seq(Kinds) /\ Len(log) \in Nat
        /\ conn.at # "idle" => up /\ client.phase = "following"
    BY DEF RunInv, ConnInv
  <1>1. NoConn \in Conns /\ NoConn.buffered = {} /\ NoConn.at = "idle" BY DEF NoConn, Conns
  <1>2. conn' \in Conns /\ conn'.buffered \subseteq conn.buffered BY <1>0, <1>1 DEF Apart
  <1>3. /\ client' \in Clients /\ client'.last = client.last
        /\ client'.phase = "done" => client.phase = "done"
    BY <1>0, LoseAttemptTypes DEF Apart
  <1>4. conn'.at # "idle" => up' /\ client'.phase = "following" BY <1>0, <1>1 DEF Apart
  <1>5. 1 .. Len(log) \subseteq 1 .. Len(log')
    <2>1. Len(log') \in {Len(log), Len(log) + 1} BY RowStepExtends
    <2> QED BY <1>0, <2>1
  <1>6. row = "settled" => row' = "settled" /\ log' = log BY RowStepExtends
  <1>7. DoneSawTheEnd' BY <1>0, <1>3, <1>6 DEF DoneSawTheEnd
  <1> QED BY <1>0, <1>2, <1>3, <1>4, <1>5, <1>7 DEF ConnInv

LEMMA ConnInvStep ==
    ASSUME RunInv, RowStep, ConnInv, [StreamNext]_streamVars
    PROVE  ConnInv'
  <1>0. /\ conn \in Conns /\ client \in Clients /\ conn.buffered \subseteq 1 .. Len(log)
        /\ DoneSawTheEnd /\ log \in Seq(Kinds) /\ Len(log) \in Nat
        /\ conn.at # "idle" => up /\ client.phase = "following"
    BY DEF RunInv, ConnInv
  <1>1. CASE Apart BY <1>1, ApartKeeps
  <1>2. CASE Connect
    <2>1. CASE BeyondEnd BY <1>1, <1>2, <2>1 DEF Connect, Apart
    <2>2. CASE ~BeyondEnd
      <3>1. /\ UNCHANGED <<row, log, client, up>> /\ up /\ client.phase = "following"
            /\ conn' = [NoConn EXCEPT !.at = "page", !.next = ResumeCursor]
        BY <1>2, <2>2 DEF Connect, logVars
      <3>2. ResumeCursor \in Nat \ {0}
        <4>1. client.last \in Nat BY <1>0 DEF Clients
        <4> QED BY <4>1 DEF ResumeCursor
      <3>3. conn' \in Conns /\ conn'.buffered = {} BY <3>1, <3>2 DEF NoConn, Conns
      <3> QED BY <1>0, <3>1, <3>3 DEF ConnInv, DoneSawTheEnd
    <2> QED BY <2>1, <2>2
  <1>3. CASE Deliver
    <2> DEFINE seq == CHOOSE n \in conn.buffered : \A m \in conn.buffered : n <= m
               over == log[seq] = "terminal"
    <2>1. seq \in conn.buffered
      <3>1. conn.buffered # {} /\ conn.buffered \in SUBSET Nat BY <1>0, <1>3 DEF Deliver, Conns
      <3> QED BY <3>1, LeastNumber
    <2>2. /\ UNCHANGED <<row, log, up>>
          /\ client' = [client EXCEPT !.last = seq, !.phase = IF over THEN "done" ELSE @]
          /\ conn' = IF over THEN NoConn ELSE [conn EXCEPT !.buffered = @ \ {seq}]
      BY <1>3 DEF Deliver, logVars
    <2> HIDE DEF seq
    <2>3. seq \in 1 .. Len(log) BY <1>0, <2>1
    <2>4. over => seq = Len(log) /\ row = "settled" BY <2>3 DEF RunInv, SettledIsInTheLog
    <2>5. up /\ client.phase = "following" BY <1>0, <1>3 DEF Deliver
    <2> HIDE DEF over
    <2>t. client \in Clients /\ seq \in Nat BY <1>0, <2>3
    <2>6. CASE over
      <3>0. client' = [client EXCEPT !.last = seq, !.phase = "done"] BY <2>2, <2>6
      <3>1. client' \in Clients /\ client'.last = seq BY <2>t, <3>0 DEF Clients
      <3>2. conn' \in Conns /\ conn'.buffered = {} /\ conn'.at = "idle"
        BY <2>2, <2>6 DEF NoConn, Conns
      <3> QED BY <2>2, <2>4, <2>6, <3>1, <3>2 DEF ConnInv, DoneSawTheEnd
    <2>7. CASE ~over
      <3>0. client' = [client EXCEPT !.last = seq, !.phase = @] BY <2>2, <2>7
      <3>1. client' \in Clients /\ client'.phase = "following"
        BY <2>t, <2>5, <3>0 DEF Clients
      <3>2. conn' \in Conns /\ conn'.buffered \subseteq conn.buffered
        BY <1>0, <2>2, <2>7 DEF Conns
      <3> QED BY <1>0, <2>2, <2>5, <3>1, <3>2 DEF ConnInv, DoneSawTheEnd
    <2> QED BY <2>6, <2>7
  <1>4. CASE ReadPage \/ ReadHighest \/ (ReadLast /\ conn' # NoConn)
    <2>1. UNCHANGED <<row, log, up, client>> /\ up /\ client.phase = "following"
      BY <1>0, <1>4 DEF ReadPage, ReadHighest, ReadLast, ReadingAt, logVars
    <2>2. conn' \in Conns /\ conn'.buffered \subseteq 1 .. Len(log)
      <3>1. CASE conn' = [conn EXCEPT !.at = "highest"] BY <1>0, <3>1 DEF Conns
      <3>2. CASE ReadHighest BY <1>0, <3>2 DEF ReadHighest, ReadingAt, Conns
      <3>3. CASE ReadLast
        <4>1. conn' = NoConn \/ conn' = [conn EXCEPT !.at = "page", !.top = 0]
          BY <3>3 DEF ReadLast
        <4>2. CASE conn' = NoConn BY <4>2 DEF NoConn, Conns
        <4>3. CASE conn' = [conn EXCEPT !.at = "page", !.top = 0] BY <1>0, <4>3 DEF Conns
        <4> QED BY <4>1, <4>2, <4>3
      <3>4. CASE ReadPage /\ PageFrom(conn.next) # {}
        <4> DEFINE page == PageFrom(conn.next)
                   last == conn.next + Cardinality(page) - 1
                   ends == log[last] = "terminal"
        <4>1. conn' = [conn EXCEPT !.buffered = page, !.next = last + 1, !.finished = ends]
          BY <3>4 DEF ReadPage
        <4>2. conn.next \in Nat \ {0} BY <1>0 DEF Conns
        <4>3. page \subseteq 1 .. Len(log) /\ page \subseteq conn.next .. Len(log)
          BY <1>0, <4>2 DEF PageFrom
        <4>4. Cardinality(page) \in Nat
          <5>1. IsFiniteSet(1 .. Len(log)) BY <1>0, FS_Interval
          <5>2. IsFiniteSet(page) BY <4>3, <5>1, FS_Subset
          <5> QED BY <5>2, FS_CardinalityType
        <4>5. last + 1 \in Nat \ {0} BY <4>2, <4>4
        <4> HIDE DEF page, last
        <4>6. ends \in BOOLEAN OBVIOUS
        <4> HIDE DEF ends
        <4>7. page \in SUBSET Nat BY <1>0, <4>3
        <4> QED BY <1>0, <4>1, <4>3, <4>5, <4>6, <4>7 DEF Conns
      <3> QED BY <1>4, <3>1, <3>2, <3>3, <3>4 DEF ReadPage
    <2> QED BY <1>0, <2>1, <2>2 DEF ConnInv, DoneSawTheEnd
  <1>5. CASE \/ ConnectFails \/ ReadFails \/ Lost \/ Die \/ Recover
             \/ (ReadLast /\ conn' = NoConn)
    <2>1. NoConn.at # "page" BY DEF NoConn
    <2>2. CASE ReadLast /\ conn' = NoConn
      <3>1. [conn EXCEPT !.at = "page", !.top = 0].at = "page" BY <1>0 DEF Conns
      <3>2. conn' = NoConn /\ LoseAttempt BY <2>1, <2>2, <3>1 DEF ReadLast
      <3> QED BY <1>1, <3>2 DEF Apart
    <2>3. CASE ConnectFails BY <1>0, <1>1, <2>3 DEF ConnectFails, Apart
    <2>4. CASE Recover BY <1>0, <1>1, <2>4 DEF Recover, LogRecovers, clientVars, Apart
    <2> QED BY <1>1, <1>5, <2>2, <2>3, <2>4 DEF ReadFails, Lost, Die, Apart
  <1>6. CASE (WriterStep /\ UNCHANGED clientVars) \/ UNCHANGED streamVars
    <2>1. UNCHANGED <<conn, client, up>>
      BY <1>6, WriterKeepsUp DEF clientVars, streamVars, logVars
    <2> QED BY <1>1, <2>1 DEF Apart
  <1> QED BY <1>2, <1>3, <1>4, <1>5, <1>6 DEF StreamNext, StreamStep

LEMMA ConnInvInit ==
    ASSUME StreamInit PROVE ConnInv
  <1>1. conn \in Conns /\ conn.buffered = {} /\ conn.at = "idle"
    BY DEF StreamInit, NoConn, Conns
  <1>2. client \in Clients /\ client.phase = "following"
    BY StreamAssumption DEF StreamInit, Clients
  <1> QED BY <1>1, <1>2 DEF ConnInv, DoneSawTheEnd

LEMMA ConnInvHolds == StreamSpec => []ConnInv
  <1>1. LogInv /\ ConnInv /\ [StreamNext]_streamVars => ConnInv'
    BY StreamRowStep, ConnInvStep
  <1> QED BY <1>1, ConnInvInit, StreamLogHolds, PTL DEF StreamSpec

(* A console that stopped at a terminal event holds the last sequence of a *)
(* settled run, whatever was lost or repeated on the way: event_stream     *)
(* only ever buffers what the log has, and nothing follows a terminal      *)
(* event.                                                                  *)
THEOREM DoneIsTheEnd == StreamSpec => []DoneSawTheEnd
  <1>1. ConnInv => DoneSawTheEnd BY DEF ConnInv
  <1> QED BY <1>1, ConnInvHolds, PTL

-----------------------------------------------------------------------------
(* What the client is shown.                                               *)

Start == IF client.held = 0 THEN 1 ELSE client.held
Repeats == {i \in 2 .. Len(shown) : shown[i] = shown[i - 1]}

(* The part of the property about the events that were shown, with what a  *)
(* client remembers of them.                                               *)
SeenInv ==
    /\ shown \in Seq(Nat \ {0})
    /\ shown # <<>> => shown[1] = Start
    /\ \A i \in 2 .. Len(shown) : shown[i] \in {shown[i - 1], shown[i - 1] + 1}
    /\ client.last = IF shown = <<>> THEN client.held ELSE shown[Len(shown)]
    /\ Cardinality(Repeats) <= client.attempts

(* A stream holds the events from f on: f is where the client has to go on, *)
(* and only the first event of a connection is one it has seen.            *)
GoesOnAt(f) ==
    /\ f <= conn.next /\ conn.buffered = f .. (conn.next - 1)
    /\ shown = <<>> => f = Start
    /\ shown # <<>> => f \in {client.last, client.last + 1}
    /\ shown # <<>> /\ f = client.last => Cardinality(Repeats) < client.attempts

(* A client that has to connect again has lost a connection.               *)
FlowInv ==
    /\ conn.at # "idle" => \E f \in Nat \ {0} : GoesOnAt(f)
    /\ conn.at = "idle" /\ client.phase = "following" /\ shown # <<>> =>
          Cardinality(Repeats) < client.attempts

ShownInv == SeenInv /\ FlowInv

LEMMA RepeatsCounted ==
    ASSUME SeenInv PROVE IsFiniteSet(Repeats) /\ Cardinality(Repeats) \in Nat
  <1>1. Len(shown) \in Nat BY DEF SeenInv
  <1>2. IsFiniteSet(2 .. Len(shown)) BY <1>1, FS_Interval
  <1>3. IsFiniteSet(Repeats) BY <1>2, FS_Subset DEF Repeats
  <1> QED BY <1>3, FS_CardinalityType

(* A connection that ends without a terminal event is counted.             *)
LEMMA LosingKeeps ==
    ASSUME ConnInv, ShownInv, LoseAttempt, conn'.at = "idle", shown' = shown
    PROVE  ShownInv'
  <1>1. /\ client \in Clients BY DEF ConnInv
  <1>2. /\ client'.held = client.held /\ client'.last = client.last
        /\ client'.attempts = client.attempts + 1
    BY <1>1 DEF LoseAttempt, Clients
  <1>3. client.attempts \in Nat BY <1>1 DEF Clients
  <1>4. Start' = Start /\ Repeats' = Repeats BY <1>2 DEF Start, Repeats
  <1>5. Cardinality(Repeats') < client'.attempts
    BY <1>2, <1>3, <1>4, RepeatsCounted DEF ShownInv, SeenInv
  <1>6. SeenInv'
    <2>1. Cardinality(Repeats') <= client'.attempts BY <1>2, <1>3, <1>4, <1>5, RepeatsCounted DEF ShownInv
    <2> QED BY <1>2, <1>4, <2>1 DEF ShownInv, SeenInv
  <1>7. FlowInv' BY <1>5 DEF FlowInv
  <1> QED BY <1>6, <1>7 DEF ShownInv

(* One event more: the client goes on where it was, or sees its last event *)
(* again.                                                                  *)
LEMMA DeliverKeeps ==
    ASSUME RunInv, ConnInv, ShownInv, Deliver
    PROVE  ShownInv'
  <1> DEFINE seq == CHOOSE n \in conn.buffered : \A m \in conn.buffered : n <= m
             over == log[seq] = "terminal"
  <1>0. conn \in Conns /\ client \in Clients /\ client.phase = "following" /\ conn.at # "idle"
    BY DEF ConnInv, Deliver
  <1>1. /\ shown' = Append(shown, seq)
        /\ client' = [client EXCEPT !.last = seq, !.phase = IF over THEN "done" ELSE @]
        /\ conn' = IF over THEN NoConn ELSE [conn EXCEPT !.buffered = @ \ {seq}]
        /\ conn.buffered # {}
    BY DEF Deliver
  <1>2. PICK f \in Nat \ {0} : GoesOnAt(f) BY <1>0 DEF ShownInv, FlowInv
  <1>3. seq = f
    <2>1. conn.next \in Nat BY <1>0 DEF Conns
    <2>2. conn.buffered = f .. (conn.next - 1) /\ f \in conn.buffered
      BY <1>1, <1>2, <2>1 DEF GoesOnAt
    <2>3. \A m \in conn.buffered : f <= m BY <2>1, <2>2
    <2>4. \A n \in conn.buffered : n <= f => n = f BY <2>1, <2>2
    <2> QED BY <2>2, <2>3, <2>4
  <1> HIDE DEF seq, over
  <1>4. /\ client'.held = client.held /\ client'.last = f
        /\ client'.attempts = client.attempts /\ client'.phase \in {"done", "following"}
        /\ over <=> client'.phase = "done"
    BY <1>0, <1>1, <1>3 DEF Clients
  <1>5. /\ Len(shown) \in Nat /\ Len(shown') = Len(shown) + 1 /\ shown'[Len(shown) + 1] = f
        /\ shown' \in Seq(Nat \ {0}) /\ shown' # <<>>
        /\ \A i \in 1 .. Len(shown) : shown'[i] = shown[i]
    BY <1>1, <1>3 DEF ShownInv, SeenInv
  <1>6. Start' = Start BY <1>4 DEF Start
  <1>7. Repeats' = IF shown # <<>> /\ f = client.last THEN Repeats \union {Len(shown) + 1}
                   ELSE Repeats
    <2>1. CASE shown = <<>> BY <1>5, <2>1 DEF Repeats
    <2>2. CASE shown # <<>>
      <3>1. client.last = shown[Len(shown)] /\ Len(shown) \in 1 .. Len(shown)
        BY <1>5, <2>2 DEF ShownInv, SeenInv
      <3>2. shown'[Len(shown)] = client.last BY <1>5, <3>1
      <3>3. \A i \in 2 .. Len(shown) : shown'[i] = shown[i] /\ shown'[i - 1] = shown[i - 1]
        BY <1>5
      <3>4. 2 .. Len(shown') = (2 .. Len(shown)) \union {Len(shown) + 1} BY <1>5, <3>1
      <3> QED BY <1>5, <2>2, <3>2, <3>3, <3>4 DEF Repeats
    <2> QED BY <2>1, <2>2
  <1>8. Cardinality(Repeats') <= client.attempts
    <2>0. client.attempts \in Nat /\ IsFiniteSet(Repeats) /\ Cardinality(Repeats) \in Nat
      BY <1>0, RepeatsCounted DEF Clients, ShownInv
    <2>1. CASE shown # <<>> /\ f = client.last
      <3>1. Len(shown) + 1 \notin Repeats BY <1>5 DEF Repeats
      <3>2. Cardinality(Repeats') = Cardinality(Repeats) + 1
        BY <1>7, <2>0, <2>1, <3>1, FS_AddElement
      <3>3. Cardinality(Repeats) < client.attempts BY <1>2, <2>1 DEF GoesOnAt
      <3> QED BY <2>0, <3>2, <3>3
    <2>2. CASE ~(shown # <<>> /\ f = client.last)
      BY <1>7, <2>2 DEF ShownInv, SeenInv
    <2> QED BY <2>1, <2>2
  <1>9. SeenInv'
    <2>1. shown'[1] = Start
      <3>1. CASE shown = <<>> BY <1>2, <1>5, <3>1 DEF GoesOnAt
      <3>2. CASE shown # <<>>
        <4>1. 1 \in 1 .. Len(shown) BY <1>5, <3>2 DEF ShownInv, SeenInv
        <4>2. shown[1] = Start BY <3>2 DEF ShownInv, SeenInv
        <4> QED BY <1>5, <4>1, <4>2
      <3> QED BY <3>1, <3>2
    <2>2. ASSUME NEW i \in 2 .. Len(shown') PROVE shown'[i] \in {shown'[i - 1], shown'[i - 1] + 1}
      <3>1. CASE i \in 2 .. Len(shown)
        <4>1. i \in 1 .. Len(shown) /\ i - 1 \in 1 .. Len(shown) BY <1>5, <3>1
        <4>2. shown[i] \in {shown[i - 1], shown[i - 1] + 1} BY <3>1 DEF ShownInv, SeenInv
        <4> QED BY <1>5, <4>1, <4>2
      <3>2. CASE i = Len(shown) + 1
        <4>1. shown # <<>> /\ Len(shown) \in 1 .. Len(shown) BY <1>5, <2>2, <3>2
        <4>2. shown'[i - 1] = client.last BY <1>5, <3>2, <4>1 DEF ShownInv, SeenInv
        <4> QED BY <1>2, <1>5, <3>2, <4>1, <4>2 DEF GoesOnAt
      <3> QED BY <1>5, <2>2, <3>1, <3>2
    <2> QED BY <1>4, <1>5, <1>6, <1>8, <2>1, <2>2 DEF SeenInv
  <1>10. FlowInv'
    <2>1. CASE over BY <1>1, <1>4, <2>1 DEF FlowInv, NoConn
    <2>2. CASE ~over
      <3>0. conn.next \in Nat /\ conn.buffered = f .. (conn.next - 1) /\ f \in conn.buffered
        <4>1. conn.next \in Nat BY <1>0 DEF Conns
        <4> QED BY <1>1, <1>2, <4>1 DEF GoesOnAt
      <3>1. conn' = [conn EXCEPT !.buffered = @ \ {f}] BY <1>1, <1>3, <2>2
      <3>2. conn'.next = conn.next /\ conn'.buffered = conn.buffered \ {f} /\ conn'.at = conn.at
        BY <1>0, <3>1 DEF Conns
      <3>3. f + 1 <= conn'.next /\ conn'.buffered = (f + 1) .. (conn'.next - 1)
        BY <3>0, <3>2
      <3>4. GoesOnAt(f + 1)' BY <1>4, <1>5, <3>3 DEF GoesOnAt
      <3> QED BY <1>0, <3>2, <3>4 DEF FlowInv
    <2> QED BY <2>1, <2>2
  <1> QED BY <1>9, <1>10 DEF ShownInv

(* A page begins where the stream stands and ends where it goes on.        *)
LEMMA PageShape ==
    ASSUME NEW next \in Nat \ {0}, Len(log) \in Nat, PageFrom(next) # {}
    PROVE  \E last \in Nat : /\ next <= last /\ PageFrom(next) = next .. last
                             /\ next + Cardinality(PageFrom(next)) - 1 = last
  <1> DEFINE last == IF Len(log) < next + Page THEN Len(log) ELSE next + Page - 1
  <1>0. Page \in Nat \ {0} BY StreamAssumption
  <1>1. PageFrom(next) = next .. last BY <1>0 DEF PageFrom
  <1>2. last \in Nat /\ next <= last BY <1>0, <1>1
  <1> HIDE DEF last
  <1>3. Cardinality(next .. last) = last - next + 1 BY <1>2, FS_Interval
  <1> QED BY <1>1, <1>2, <1>3

(* The reads move the stream on without leaving an event out.              *)
LEMMA ReadKeeps ==
    ASSUME RunInv, ConnInv, ShownInv, UNCHANGED <<client, shown>>,
           ReadPage \/ ReadHighest \/ (ReadLast /\ conn' # NoConn)
    PROVE  ShownInv'
  <1>0. conn \in Conns /\ conn.next \in Nat \ {0} /\ conn.at # "idle" /\ conn.buffered = {}
    BY DEF ConnInv, Conns, ReadPage, ReadHighest, ReadLast, ReadingAt
  <1>1. PICK f \in Nat \ {0} : GoesOnAt(f) BY <1>0 DEF ShownInv, FlowInv
  <1>2. f = conn.next
    <2>1. f <= conn.next /\ f .. (conn.next - 1) = {} BY <1>0, <1>1 DEF GoesOnAt
    <2>2. f < conn.next => f \in f .. (conn.next - 1) BY <1>0
    <2> QED BY <1>0, <2>1, <2>2
  <1>3. SeenInv' BY DEF ShownInv, SeenInv, Start, Repeats
  <1>4. conn'.at # "idle" /\ f <= conn'.next /\ conn'.buffered = f .. (conn'.next - 1)
    <2>1. CASE conn'.next = conn.next /\ conn'.buffered = conn.buffered /\ conn'.at # "idle"
      BY <1>0, <1>1, <2>1 DEF GoesOnAt
    <2>2. CASE ReadHighest BY <1>0, <2>1, <2>2 DEF ReadHighest, Conns
    <2>3. CASE ReadLast /\ conn' # NoConn
      <3>1. conn' = [conn EXCEPT !.at = "page", !.top = 0] BY <2>3 DEF ReadLast
      <3> QED BY <1>0, <2>1, <3>1 DEF Conns
    <2>4. CASE ReadPage /\ PageFrom(conn.next) = {} BY <1>0, <2>1, <2>4 DEF ReadPage, Conns
    <2>5. CASE ReadPage /\ PageFrom(conn.next) # {}
      <3> DEFINE page == PageFrom(conn.next)
                 end == conn.next + Cardinality(page) - 1
                 ends == log[end] = "terminal"
      <3>1. conn' = [conn EXCEPT !.buffered = page, !.next = end + 1, !.finished = ends]
        BY <2>5 DEF ReadPage
      <3>2. Len(log) \in Nat BY DEF RunInv
      <3>3. PICK last \in Nat : conn.next <= last /\ page = conn.next .. last /\ end = last
        BY <1>0, <2>5, <3>2, PageShape
      <3> HIDE DEF page, end, ends
      <3>4. conn'.buffered = page /\ conn'.next = end + 1 /\ conn'.at = conn.at
        BY <1>0, <3>1 DEF Conns
      <3> QED BY <1>0, <1>2, <3>3, <3>4
    <2> QED BY <2>2, <2>3, <2>4, <2>5
  <1>5. Start' = Start /\ Repeats' = Repeats BY DEF Start, Repeats
  <1>6. GoesOnAt(f)' BY <1>1, <1>4, <1>5 DEF GoesOnAt
  <1> QED BY <1>3, <1>4, <1>6 DEF ShownInv, FlowInv

LEMMA ShownInvStep ==
    ASSUME RunInv, RowStep, ConnInv, ShownInv, [StreamNext]_streamVars
    PROVE  ShownInv'
  <1>0. conn \in Conns /\ client \in Clients /\ (conn.at # "idle" => up) BY DEF ConnInv
  <1>n. NoConn.at = "idle" BY DEF NoConn
  <1>1. CASE UNCHANGED <<conn, client, shown>>
    BY <1>1 DEF ShownInv, SeenInv, FlowInv, GoesOnAt, Start, Repeats
  <1>2. CASE LoseAttempt /\ conn'.at = "idle" /\ shown' = shown BY <1>2, LosingKeeps
  <1>3. CASE conn.at = "idle" /\ conn' = NoConn /\ UNCHANGED <<client, shown>>
    BY <1>3, <1>n DEF ShownInv, SeenInv, FlowInv, Start, Repeats
  <1>4. CASE Connect
    <2>1. CASE BeyondEnd BY <1>2, <1>4, <2>1 DEF Connect
    <2>2. CASE ~BeyondEnd
      <3>1. /\ UNCHANGED <<client, shown>> /\ client.phase = "following" /\ conn.at = "idle"
            /\ conn' = [NoConn EXCEPT !.at = "page", !.next = ResumeCursor]
        BY <1>4, <2>2 DEF Connect
      <3>2. conn'.at = "page" /\ conn'.next = ResumeCursor /\ conn'.buffered = {}
        BY <3>1 DEF NoConn
      <3>3. Start' = Start /\ Repeats' = Repeats BY <3>1 DEF Start, Repeats
      <3>4. client.last \in Nat /\ ResumeCursor \in Nat \ {0}
        <4>1. client.last \in Nat BY <1>0 DEF Clients
        <4> QED BY <4>1 DEF ResumeCursor
      <3>5. shown # <<>> => client.last # 0
        BY DEF ShownInv, SeenInv
      <3>6. shown = <<>> => ResumeCursor = Start
        BY DEF ShownInv, SeenInv, ResumeCursor, Start
      <3>7. shown # <<>> => ResumeCursor = client.last /\ Cardinality(Repeats) < client.attempts
        BY <3>1, <3>5 DEF ShownInv, FlowInv, ResumeCursor
      <3>8. ResumeCursor .. (ResumeCursor - 1) = {} BY <3>4
      <3>9. GoesOnAt(ResumeCursor)'
        <4>1. ResumeCursor' = ResumeCursor BY <3>1 DEF ResumeCursor
        <4>2. ResumeCursor <= conn'.next /\ conn'.buffered = ResumeCursor .. (conn'.next - 1)
          BY <3>2, <3>4, <3>8
        <4>3. /\ shown' = <<>> => ResumeCursor = Start'
              /\ shown' # <<>> => ResumeCursor = client'.last
              /\ shown' # <<>> => Cardinality(Repeats') < client'.attempts
          BY <3>1, <3>3, <3>6, <3>7
        <4> QED BY <4>1, <4>2, <4>3 DEF GoesOnAt
      <3>10. SeenInv' BY <3>1, <3>3 DEF ShownInv, SeenInv
      <3>11. ResumeCursor' \in Nat \ {0} BY <3>1, <3>4 DEF ResumeCursor
      <3> QED BY <3>2, <3>9, <3>10, <3>11 DEF ShownInv, FlowInv
    <2> QED BY <2>1, <2>2
  <1>5. CASE Deliver BY <1>5, DeliverKeeps
  <1>6. CASE ReadPage \/ ReadHighest \/ (ReadLast /\ conn' # NoConn)
    <2>1. UNCHANGED <<client, shown>>
      BY <1>6 DEF ReadPage, ReadHighest, ReadLast
    <2> QED BY <1>6, <2>1, ReadKeeps
  <1>7. CASE ReadLast /\ conn' = NoConn
    <2>1. [conn EXCEPT !.at = "page", !.top = 0].at = "page" BY <1>0 DEF Conns
    <2>2. LoseAttempt /\ shown' = shown BY <1>7, <1>n, <2>1 DEF ReadLast
    <2> QED BY <1>2, <1>7, <1>n, <2>2
  <1>8. CASE ReadFails \/ Lost BY <1>2, <1>8, <1>n DEF ReadFails, Lost
  <1>9. CASE ConnectFails BY <1>0, <1>2, <1>9 DEF ConnectFails
  <1>10. CASE Die BY <1>2, <1>3, <1>10, <1>n DEF Die
  <1>11. CASE UNCHANGED clientVars \/ Recover \/ UNCHANGED streamVars
    BY <1>1, <1>11 DEF Recover, clientVars, streamVars
  <1> QED BY <1>4, <1>5, <1>6, <1>7, <1>8, <1>9, <1>10, <1>11 DEF StreamNext, StreamStep

LEMMA ShownInvInit ==
    ASSUME StreamInit PROVE ShownInv
  <1>1. PICK held \in HeldPositions :
           client = [held |-> held, last |-> held, attempts |-> 0, phase |-> "following"]
    BY DEF StreamInit
  <1>2. client.last = client.held /\ client.attempts = 0 BY <1>1
  <1>3. shown = <<>> /\ conn.at = "idle" /\ Len(shown) = 0 BY DEF StreamInit, NoConn
  <1>4. Repeats = {} BY <1>3 DEF Repeats
  <1>5. Cardinality(Repeats) = 0 BY <1>4, FS_EmptySet
  <1> QED BY <1>2, <1>3, <1>5 DEF ShownInv, SeenInv, FlowInv

LEMMA ShownIsEnough == ConnInv /\ ShownInv => ShownWithoutGap
  <1> SUFFICES ASSUME ConnInv, ShownInv PROVE ShownWithoutGap OBVIOUS
  <1>1. client.held \in Nat BY StreamAssumption DEF ConnInv, Clients
  <1>2. Start \in {client.held, client.held + 1} BY <1>1 DEF Start
  <1> QED BY <1>2 DEF ShownInv, SeenInv, Repeats, ShownWithoutGap

(* Whatever was lost or closed early, the client is shown the log in order *)
(* from the position it held and skips nothing, and sees again at most the *)
(* one event it holds, once for each connection it lost, for pages and     *)
(* logs of any length (event_stream, resume_cursor, hud.js).               *)
THEOREM NoGap == StreamSpec => []ShownWithoutGap
  <1>2. LogInv /\ ConnInv /\ ShownInv /\ [StreamNext]_streamVars => ShownInv'
    BY StreamRowStep, ShownInvStep
  <1> QED BY <1>2, ShownIsEnough, ShownInvInit, ConnInvHolds, StreamLogHolds, PTL DEF StreamSpec

-----------------------------------------------------------------------------
(* The bounds: a client that follows has a connection left.                *)
BoundInv ==
    /\ faults \in 0 .. MaxFaults
    /\ conn.top \in Positions
    /\ client.attempts <= MaxAttempts
    /\ client.phase = "following" => client.attempts < MaxAttempts

LEMMA LosingIsBounded ==
    ASSUME client \in Clients, client.phase = "following", client.attempts < MaxAttempts, LoseAttempt
    PROVE  /\ client'.attempts <= MaxAttempts
           /\ client'.phase = "following" => client'.attempts < MaxAttempts
  <1>1. client.attempts \in Nat /\ MaxAttempts \in Nat BY StreamAssumption DEF Clients
  <1>2. /\ client'.attempts = client.attempts + 1
        /\ client'.phase = IF client.attempts + 1 = MaxAttempts THEN "gaveup" ELSE client.phase
    BY DEF LoseAttempt, Clients
  <1> QED BY <1>1, <1>2

LEMMA BoundInvStep ==
    ASSUME LogInv, ConnInv, BoundInv, [StreamNext]_streamVars
    PROVE  BoundInv'
  <1>0. /\ conn \in Conns /\ client \in Clients /\ log \in Seq(Kinds) /\ Len(log) \in Nat
        /\ conn.at # "idle" => up /\ client.phase = "following"
        /\ MaxEvents \in Nat /\ MaxFaults \in Nat /\ Len(log) <= MaxEvents
    BY LogAssumption, StreamAssumption DEF LogInv, RunInv, LogBounds, ConnInv
  <1>3. faults' \in 0 .. MaxFaults
    <2>1. faults' = faults \/ (faults < MaxFaults /\ faults' = faults + 1)
      BY DEF StreamNext, Connect, ConnectFails, StreamStep, Deliver, ReadPage, ReadHighest,
             ReadLast, ReadFails, Lost, Die, Recover, clientVars, streamVars
    <2> QED BY <1>0, <2>1 DEF BoundInv
  <1>5. conn'.top \in Positions
    <2>1. NoConn.top = 0 /\ 0 \in Positions BY <1>0 DEF NoConn, Positions
    <2>2. CASE ReadHighest
      <3>1. conn'.top = Len(log) BY <1>0, <2>2 DEF ReadHighest, Conns
      <3> QED BY <1>0, <3>1 DEF BoundInv, Positions
    <2>3. CASE conn' = conn \/ conn' = NoConn BY <2>1, <2>3 DEF BoundInv
    <2>4. CASE Connect BY <2>1, <2>3, <2>4 DEF Connect, NoConn
    <2>5. CASE Deliver
      <3>1. conn' = NoConn \/ conn'.top = conn.top BY <1>0, <2>5 DEF Deliver, Conns
      <3> QED BY <2>3, <3>1 DEF BoundInv
    <2>6. CASE ReadPage
      <3>1. conn'.top = conn.top BY <1>0, <2>6 DEF ReadPage, Conns
      <3> QED BY <3>1 DEF BoundInv
    <2>7. CASE ReadLast
      <3>1. conn' = NoConn \/ conn'.top = 0 BY <1>0, <2>7 DEF ReadLast, Conns
      <3> QED BY <2>1, <2>3, <3>1
    <2> QED BY <2>2, <2>3, <2>4, <2>5, <2>6, <2>7
         DEF StreamNext, ConnectFails, StreamStep, ReadFails, Lost, Die, Recover, clientVars,
             streamVars
  <1>6. /\ client'.attempts <= MaxAttempts
        /\ client'.phase = "following" => client'.attempts < MaxAttempts
    <2>1. CASE client' = client BY <2>1 DEF BoundInv
    <2>2. CASE LoseAttempt /\ client.phase = "following"
      BY <1>0, <2>2, LosingIsBounded DEF BoundInv
    <2>3. CASE Deliver
      <3>1. client'.attempts = client.attempts /\ client.phase = "following"
        BY <1>0, <2>3 DEF Deliver, Clients
      <3> QED BY <3>1 DEF BoundInv
    <2>4. CASE Connect BY <2>1, <2>2, <2>4 DEF Connect
    <2>5. CASE ConnectFails BY <2>2, <2>5 DEF ConnectFails
    <2>6. CASE ReadLast BY <1>0, <2>1, <2>2, <2>6 DEF ReadLast, ReadingAt
    <2>7. CASE ReadFails \/ Lost BY <1>0, <2>2, <2>7 DEF ReadFails, Lost
    <2>8. CASE Die BY <1>0, <2>1, <2>2, <2>8 DEF Die
    <2> QED BY <2>1, <2>3, <2>4, <2>5, <2>6, <2>7, <2>8
         DEF StreamNext, StreamStep, ReadPage, ReadHighest, Recover, clientVars, streamVars
  <1> QED BY <1>3, <1>5, <1>6 DEF BoundInv

StreamInv == LogInv /\ ConnInv /\ ShownInv /\ BoundInv

LEMMA StreamInvInit ==
    ASSUME StreamInit PROVE StreamInv
  <1>1. BoundInv
    <2>1. PICK held \in HeldPositions :
             client = [held |-> held, last |-> held, attempts |-> 0, phase |-> "following"]
      BY DEF StreamInit
    <2>2. client.attempts = 0 BY <2>1
    <2>3. conn.top = 0 BY DEF StreamInit, NoConn
    <2> QED BY <2>2, <2>3, LogAssumption, StreamAssumption DEF StreamInit, BoundInv, Positions
  <1> QED BY <1>1, LogInvInit, ConnInvInit, ShownInvInit DEF StreamInit, StreamInv

LEMMA StreamInvStep ==
    ASSUME StreamInv, [StreamNext]_streamVars PROVE StreamInv'
  BY StreamRowStep, ConnInvStep, ShownInvStep, BoundInvStep DEF StreamInv

LEMMA StreamInvTypes ==
    ASSUME StreamInv PROVE StreamTypeOK
  <1>1. conn \in [at : {"idle", "page", "highest", "last"}, next : Nat,
                  buffered : SUBSET Nat, top : Positions, finished : BOOLEAN]
    BY DEF StreamInv, ConnInv, BoundInv, Conns
  <1>2. client.attempts \in 0 .. MaxAttempts
    BY StreamAssumption DEF StreamInv, ConnInv, BoundInv, Clients
  <1>3. client \in [held : HeldPositions, last : Nat, attempts : 0 .. MaxAttempts,
                    phase : {"following", "done", "gaveup"}]
    BY <1>2 DEF StreamInv, ConnInv, Clients
  <1>4. shown \in Seq(Nat) BY DEF StreamInv, ShownInv, SeenInv
  <1>5. LogTypeOK
    <2>1. since \in 0 .. Len(log)
      <3>1. log \in Seq(Kinds) /\ since \in Nat /\ since <= Len(log)
        BY DEF StreamInv, LogInv, RunInv
      <3> QED BY <3>1
    <2> QED BY <2>1 DEF StreamInv, LogInv, RunInv, DriversInv, LogBounds, LogTypeOK
  <1> QED BY <1>1, <1>3, <1>4, <1>5 DEF StreamInv, BoundInv, StreamTypeOK

-----------------------------------------------------------------------------
(* What the owner is told.                                                 *)

(* The runs are made in id order, and a task's row names a run of its own. *)
MadeInv ==
    /\ \E k \in Nat : Made = 1 .. k
    /\ \A t \in WatchedTasks :
          lastRun[t] \in WatchedRuns => lastRun[t] \in Made /\ made[lastRun[t]].by = t

(* A run the watcher follows or has announced is not brought up again: no  *)
(* task's row does, and it is remembered as triggered while it is recent.  *)
Known == watch.pending \union {r \in WatchedRuns : told[r] = 1}

ToldInv ==
    /\ Known \subseteq Made
    /\ Known \intersect NoticedRuns = {} /\ Known \intersect NewlyTriggered = {}
    /\ \A r \in WatchedRuns : told[r] <= 1 /\ (told[r] = 1 => r \notin watch.pending)

(* An approval is announced once, and once more for each look that could   *)
(* not read it: what was announced and still waits is remembered.          *)
AskedInv ==
    \A r \in WatchedRuns :
        /\ asked[r] <= 1 + blind
        /\ made[r].state \in {"none", "working"} => asked[r] = 0
        /\ r \in Waiting /\ ~watch.first /\ r \notin watch.approvals => asked[r] <= blind

AnnounceInv == AnnounceTypeOK /\ MadeInv /\ ToldInv /\ AskedInv

LEMMA AnnounceInvInit ==
    ASSUME AnnounceInit PROVE AnnounceInv
  <1>0. Cardinality(WatchedRuns) \in Nat BY AnnouncementAssumption, FS_CardinalityType
  <1>1. AnnounceTypeOK
    <2>1. watch = FreshWatcher BY DEF AnnounceInit
    <2>2. watch \in [first : BOOLEAN, firstRecent : BOOLEAN,
                  seen : [WatchedTasks -> {NoneYet} \union WatchedRuns],
                  triggered : SUBSET WatchedRuns, pending : SUBSET WatchedRuns,
                  approvals : SUBSET WatchedRuns]
      BY <2>1 DEF FreshWatcher, NoneYet
    <2>3. lastRun \in [WatchedTasks -> 0 .. Removed]
      BY <1>0 DEF AnnounceInit, NoneYet, Removed
    <2> QED BY <1>0, <2>2, <2>3, AnnouncementAssumption DEF AnnounceInit, AnnounceTypeOK, GoingOn
  <1>2. Made = {} BY DEF AnnounceInit, Made
  <1>3. MadeInv
    <2>1. Made = 1 .. 0 BY <1>2
    <2>2. \A t \in WatchedTasks : lastRun[t] \notin WatchedRuns
      BY <1>0, AnnouncementAssumption DEF AnnounceInit, NoneYet
    <2> QED BY <2>1, <2>2 DEF MadeInv
  <1>4. ToldInv
    BY <1>2 DEF AnnounceInit, ToldInv, Known, NoticedRuns, NewlyTriggered, FreshWatcher
  <1>5. AskedInv BY AnnouncementAssumption DEF AnnounceInit, AskedInv, Waiting, Made
  <1> QED BY <1>1, <1>3, <1>4, <1>5 DEF AnnounceInv

Watchers ==
    [first : BOOLEAN, firstRecent : BOOLEAN,
     seen : [WatchedTasks -> {NoneYet} \union WatchedRuns],
     triggered : SUBSET WatchedRuns, pending : SUBSET WatchedRuns,
     approvals : SUBSET WatchedRuns]
Records == [by : WatchedTasks \union {"none", "trigger"},
            state : GoingOn \union {"none", "settled"}]

LEMMA RunNumbers ==
    /\ Cardinality(WatchedRuns) \in Nat /\ WatchedRuns = 1 .. Cardinality(WatchedRuns)
    /\ Removed \in Nat /\ Removed \notin WatchedRuns /\ 0 \notin WatchedRuns
    /\ \A S \in SUBSET WatchedRuns : IsFiniteSet(S) /\ Cardinality(S) \in Nat
  <1>1. Cardinality(WatchedRuns) \in Nat /\ WatchedRuns = 1 .. Cardinality(WatchedRuns)
    BY AnnouncementAssumption, FS_CardinalityType
  <1>2. \A S \in SUBSET WatchedRuns : IsFiniteSet(S) /\ Cardinality(S) \in Nat
    BY AnnouncementAssumption, FS_Subset, FS_CardinalityType
  <1> QED BY <1>1, <1>2 DEF Removed

(* Newer runs only push a run out of the recent ones.                      *)
LEMMA RecentShrinks ==
    ASSUME Made \subseteq Made', Made' \subseteq WatchedRuns, NEW r \in Made, r \in Recent'
    PROVE  r \in Recent
  <1> DEFINE newer(M) == {s \in M : s > r}
  <1>1. newer(Made) \subseteq newer(Made') /\ newer(Made') \in SUBSET WatchedRuns
        /\ newer(Made) \in SUBSET WatchedRuns
    OBVIOUS
  <1>2. IsFiniteSet(newer(Made')) /\ Cardinality(newer(Made')) \in Nat
        /\ Cardinality(newer(Made)) \in Nat
    BY <1>1, RunNumbers
  <1>3. Cardinality(newer(Made)) <= Cardinality(newer(Made')) BY <1>1, <1>2, FS_Subset
  <1>4. Cardinality(newer(Made')) < RecentLimit BY DEF Recent
  <1>5. Cardinality(newer(Made)) < RecentLimit
    BY <1>2, <1>3, <1>4, AnnouncementAssumption
  <1> QED BY <1>5 DEF Recent

(* A step that tells nobody and brings up nothing but new runs.            *)
LEMMA ToldKeeps ==
    ASSUME ToldInv, Made \subseteq Made', told' = told, watch'.pending \subseteq watch.pending,
           NoticedRuns' \intersect Made \subseteq NoticedRuns,
           NewlyTriggered' \intersect Made \subseteq NewlyTriggered
    PROVE  ToldInv'
  <1>1. Known' \subseteq Known BY DEF Known
  <1> QED BY <1>1 DEF ToldInv

LEMMA StartKeeps ==
    ASSUME AnnounceInv, NEW by \in WatchedTasks \union {"trigger"}, RunStarts(by)
    PROVE  AnnounceInv'
  <1> DEFINE r == Cardinality(Made) + 1
  <1>0. AnnounceTypeOK /\ made \in [WatchedRuns -> Records] /\ Made \subseteq WatchedRuns
    BY DEF AnnounceInv, AnnounceTypeOK, Made, Records
  <1>1. PICK k \in Nat : Made = 1 .. k BY DEF AnnounceInv, MadeInv
  <1>2. r = k + 1
    <2>1. Cardinality(1 .. k) = k - 1 + 1 \/ (1 > k /\ Cardinality(1 .. k) = 0) BY FS_Interval
    <2> QED BY <1>1, <2>1
  <1>3. r \in WatchedRuns /\ r \notin Made
    <2>1. Made # WatchedRuns BY DEF RunStarts
    <2> QED BY <1>0, <1>1, <1>2, <2>1, RunNumbers
  <1>4. /\ made' = [made EXCEPT ![r] = [by |-> by, state |-> "working"]]
        /\ lastRun' = IF by \in WatchedTasks THEN [lastRun EXCEPT ![by] = r] ELSE lastRun
        /\ UNCHANGED <<serving, reboots, watch, window, blind, told, asked>>
    BY DEF RunStarts
  <1> HIDE DEF r
  <1>5. made' \in [WatchedRuns -> Records] BY <1>0, <1>3, <1>4 DEF Records, GoingOn
  <1>6. Made' = Made \union {r} BY <1>0, <1>3, <1>4 DEF Made
  <1>7. AnnounceTypeOK'
    <2>1. lastRun' \in [WatchedTasks -> 0 .. Removed]
      BY <1>0, <1>3, <1>4, RunNumbers DEF AnnounceTypeOK, Removed
    <2> QED BY <1>0, <1>4, <1>5, <2>1 DEF AnnounceTypeOK, Records
  <1>8. MadeInv'
    <2>1. Made' = 1 .. (k + 1) BY <1>1, <1>2, <1>6
    <2>2. ASSUME NEW t \in WatchedTasks, lastRun'[t] \in WatchedRuns
          PROVE  lastRun'[t] \in Made' /\ made'[lastRun'[t]].by = t
      <3>1. CASE t = by
        <4>1. lastRun'[t] = r BY <1>0, <1>4, <3>1 DEF AnnounceTypeOK
        <4> QED BY <1>0, <1>3, <1>4, <1>6, <3>1, <4>1
      <3>2. CASE t # by
        <4>1. lastRun'[t] = lastRun[t] BY <1>0, <1>4, <3>2 DEF AnnounceTypeOK
        <4>2. lastRun[t] \in Made /\ made[lastRun[t]].by = t
          BY <2>2, <4>1 DEF AnnounceInv, MadeInv
        <4> QED BY <1>0, <1>3, <1>4, <1>6, <4>1, <4>2
      <3> QED BY <3>1, <3>2
    <2> QED BY <2>1, <2>2 DEF MadeInv
  <1>9. ToldInv'
    <2>1. NoticedRuns' \intersect Made \subseteq NoticedRuns
      <3>1. ASSUME NEW t \in ChangedTasks', lastRun'[t] \in Made
            PROVE  t \in ChangedTasks /\ lastRun'[t] = lastRun[t]
        <4>1. t \in WatchedTasks /\ lastRun'[t] # r BY <1>3, <3>1 DEF ChangedTasks
        <4>2. lastRun'[t] = lastRun[t] BY <1>0, <1>4, <4>1 DEF AnnounceTypeOK
        <4> QED BY <1>4, <3>1, <4>1, <4>2 DEF ChangedTasks
      <3> QED BY <1>4, <3>1 DEF NoticedRuns
    <2>2. NewlyTriggered' \intersect Made \subseteq NewlyTriggered
      <3>1. ASSUME NEW q \in Made, q \in RecentTriggered' PROVE q \in RecentTriggered
        <4>1. q \in Recent BY <1>0, <1>3, <1>6, <3>1, RecentShrinks DEF RecentTriggered
        <4>2. made'[q] = made[q] BY <1>0, <1>3, <1>4, <3>1
        <4> QED BY <3>1, <4>1, <4>2 DEF RecentTriggered
      <3> QED BY <1>4, <3>1 DEF NewlyTriggered
    <2> QED BY <1>4, <1>6, <2>1, <2>2, ToldKeeps DEF AnnounceInv
  <1>10. AskedInv'
    <2>1. made[r].state = "none" BY <1>3 DEF Made
    <2>2. Waiting' \subseteq Waiting BY <1>0, <1>3, <1>4, <1>6 DEF Waiting
    <2>3. \A q \in WatchedRuns : made'[q].state \in {"none", "working"} =>
             made[q].state \in {"none", "working"}
      BY <1>0, <1>3, <1>4, <2>1
    <2> QED BY <1>4, <2>2, <2>3 DEF AnnounceInv, AskedInv
  <1> QED BY <1>7, <1>8, <1>9, <1>10 DEF AnnounceInv

(* A step that moves runs on, forgets a task or has nothing to do with     *)
(* either.                                                                 *)
LEMMA QuietKeeps ==
    ASSUME AnnounceInv, AnnounceTypeOK', UNCHANGED <<watch, blind, told, asked>>,
           \A t \in WatchedTasks : lastRun'[t] \in {lastRun[t], Removed},
           \A r \in WatchedRuns :
              /\ made'[r].by = made[r].by
              /\ made'[r].state = made[r].state
                   \/ (made[r].state = "working" /\ made'[r].state \in {"parked", "settled"})
                   \/ (made[r].state = "parked" /\ made'[r].state = "settled")
    PROVE  AnnounceInv'
  <1>1. Made' = Made BY DEF Made
  <1>2. MadeInv' BY <1>1, RunNumbers DEF AnnounceInv, MadeInv
  <1>3. Recent' = Recent BY <1>1 DEF Recent
  <1>4. NewlyTriggered' = NewlyTriggered
    BY <1>1, <1>3 DEF NewlyTriggered, RecentTriggered, Recent, Made
  <1>5. NoticedRuns' \subseteq NoticedRuns
    BY RunNumbers DEF NoticedRuns, ChangedTasks
  <1>6. ToldInv' BY <1>1, <1>4, <1>5, ToldKeeps DEF AnnounceInv
  <1>7. AskedInv'
    <2>1. blind \in Nat /\ asked \in [WatchedRuns -> Nat]
      BY AnnouncementAssumption DEF AnnounceInv, AnnounceTypeOK
    <2>2. ASSUME NEW r \in WatchedRuns, r \in Waiting' PROVE r \in Waiting \/ asked[r] <= blind
      BY <1>1, <2>1, <2>2 DEF AnnounceInv, AskedInv, Waiting
    <2> QED BY <2>2 DEF AnnounceInv, AskedInv
  <1> QED BY <1>2, <1>6, <1>7 DEF AnnounceInv

(* A look announces what it removes, and remembers what it takes up.       *)
LEMMA LookKeeps ==
    ASSUME AnnounceInv, Look
    PROVE  AnnounceInv'
  <1>0. /\ AnnounceTypeOK /\ watch \in Watchers /\ Made \subseteq WatchedRuns
        /\ blind \in Nat /\ told \in [WatchedRuns -> Nat] /\ asked \in [WatchedRuns -> Nat]
    BY AnnouncementAssumption DEF AnnounceInv, AnnounceTypeOK, Watchers, Made
  <1>1. UNCHANGED <<serving, reboots, lastRun, made, window>> BY DEF Look
  <1>2. PICK recent \in BOOLEAN, waiting \in BOOLEAN, unread \in SUBSET WatchedRuns :
          LET clear   == recent /\ waiting /\ unread = {}
              taken   == (watch.pending \union NoticedRuns
                             \union (IF recent THEN NewlyTriggered ELSE {})) \ unread
          IN  /\ ~clear => blind < MaxBlindLooks
              /\ blind' = IF clear THEN blind ELSE blind + 1
              /\ watch' = [first |-> FALSE,
                           firstRecent |-> watch.firstRecent /\ ~recent,
                           seen |-> [t \in WatchedTasks |->
                               IF t \in ChangedTasks THEN lastRun[t] ELSE watch.seen[t]],
                           triggered |-> IF recent THEN RecentTriggered ELSE watch.triggered,
                           pending |-> taken \ Finished(taken),
                           approvals |-> IF ~waiting THEN watch.approvals
                                         ELSE IF HeldBack THEN watch.approvals \intersect Waiting
                                         ELSE Waiting]
              /\ told' = [r \in WatchedRuns |->
                             told[r] + IF r \in Finished(taken) THEN 1 ELSE 0]
              /\ asked' = [r \in WatchedRuns |->
                             asked[r] + IF waiting /\ r \in Asking THEN 1 ELSE 0]
    BY DEF Look
  <1> DEFINE P == (watch.pending \union NoticedRuns
                      \union (IF recent THEN NewlyTriggered ELSE {})) \ unread
             F == Finished(P)
             later == watch.firstRecent /\ ~recent
             seen == [t \in WatchedTasks |->
                         IF t \in ChangedTasks THEN lastRun[t] ELSE watch.seen[t]]
             triggered == IF recent THEN RecentTriggered ELSE watch.triggered
             approvals == IF ~waiting THEN watch.approvals
                          ELSE IF HeldBack THEN watch.approvals \intersect Waiting ELSE Waiting
  <1>3. /\ watch' = [first |-> FALSE, firstRecent |-> later, seen |-> seen,
                     triggered |-> triggered, pending |-> P \ F, approvals |-> approvals]
        /\ told' = [r \in WatchedRuns |-> told[r] + IF r \in F THEN 1 ELSE 0]
    BY <1>2
  <1>4. /\ asked' = [r \in WatchedRuns |-> asked[r] + IF waiting /\ r \in Asking THEN 1 ELSE 0]
        /\ \/ recent /\ waiting /\ unread = {} /\ blind' = blind
           \/ ~(recent /\ waiting /\ unread = {}) /\ blind' = blind + 1 /\ blind < MaxBlindLooks
    BY <1>2
  <1>5. Made' = Made /\ Recent' = Recent /\ RecentTriggered' = RecentTriggered /\ Waiting' = Waiting
    BY <1>1 DEF Made, Recent, RecentTriggered, Waiting
  <1>6. /\ NoticedRuns \subseteq Made
        /\ \A r \in NoticedRuns : r \in WatchedRuns /\ made[r].by \in WatchedTasks
        /\ RecentTriggered \subseteq Made
        /\ NoticedRuns \intersect RecentTriggered = {}
    <2>1. ASSUME NEW r \in NoticedRuns
          PROVE  r \in Made /\ r \in WatchedRuns /\ made[r].by \in WatchedTasks
      <3>1. PICK t \in ChangedTasks : r = lastRun[t] BY DEF NoticedRuns
      <3> QED BY <3>1 DEF ChangedTasks, AnnounceInv, MadeInv
    <2>2. "trigger" \notin WatchedTasks BY AnnouncementAssumption
    <2> QED BY <2>1, <2>2 DEF RecentTriggered, Recent
  <1>7. P \subseteq Made /\ F \subseteq P
    BY <1>6 DEF Finished, NewlyTriggered, AnnounceInv, ToldInv, Known
  <1>8. \A r \in P : told[r] = 0
    <2>1. \A r \in WatchedRuns : told[r] \in {0, 1} BY <1>0 DEF AnnounceInv, ToldInv
    <2>2. \A r \in P : told[r] # 1
      BY <1>0, <1>7 DEF AnnounceInv, ToldInv, Known
    <2> QED BY <1>0, <1>7, <2>1, <2>2
  <1>9. Waiting \subseteq WatchedRuns BY <1>0 DEF Waiting
  <1>10. AnnounceTypeOK'
    <2>1. later \in BOOLEAN OBVIOUS
    <2>2. seen \in [WatchedTasks -> {NoneYet} \union WatchedRuns]
      BY <1>0 DEF Watchers, ChangedTasks
    <2>3. triggered \in SUBSET WatchedRuns BY <1>0, <1>6 DEF Watchers
    <2>4. P \ F \in SUBSET WatchedRuns BY <1>0, <1>7
    <2>5. approvals \in SUBSET WatchedRuns BY <1>0, <1>9 DEF Watchers
    <2> HIDE DEF later, seen, triggered, P, F, approvals
    <2>6. watch' \in Watchers BY <1>3, <2>1, <2>2, <2>3, <2>4, <2>5 DEF Watchers
    <2>7. told' \in [WatchedRuns -> Nat] BY <1>0, <1>3
    <2>8. asked' \in [WatchedRuns -> Nat] BY <1>0, <1>4
    <2>9. blind' \in 0 .. MaxBlindLooks
      <3>1. blind \in 0 .. MaxBlindLooks BY <1>0 DEF AnnounceTypeOK
      <3> QED BY <1>4, <3>1, AnnouncementAssumption
    <2> QED BY <1>0, <1>1, <2>6, <2>7, <2>8, <2>9 DEF AnnounceTypeOK, Watchers
  <1>11. MadeInv' BY <1>1, <1>5 DEF AnnounceInv, MadeInv
  <1>12. ToldInv'
    <2>1. /\ watch'.first = FALSE /\ watch'.firstRecent = later /\ watch'.seen = seen
          /\ watch'.triggered = triggered /\ watch'.pending = P \ F
      BY <1>3
    <2>2. \A r \in WatchedRuns : /\ told'[r] <= 1
                                 /\ told'[r] = 1 <=> r \in F \/ told[r] = 1
      <3>1. \A r \in WatchedRuns : told[r] \in {0, 1} BY <1>0 DEF AnnounceInv, ToldInv
      <3>2. \A r \in WatchedRuns : told'[r] = told[r] + IF r \in F THEN 1 ELSE 0 BY <1>3
      <3> HIDE DEF P, F
      <3> QED BY <1>7, <1>8, <3>1, <3>2
    <2>3. Known' \subseteq P \union Known BY <1>7, <2>1, <2>2 DEF Known
    <2>4. Known' \subseteq Made BY <1>7, <2>3 DEF AnnounceInv, ToldInv
    <2>5. NoticedRuns' = {}
      <3>1. ChangedTasks' = {} BY <1>1, <2>1 DEF ChangedTasks
      <3> QED BY <3>1 DEF NoticedRuns
    <2>6. Known' \intersect NewlyTriggered' = {}
      <3>1. CASE recent
        <4>1. NewlyTriggered' = {} BY <1>5, <2>1, <3>1 DEF NewlyTriggered
        <4> QED BY <4>1
      <3>2. CASE ~recent
        <4>1. NewlyTriggered' = NewlyTriggered BY <1>5, <2>1, <3>2 DEF NewlyTriggered
        <4>2. Known' \subseteq Known \union NoticedRuns BY <2>3, <3>2 DEF Known
        <4> QED BY <1>6, <4>1, <4>2 DEF NewlyTriggered, AnnounceInv, ToldInv
      <3> QED BY <3>1, <3>2
    <2>7. \A r \in WatchedRuns : told'[r] = 1 => r \notin watch'.pending
      BY <1>8, <2>1, <2>2
    <2> QED BY <1>5, <2>2, <2>4, <2>5, <2>6, <2>7 DEF ToldInv
  <1>13. AskedInv'
    <2>1. watch'.first = FALSE /\ watch'.approvals = approvals BY <1>3
    <2>2. ASSUME NEW r \in WatchedRuns
          PROVE  /\ asked'[r] <= 1 + blind'
                 /\ made'[r].state \in {"none", "working"} => asked'[r] = 0
                 /\ r \in Waiting' /\ r \notin approvals => asked'[r] <= blind'
      <3>1. /\ asked[r] <= 1 + blind
            /\ made[r].state \in {"none", "working"} => asked[r] = 0
            /\ r \in Waiting /\ ~watch.first /\ r \notin watch.approvals => asked[r] <= blind
            /\ asked[r] \in Nat
        BY <1>0 DEF AnnounceInv, AskedInv
      <3>2. blind' \in Nat /\ blind' >= blind /\ (~waiting => blind' = blind + 1)
        BY <1>0, <1>4
      <3>3. CASE waiting /\ r \in Asking
        <4>1. asked'[r] = asked[r] + 1 BY <1>4, <3>3
        <4>2. r \in Waiting /\ ~watch.first /\ r \notin watch.approvals /\ ~HeldBack
          BY <3>3 DEF Asking
        <4>3. r \in approvals BY <3>3, <4>2
        <4>4. made[r].state = "parked" BY <4>2 DEF Waiting
        <4> HIDE DEF approvals
        <4> QED BY <1>0, <1>1, <3>1, <3>2, <4>1, <4>2, <4>3, <4>4
      <3>4. CASE ~(waiting /\ r \in Asking)
        <4>1. asked'[r] = asked[r] BY <1>0, <1>4, <3>4
        <4>2. ASSUME r \in Waiting, r \notin approvals PROVE asked[r] <= blind'
          <5>1. CASE ~waiting BY <1>0, <3>1, <3>2, <5>1
          <5>2. CASE waiting
            <6>1. HeldBack /\ r \notin watch.approvals BY <4>2, <5>2
            <6>2. ~watch.first BY <6>1 DEF HeldBack
            <6> QED BY <1>0, <3>1, <3>2, <4>2, <6>1, <6>2
          <5> QED BY <5>1, <5>2
        <4> HIDE DEF approvals
        <4> QED BY <1>0, <1>1, <1>5, <3>1, <3>2, <4>1, <4>2
      <3> QED BY <3>3, <3>4
    <2> QED BY <2>1, <2>2 DEF AskedInv
  <1> QED BY <1>10, <1>11, <1>12, <1>13 DEF AnnounceInv

(* A death forgets the watcher: the next one brings nothing up at first.   *)
LEMMA RebootKeeps ==
    ASSUME AnnounceInv, Reboot
    PROVE  AnnounceInv'
  <1>1. watch' = FreshWatcher /\ UNCHANGED <<lastRun, made, window, blind, told, asked>>
    BY DEF Reboot
  <1>2. /\ watch'.first /\ watch'.firstRecent /\ watch'.pending = {}
        /\ watch'.approvals = {}
    BY <1>1 DEF FreshWatcher
  <1>3. AnnounceTypeOK'
    <2>1. watch' \in Watchers BY <1>1 DEF FreshWatcher, Watchers
    <2>2. reboots' \in 0 .. MaxReboots
      BY AnnouncementAssumption DEF Reboot, AnnounceInv, AnnounceTypeOK
    <2>3. serving' \in BOOLEAN BY Zenon DEF Reboot
    <2> QED BY <1>1, <2>1, <2>2, <2>3 DEF AnnounceInv, AnnounceTypeOK, Watchers
  <1>4. Made' = Made /\ MadeInv' BY <1>1 DEF AnnounceInv, MadeInv, Made
  <1>5. ToldInv'
    <2>1. NoticedRuns' = {} /\ NewlyTriggered' = {} BY <1>2 DEF NoticedRuns, NewlyTriggered
    <2> QED BY <1>1, <1>2, <1>4, <2>1, ToldKeeps DEF AnnounceInv
  <1>6. AskedInv' BY <1>1, <1>2 DEF AnnounceInv, AskedInv
  <1> QED BY <1>3, <1>4, <1>5, <1>6 DEF AnnounceInv

LEMMA AnnounceInvStep ==
    ASSUME AnnounceInv, [AnnounceNext]_announceVars
    PROVE  AnnounceInv'
  <1>0. AnnounceTypeOK /\ made \in [WatchedRuns -> Records]
    BY DEF AnnounceInv, AnnounceTypeOK, Records
  <1>1. ASSUME NEW r \in WatchedRuns, NEW to \in {"parked", "settled"}, RunTurns(r, to)
        PROVE  AnnounceInv'
    <2>1. made' \in [WatchedRuns -> Records]
      BY <1>0, <1>1 DEF RunTurns, Records, GoingOn
    <2>2. AnnounceTypeOK' BY <1>0, <1>1, <2>1 DEF RunTurns, AnnounceTypeOK, Records
    <2>3. \A q \in WatchedRuns :
             /\ made'[q].by = made[q].by
             /\ \/ made'[q].state = made[q].state
                \/ made[q].state = "working" /\ made'[q].state \in {"parked", "settled"}
                \/ made[q].state = "parked" /\ made'[q].state = "settled"
      BY <1>0, <1>1 DEF RunTurns, Records, GoingOn
    <2> QED BY <1>1, <2>2, <2>3, QuietKeeps DEF RunTurns
  <1>2. ASSUME NEW t \in WatchedTasks, RemoveTask(t) PROVE AnnounceInv'
    <2>1. AnnounceTypeOK'
      BY <1>0, <1>2, RunNumbers DEF RemoveTask, AnnounceTypeOK
    <2>2. \A u \in WatchedTasks : lastRun'[u] \in {lastRun[u], Removed}
      BY <1>0, <1>2 DEF RemoveTask, AnnounceTypeOK
    <2> QED BY <1>2, <2>1, <2>2, QuietKeeps DEF RemoveTask
  <1>3. CASE QuietBegins \/ QuietEnds \/ UNCHANGED announceVars
    <2>1. AnnounceTypeOK'
      BY <1>0, <1>3 DEF QuietBegins, QuietEnds, announceVars, AnnounceTypeOK
    <2> QED BY <1>3, <2>1, QuietKeeps DEF QuietBegins, QuietEnds, announceVars
  <1>4. CASE Served
    <2>1. \A r \in WatchedRuns :
             /\ made'[r] \in Records /\ made'[r].by = made[r].by
             /\ made'[r].state = made[r].state
                  \/ (made[r].state = "working" /\ made'[r].state = "settled")
      BY <1>0, <1>4 DEF Served, Records
    <2>2. made' \in [WatchedRuns -> Records] BY <1>4, <2>1 DEF Served
    <2>3. AnnounceTypeOK' BY <1>0, <1>4, <2>2 DEF Served, AnnounceTypeOK, Records
    <2> QED BY <1>4, <2>1, <2>3, QuietKeeps DEF Served
  <1> QED BY <1>1, <1>2, <1>3, <1>4, StartKeeps, LookKeeps, RebootKeeps DEF AnnounceNext

(* Nothing is announced twice, for any number of tasks, runs and deaths,   *)
(* of quiet hours and of looks that could not read everything: the watcher *)
(* remembers what it announced for as long as it could meet it again       *)
(* (ResultWatcher, note_triggered, announce_approvals).                    *)
THEOREM AnnouncedOnce == AnnounceSpec => []ToldOnce
  <1>1. AnnounceInv => ToldOnce BY DEF AnnounceInv, ToldInv, AskedInv, ToldOnce
  <1> QED BY <1>1, AnnounceInvInit, AnnounceInvStep, PTL DEF AnnounceSpec

-----------------------------------------------------------------------------
(* Coding jobs.                                                            *)

Statuses == {"none", "completed", "failed", "cancelled", "interrupted"} \union Unfinished
Places   == {"none", "launch", "queue", "slot", "setup", "agent", "save", "fallback", "gone"}
Jobs     == [status : Statuses, requested : BOOLEAN]
Workers  == [at : Places, result : {"none"} \union Outcomes]

(* How the row, its worker and its agent go together: a row is queued until *)
(* the worker dispatched it, only a running one has started its one agent,  *)
(* and nothing unfinished is marked that ends as if nobody had asked.      *)
InStep(c) ==
    /\ job[c].status = "none" => worker[c].at = "none"
    /\ worker[c].at \in {"launch", "queue", "slot"} => job[c].status = "queued"
    /\ worker[c].at \in {"setup", "agent"} => job[c].status = "running"
    /\ worker[c].at = "save" => worker[c].result \in Outcomes
    /\ job[c].status \in {"none", "queued"} \/ worker[c].at = "setup" => agents[c] = 0
    /\ job[c].requested => job[c].status \notin {"none", "completed", "interrupted"}

(* What a Stop found waiting cannot be created or dispatched any more.     *)
Barred(c) ==
    c \in barred =>
        /\ agents[c] = 0 /\ job[c].status # "running"
        /\ job[c].status = "none" => caller[c] \in halted
        /\ job[c].status = "queued" => job[c].requested

JobsInv == CodingTypeOK /\ \A c \in CodingCalls : InStep(c) /\ Barred(c)

(* The steps that touch one call only.                                     *)
CallStep(c) ==
    \/ CreateTask(c) \/ SpawnTask(c) \/ LaunchLost(c)
    \/ Poll(c) \/ PollFails(c) \/ LeaveQueue(c) \/ TakeSlot(c) \/ Dispatch(c) \/ NotDispatched(c)
    \/ SetupEnds(c) \/ StartAgent(c) \/ AgentStopped(c) \/ AgentEnds(c) \/ Save(c)

LEMMA CodingSteps ==
    ASSUME CodingNext
    PROVE  \/ \E c \in CodingCalls : CallStep(c) \/ StopJob(c)
           \/ \E p \in {caller[c] : c \in CodingCalls} : StopFamily(p) \/ RootSettles(p)
           \/ DaemonRestarts
  BY DEF CodingNext, CallStep, ResumeTask

(* A call's step replaces its own row, worker, signal and agent count.     *)
LEMMA CallTypes ==
    ASSUME JobsInv, NEW c \in CodingCalls, CallStep(c)
    PROVE  /\ CodingTypeOK'
           /\ UNCHANGED <<caller, halted, barred>>
           /\ \A d \in CodingCalls \ {c} :
                 job'[d] = job[d] /\ worker'[d] = worker[d] /\ agents'[d] = agents[d]
           /\ InStep(c)' /\ Barred(c)'
  <1> USE DEF JobsInv, CodingTypeOK, InStep, Barred, Unfinished, Outcomes
  <1>1. CASE CreateTask(c) BY <1>1 DEF CreateTask, MayCreate
  <1>2. CASE SpawnTask(c) BY <1>2 DEF SpawnTask
  <1>m. Mishap => mishaps' \in 0 .. MaxMishaps BY CodingAssumption DEF Mishap
  <1>3. CASE LaunchLost(c)
    <2>1. /\ worker' = [worker EXCEPT ![c].at = "gone"] /\ mishaps' \in 0 .. MaxMishaps
          /\ job[c].status = "queued"
          /\ UNCHANGED <<caller, going, halted, submitted, job, signal, agents, barred, restarts>>
      BY <1>3, <1>m DEF LaunchLost
    <2> QED BY <2>1
  <1>4. CASE Poll(c) BY <1>4 DEF Poll
  <1>5. CASE PollFails(c) BY <1>5, <1>m DEF PollFails
  <1>6. CASE LeaveQueue(c) BY <1>6 DEF LeaveQueue, Returns
  <1>7. CASE TakeSlot(c) BY <1>7 DEF TakeSlot
  <1>8. CASE Dispatch(c)
    <2>1. /\ job' = [job EXCEPT ![c].status = "running"]
          /\ worker' = [worker EXCEPT ![c].at = "setup"]
          /\ UNCHANGED <<caller, going, halted, submitted, signal, agents, barred, mishaps, restarts>>
      BY <1>8 DEF Dispatch
    <2>2. job[c].status = "queued" /\ ~job[c].requested /\ c \notin barred /\ agents[c] = 0
      BY <1>8 DEF Dispatch, MayRun
    <2>3. job' \in [CodingCalls -> Jobs] /\ worker' \in [CodingCalls -> Workers]
      BY <2>1 DEF Jobs, Workers, Statuses, Places
    <2>4. CodingTypeOK' BY <2>1, <2>3 DEF Jobs, Workers, Statuses, Places
    <2> QED BY <2>1, <2>2, <2>4
  <1>9. CASE NotDispatched(c)
    <2>1. PICK result \in Outcomes : Returns(c, result) BY <1>9 DEF NotDispatched
    <2>2. mishaps' \in 0 .. MaxMishaps BY <1>9, <1>m DEF NotDispatched
    <2> QED BY <1>9, <2>1, <2>2 DEF NotDispatched, Returns
  <1>10. CASE SetupEnds(c)
    <2>1. PICK result \in Outcomes : Returns(c, result) BY <1>10 DEF SetupEnds
    <2> QED BY <1>10, <2>1 DEF SetupEnds, Returns
  <1>11. CASE StartAgent(c) BY <1>11 DEF StartAgent
  <1>12. CASE AgentStopped(c) BY <1>12 DEF AgentStopped, Returns
  <1>13. CASE AgentEnds(c) BY <1>13 DEF AgentEnds, Returns
  <1>14. CASE Save(c)
    <2>1. mishaps' \in 0 .. MaxMishaps BY <1>14, <1>m DEF Save
    <2>2. worker[c].at = "save" =>
            /\ SavedAs(c) \in {"completed", "cancelled", "failed"}
            /\ job[c].requested => SavedAs(c) # "completed"
      BY DEF SavedAs
    <2>3. worker[c].at = "save" => job[c].status # "none"
      OBVIOUS
    <2>4. CASE UNCHANGED job /\ worker[c].at = "save"
      BY <1>14, <2>1, <2>4 DEF Save
    <2>5. CASE UNCHANGED job /\ worker[c].at = "fallback"
      <3>1. \/ worker' = [worker EXCEPT ![c].at = "gone"]
            \/ worker' = [worker EXCEPT ![c] = [at |-> "gone", result |-> "none"]]
        BY <1>14, <2>5 DEF Save
      <3>2. UNCHANGED <<caller, going, halted, submitted, signal, agents, barred, restarts>>
        BY <1>14 DEF Save
      <3>3. job[c].status # "none" BY <2>5
      <3> QED BY <2>1, <2>5, <3>1, <3>2, <3>3
    <2>6. CASE job' # job
      <3> DEFINE s == IF worker[c].at = "fallback" THEN "failed" ELSE SavedAs(c)
      <3>s. s \in {"completed", "cancelled", "failed"} /\ (job[c].requested => s # "completed")
        <4>1. CASE worker[c].at = "save" BY <2>2, <4>1
        <4>2. CASE worker[c].at = "fallback" BY <4>2
        <4> QED BY <1>14, <4>1, <4>2 DEF Save
      <3>1. job' = [job EXCEPT ![c].status = s]
        BY <1>14, <2>6 DEF Save
      <3> HIDE DEF s
      <3>2. worker' = [worker EXCEPT ![c] = [at |-> "gone", result |-> "none"]]
        BY <1>14, <2>6 DEF Save
      <3>3. UNCHANGED <<caller, going, halted, submitted, signal, agents, barred, restarts>>
        BY <1>14 DEF Save
      <3> QED BY <2>1, <3>s, <3>1, <3>2, <3>3
    <2> QED BY <1>14, <2>4, <2>5, <2>6 DEF Save
  <1> QED BY <1>1, <1>2, <1>3, <1>4, <1>5, <1>6, <1>7, <1>8, <1>9, <1>10, <1>11, <1>12, <1>13, <1>14
          DEF CallStep

(* A mark goes to unfinished rows only, and changes nothing else.          *)
LEMMA MarkedRows ==
    ASSUME CodingTypeOK, NEW stopped, job' = Marked(stopped)
    PROVE  /\ job' \in [CodingCalls -> Jobs]
           /\ \A c \in CodingCalls :
                 /\ job'[c].status = job[c].status
                 /\ job'[c].requested <=>
                       job[c].requested \/ (c \in stopped /\ job[c].status \in Unfinished)
  <1> DEFINE mark(c) == job[c].requested \/ (c \in stopped /\ job[c].status \in Unfinished)
  <1>1. \A c \in CodingCalls : job[c] \in Jobs
    BY DEF CodingTypeOK, Jobs, Statuses
  <1>2. \A c \in CodingCalls : mark(c) \in BOOLEAN OBVIOUS
  <1>3. job' = [c \in CodingCalls |-> [job[c] EXCEPT !.requested = mark(c)]]
    BY DEF Marked
  <1> HIDE DEF mark
  <1>4. \A c \in CodingCalls : /\ job'[c] = [job[c] EXCEPT !.requested = mark(c)]
                               /\ job'[c] \in Jobs
                               /\ job'[c].status = job[c].status /\ job'[c].requested = mark(c)
    BY <1>1, <1>2, <1>3 DEF Jobs
  <1>5. job' \in [CodingCalls -> Jobs] BY <1>3, <1>4
  <1> QED BY <1>4, <1>5 DEF mark

LEMMA StopKeeps ==
    ASSUME JobsInv,
           \/ \E c \in CodingCalls : StopJob(c)
           \/ \E p \in {caller[c] : c \in CodingCalls} : StopFamily(p)
    PROVE  JobsInv'
  <1> DEFINE waits(c) == job[c].status = "queued" \/ (job[c].status = "none" /\ caller[c] \in halted')
  <1>1. PICK stopped \in SUBSET CodingCalls :
            /\ job' = Marked(stopped)
            /\ \A c \in barred' \ barred : c \in stopped /\ waits(c)
    <2>1. CASE \E c \in CodingCalls : StopJob(c)
      BY <2>1 DEF StopJob
    <2>2. CASE \E p \in {caller[c] : c \in CodingCalls} : StopFamily(p)
      <3>1. PICK p : StopFamily(p) BY <2>2
      <3> QED BY <3>1 DEF StopFamily, Family
    <2> QED BY <2>1, <2>2
  <1>2. /\ UNCHANGED <<caller, going, submitted, worker, agents, mishaps, restarts>>
        /\ halted \subseteq halted' /\ halted' \subseteq CodingRoots
        /\ barred' \subseteq CodingCalls
    BY DEF StopJob, StopFamily, Family, JobsInv, CodingTypeOK
  <1>3. signal' \in [CodingCalls -> BOOLEAN]
    <2>1. CASE UNCHANGED signal BY <2>1 DEF JobsInv, CodingTypeOK
    <2>2. ASSUME NEW c \in CodingCalls, StopJob(c) PROVE signal' \in [CodingCalls -> BOOLEAN]
      <3>1. (signal[c] \/ worker[c].at \in Polling) \in BOOLEAN OBVIOUS
      <3> QED BY <2>2, <3>1, Zenon DEF StopJob, JobsInv, CodingTypeOK
    <2> QED BY <2>1, <2>2 DEF StopFamily
  <1>4. /\ job' \in [CodingCalls -> Jobs]
        /\ \A c \in CodingCalls :
              /\ job'[c].status = job[c].status
              /\ job'[c].requested <=>
                    job[c].requested \/ (c \in stopped /\ job[c].status \in Unfinished)
    BY <1>1, MarkedRows DEF JobsInv
  <1>5. CodingTypeOK' BY <1>2, <1>3, <1>4 DEF JobsInv, CodingTypeOK, Jobs, Statuses
  <1>6. ASSUME NEW c \in CodingCalls PROVE InStep(c)' /\ Barred(c)'
    <2>1. InStep(c)' BY <1>2, <1>4 DEF JobsInv, InStep, Unfinished
    <2>2. CASE c \in barred BY <1>2, <1>4, <2>1, <2>2 DEF JobsInv, Barred
    <2>3. CASE c \in barred' \ barred
      BY <1>1, <1>2, <1>4, <2>3 DEF JobsInv, Barred, InStep, Unfinished
    <2> QED BY <2>1, <2>2, <2>3 DEF Barred
  <1> QED BY <1>5, <1>6 DEF JobsInv

LEMMA RestartKeeps ==
    ASSUME JobsInv, DaemonRestarts
    PROVE  JobsInv'
  <1>1. \A c \in CodingCalls :
          /\ job'[c] \in Jobs /\ job'[c].requested = job[c].requested
          /\ job'[c].status = IF job[c].status \in Unfinished
                                THEN IF job[c].requested THEN "cancelled" ELSE "interrupted"
                                ELSE job[c].status
    <2>1. \A c \in CodingCalls : job[c] \in Jobs
      BY DEF JobsInv, CodingTypeOK, Jobs, Statuses
    <2>2. \A c \in CodingCalls :
            job'[c] = IF job[c].status \in Unfinished
                        THEN [job[c] EXCEPT !.status = IF job[c].requested THEN "cancelled"
                                                       ELSE "interrupted"]
                        ELSE job[c]
      BY DEF DaemonRestarts
    <2> QED BY <2>1, <2>2 DEF Jobs, Statuses, Unfinished
  <1>2. job' \in [CodingCalls -> Jobs] BY <1>1 DEF DaemonRestarts
  <1>3. worker' \in [CodingCalls -> Workers] /\ \A c \in CodingCalls : worker'[c].at = "none"
    BY DEF DaemonRestarts, NoWorker, Workers, Places
  <1>4. signal' \in [CodingCalls -> BOOLEAN] BY DEF DaemonRestarts
  <1>5. restarts' \in 0 .. MaxRestarts /\ mishaps' \in 0 .. MaxMishaps
    BY CodingAssumption DEF DaemonRestarts, JobsInv, CodingTypeOK
  <1>6. CodingTypeOK'
    BY <1>2, <1>3, <1>4, <1>5 DEF DaemonRestarts, JobsInv, CodingTypeOK, Jobs, Workers, Statuses, Places
  <1>7. ASSUME NEW c \in CodingCalls PROVE InStep(c)' /\ Barred(c)'
    BY <1>1, <1>3 DEF DaemonRestarts, JobsInv, InStep, Barred, Unfinished
  <1> QED BY <1>6, <1>7 DEF JobsInv

LEMMA JobsInvStep ==
    ASSUME JobsInv, [CodingNext]_codingVars
    PROVE  JobsInv'
  <1>1. ASSUME NEW c \in CodingCalls, CallStep(c) PROVE JobsInv'
    <2>1. \A d \in CodingCalls \ {c} : InStep(d)' /\ Barred(d)'
      BY <1>1, CallTypes DEF JobsInv, InStep, Barred
    <2> QED BY <1>1, <2>1, CallTypes DEF JobsInv
  <1>2. CASE \E p \in {caller[c] : c \in CodingCalls} : RootSettles(p)
    BY <1>2 DEF RootSettles, JobsInv, CodingTypeOK, InStep, Barred
  <1>3. CASE UNCHANGED codingVars
    BY <1>3 DEF codingVars, JobsInv, CodingTypeOK, InStep, Barred
  <1> QED BY <1>1, <1>2, <1>3, CodingSteps, StopKeeps, RestartKeeps

LEMMA JobsInvInit ==
    ASSUME CodingInit PROVE JobsInv
  BY CodingAssumption DEF CodingInit, JobsInv, CodingTypeOK, InStep, Barred, NoWorker

(* A Stop is final, for any number of calls, runs, failed writes and       *)
(* restarts: what it found waiting starts no agent, and a stopped job ends *)
(* as cancelled or failed (mark_delegated_task_running,                    *)
(* finish_delegated_task, interrupt_delegated_tasks).                      *)
THEOREM StopSound == CodingSpec => []StopIsFinal
  <1>1. JobsInv => StopIsFinal BY DEF JobsInv, InStep, Barred, StopIsFinal
  <1> QED BY <1>1, JobsInvInit, JobsInvStep, PTL DEF CodingSpec

-----------------------------------------------------------------------------
(* The instance.  A behaviour that does not explore the console has none.  *)
FollowingInv ==
    /\ StreamInv /\ AnnounceInv /\ JobsInv
    /\ focus # "stream" => conn = NoConn

LEMMA FollowingSteps ==
    ASSUME FollowingInv, [Next]_allVars
    PROVE  /\ [StreamNext]_streamVars /\ [AnnounceNext]_announceVars
           /\ [CodingNext]_codingVars /\ [LogNext]_logVars
  <1>1. CASE LogOnly /\ LogNext
    <2>1. conn = NoConn /\ conn.at = "idle" BY <1>1 DEF LogOnly, FollowingInv, NoConn
    <2>2. StreamNext
      BY <1>1, <2>1 DEF LogOnly, LogNext, StreamNext, Die, Recover, clientVars
    <2> QED BY <1>1, <2>2 DEF LogOnly
  <1>2. CASE StreamOnly /\ StreamNext BY <1>2, StreamIsLog DEF StreamOnly
  <1>3. CASE AnnounceOnly /\ AnnounceNext BY <1>3 DEF AnnounceOnly, streamVars
  <1>4. CASE CodingOnly /\ CodingNext BY <1>4 DEF CodingOnly, streamVars
  <1>5. CASE UNCHANGED allVars BY <1>5 DEF allVars, streamVars
  <1> QED BY <1>1, <1>2, <1>3, <1>4, <1>5 DEF Next

LEMMA FollowingInvHolds == Spec => []FollowingInv
  <1>1. Init => FollowingInv
    BY StreamInvInit, AnnounceInvInit, JobsInvInit DEF Init, StreamInit, FollowingInv
  <1>2. ASSUME FollowingInv, [Next]_allVars PROVE FollowingInv'
    <2>1. StreamInv' /\ AnnounceInv' /\ JobsInv'
      BY <1>2, FollowingSteps, StreamInvStep, AnnounceInvStep, JobsInvStep DEF FollowingInv
    <2>2. focus' # "stream" => conn' = NoConn
      BY <1>2 DEF FollowingInv, Next, LogOnly, StreamOnly, AnnounceOnly, CodingOnly, allVars,
                  streamVars, clientVars
    <2> QED BY <2>1, <2>2 DEF FollowingInv
  <1> QED BY <1>1, <1>2, PTL DEF Spec

(* Every behaviour of the instance is one of each part, so what holds of   *)
(* the parts holds of it: the log, its drivers, the stream, the client,    *)
(* the watcher and the jobs keep their types and bounds, and no job starts *)
(* a second agent.                                                         *)
THEOREM FollowingTypes == Spec => []FollowingTypeOK
  <1>1. FollowingInv => FollowingTypeOK
    BY StreamInvTypes DEF FollowingInv, AnnounceInv, JobsInv, FollowingTypeOK
  <1> QED BY <1>1, FollowingInvHolds, PTL

(* The instance has every safety property of its parts although its        *)
(* fairness is not theirs (a behaviour explores one part): none of the     *)
(* theorems above needs a loop, a stream or a worker to go on.             *)
THEOREM FollowingIsSafe ==
    Spec => /\ [](/\ SettledIsInTheLog /\ DoneSawTheEnd /\ ShownWithoutGap
                  /\ ToldOnce /\ StopIsFinal)
            /\ StreamExplainsMoves
  <1>1. FollowingInv => /\ SettledIsInTheLog /\ DoneSawTheEnd /\ ShownWithoutGap
                        /\ ToldOnce /\ StopIsFinal
    <2> SUFFICES ASSUME FollowingInv
                 PROVE  /\ SettledIsInTheLog /\ DoneSawTheEnd /\ ShownWithoutGap
                        /\ ToldOnce /\ StopIsFinal
      OBVIOUS
    <2>1. SettledIsInTheLog /\ DoneSawTheEnd
      BY DEF FollowingInv, StreamInv, LogInv, RunInv, ConnInv
    <2>2. ShownWithoutGap BY ShownIsEnough DEF FollowingInv, StreamInv
    <2>3. ToldOnce BY DEF FollowingInv, AnnounceInv, ToldInv, AskedInv, ToldOnce
    <2>4. StopIsFinal BY DEF FollowingInv, JobsInv, InStep, Barred, StopIsFinal
    <2> QED BY <2>1, <2>2, <2>3, <2>4
  <1>2. FollowingInv /\ [Next]_allVars =>
           [row' # row \/ since' # since =>
               \E i \in (since + 1) .. Len(log') :
                  log'[i] = IF row' = "settled" THEN "terminal" ELSE row']_logVars
    <2> SUFFICES ASSUME FollowingInv, [Next]_allVars, row' # row \/ since' # since
                 PROVE  \E i \in (since + 1) .. Len(log') :
                           log'[i] = IF row' = "settled" THEN "terminal" ELSE row'
      OBVIOUS
    <2>1. RunInv /\ RowStep
      BY FollowingSteps, LogInvStep DEF FollowingInv, StreamInv, LogInv
    <2> QED BY <2>1, Explained
  <1> QED BY <1>1, <1>2, FollowingInvHolds, PTL DEF Spec, StreamExplainsMoves
=============================================================================

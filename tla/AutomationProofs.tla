-------------------------- MODULE AutomationProofs --------------------------
(***************************************************************************)
(* Proofs about the chat and the sign-in: Telegram for any number of       *)
(* updates, cards, slips and deaths, and OAuthAccount for any apps and any *)
(* number of the owner's acts, tokens, failed writes and restarts; and the *)
(* types of all five services together, as MCAutomation runs them.         *)
(***************************************************************************)
EXTENDS MCAutomation, SchedulesProofs, TriggersProofs

(* An update of the chat, the state of the bridge, and its steps under a   *)
(* tap in hand.                                                            *)
Updates == [what : {"message"} \union Taps, card : 0 .. MaxCards]
Bridges == [at : {"poll", "truncate", "write", "handle", "decide", "answer", "edit"},
            offset : 0 .. (MaxUpdates + 1), last : 0 .. MaxUpdates, done : BOOLEAN]
TapSteps  == {"decide", "answer", "edit"}

(* The bridge: where it is in the service's updates.                       *)
BridgeTypes ==
    /\ running \in BOOLEAN /\ kills \in 0 .. MaxKills
    /\ slips \in 0 .. MaxSlips /\ badWrites \in Nat /\ badWrites <= slips + kills
    /\ updates \in Seq(Updates) /\ Len(updates) <= MaxUpdates
    /\ confirmed \in 1 .. (MaxUpdates + 1) /\ offsetFile \in 0 .. (MaxUpdates + 1)
    /\ bridge \in Bridges /\ bridge.last <= Len(updates)
    /\ bridge.at = "truncate" => 1 <= bridge.offset /\ bridge.offset <= bridge.last
    /\ bridge.at \in {"write", "handle"} \union TapSteps =>
          2 <= bridge.offset /\ bridge.offset <= bridge.last + 1

(* How often an update was handled, by where the bridge is: what is at or  *)
(* past the offset was handled only after a failed write, and so was what  *)
(* a restart would ask the service for, except while the offset is being   *)
(* written; the update in hand is behind the written offset.               *)
FreshAt(u) ==
    /\ handled[u] <= 1 + badWrites
    /\ running /\ bridge.at = "poll" /\ u >= bridge.offset /\ u >= confirmed =>
          handled[u] <= badWrites
    /\ running /\ bridge.at \in {"truncate"} \union TapSteps /\ u >= bridge.offset =>
          handled[u] <= badWrites
    /\ running /\ bridge.at \in {"write", "handle"} /\ u + 1 >= bridge.offset =>
          handled[u] <= badWrites
    /\ ~(running /\ bridge.at = "write") /\ u >= offsetFile /\ u >= confirmed =>
          handled[u] <= badWrites
    /\ running /\ bridge.at = "handle" /\ u + 1 = bridge.offset =>
          offsetFile = bridge.offset \/ handled[u] + 1 <= badWrites

(* How often each update was handled so far.                               *)
HandledInv == handled \in [Ids -> Nat] /\ \A u \in Ids : FreshAt(u)

(* The approval, the watcher's state, and the question put or answered.    *)
Approvals == {"none", "pending", "approved", "released", "denied", "lapsed"}
Watchers  == [at : {"read", "send", "gone", "edit"}, first : BOOLEAN,
              sent : 0 .. NotSent, live : BOOLEAN, card : 0 .. MaxCards]
Asked     == approval # "none"
Settled   == approval \notin {"none", "pending"}

(* The watcher: it has sent at most one card and one more for each slip,   *)
(* and retires a card only when the question is answered.                  *)
WatcherInv ==
    /\ approval \in Approvals /\ tapped \in BOOLEAN /\ watcher \in Watchers
    /\ cards \in Seq(CardTexts) /\ Len(cards) <= 1 + slips
    /\ watcher.sent \in {Silent, NotSent} \union 1 .. Len(cards)
    /\ watcher.at = "send" =>
          Asked /\ watcher.live /\ watcher.sent = NotSent /\ ~watcher.first /\ Len(cards) <= slips
    /\ ~watcher.first /\ watcher.sent = NotSent /\ ~Settled => Len(cards) <= slips
    /\ watcher.at = "gone" /\ ~watcher.live /\ watcher.sent # NotSent => Settled
    /\ watcher.at = "edit" => Settled /\ watcher.card \in 1 .. Len(cards)
    /\ watcher.sent # NotSent => Asked
    /\ Len(cards) > 0 => Asked

(* A tap is on a card that was sent; one in hand that decided the approval *)
(* finds it as it left it.                                                 *)
TapInv ==
    /\ \A i \in 1 .. Len(updates) : updates[i].what \in Taps => updates[i].card \in 1 .. Len(cards)
    /\ bridge.at \in TapSteps => Current.what \in Taps
    /\ bridge.done =>
          /\ bridge.at \in {"answer", "edit"}
          /\ Current.what = "approve" => approval \in {"approved", "released"}
          /\ Current.what = "deny" => approval = "denied"
    /\ bridge.at \in {"answer", "edit"} /\ ~bridge.done => Settled \/ slips > 0
    /\ tapped => Len(cards) > 0

(* While nothing died or failed: once a card was tapped, the tap is in     *)
(* hand or the buttons are gone.                                           *)
KeeperInv ==
    kills = 0 /\ slips = 0 =>
        /\ running
        /\ Len(cards) > 0 => ~watcher.first
        /\ tapped => bridge.at \in TapSteps \/ \A c \in 1 .. Len(cards) : cards[c] # "buttons"

LEMMA BridgeTypesStep ==
    ASSUME BridgeTypes, [TelegramNext]_telegramVars
    PROVE  BridgeTypes'
  <1> USE TelegramAssumption DEF BridgeTypes
  <1>1. ASSUME NEW what \in {"message"} \union Taps, NEW card \in 0 .. MaxCards, OwnerSends(what, card)
        PROVE  BridgeTypes'
    <2>1. updates' = Append(updates, [what |-> what, card |-> card]) /\ Len(updates) < MaxUpdates
      BY <1>1 DEF OwnerSends
    <2>2. [what |-> what, card |-> card] \in Updates BY DEF Updates
    <2>3. updates' \in Seq(Updates) /\ Len(updates') = Len(updates) + 1 BY <2>1, <2>2
    <2>4. Len(updates) \in Nat /\ bridge.last \in Nat BY DEF Bridges
    <2> QED BY <1>1, <2>1, <2>3, <2>4 DEF OwnerSends, processVars
  <1>2. CASE Poll
    <2>1. UNCHANGED <<running, kills, slips, badWrites, updates, offsetFile>> /\ Len(updates) \in Nat
      BY <1>2 DEF Poll, processVars
    <2>0. bridge.offset \in 0 .. (MaxUpdates + 1) BY DEF Bridges
    <2>2. /\ confirmed' \in 1 .. (MaxUpdates + 1)
          /\ confirmed' <= Len(updates)
      <3>1. CASE bridge.offset > confirmed BY <1>2, <2>0, <2>1, <3>1 DEF Poll
      <3>2. CASE ~(bridge.offset > confirmed) BY <1>2, <2>0, <2>1, <3>2 DEF Poll
      <3> QED BY <3>1, <3>2
    <2>3. bridge' = [bridge EXCEPT !.at = "truncate", !.last = Len(updates), !.offset = confirmed']
      BY <1>2 DEF Poll
    <2>4. Len(updates) \in 0 .. MaxUpdates BY <2>1
    <2>d. confirmed' \in 0 .. (MaxUpdates + 1) BY <2>2
    <2>e. ASSUME NEW c \in 0 .. (MaxUpdates + 1), NEW n \in 0 .. MaxUpdates
          PROVE  LET b == [bridge EXCEPT !.at = "truncate", !.last = n, !.offset = c]
                 IN  b \in Bridges /\ b.at = "truncate" /\ b.last = n /\ b.offset = c
      BY DEF Bridges
    <2>5. /\ bridge' \in Bridges /\ bridge'.at = "truncate" /\ bridge'.last = Len(updates)
          /\ bridge'.offset = confirmed'
      BY <2>d, <2>e, <2>3, <2>4
    <2> QED BY <2>1, <2>2, <2>5 DEF TapSteps
  <1>3. CASE TruncateOffset
    <2>1. /\ UNCHANGED <<running, kills, updates, confirmed>>
          /\ offsetFile' \in {Empty, offsetFile}
          /\ \E to \in {"write", "handle"} : bridge' = [bridge EXCEPT !.at = to, !.offset = @ + 1]
      BY <1>3 DEF TruncateOffset, processVars, serviceVars
    <2>2. \/ UNCHANGED <<slips, badWrites>>
          \/ slips < MaxSlips /\ slips' = slips + 1 /\ badWrites' = badWrites + 1
      BY <1>3 DEF TruncateOffset, Slip
    <2>3. slips' \in 0 .. MaxSlips /\ badWrites' \in Nat /\ badWrites' <= slips' + kills'
      BY <2>1, <2>2
    <2>4. bridge.at = "truncate" BY <1>3 DEF TruncateOffset
    <2>a. bridge.offset \in Nat /\ bridge.last \in 0 .. MaxUpdates BY DEF Bridges
    <2>b. bridge.offset + 1 \in 0 .. (MaxUpdates + 1)
          /\ 1 <= bridge.offset /\ bridge.offset <= bridge.last
      BY <2>4, <2>a
    <2>c. PICK to \in {"write", "handle"} : bridge' = [bridge EXCEPT !.at = to, !.offset = @ + 1]
      BY <2>1
    <2>5. /\ bridge' \in Bridges /\ bridge'.at = to /\ bridge'.last = bridge.last
          /\ bridge'.offset = bridge.offset + 1
      BY <2>b, <2>c DEF Bridges
    <2>6. offsetFile' \in 0 .. (MaxUpdates + 1) BY <2>1 DEF Empty
    <2>7. bridge'.at # "truncate" BY <2>5
    <2>8. 2 <= bridge'.offset /\ bridge'.offset <= bridge'.last + 1 BY <2>a, <2>b, <2>5
    <2>9. bridge'.last <= Len(updates') BY <2>1, <2>5
    <2> QED BY <2>1, <2>3, <2>5, <2>6, <2>7, <2>8, <2>9
  <1>4. CASE WriteOffset
    <2>1. /\ UNCHANGED <<running, kills, updates, confirmed>>
          /\ offsetFile' \in {bridge.offset, offsetFile}
          /\ bridge' = [bridge EXCEPT !.at = "handle"] /\ bridge.at = "write"
      BY <1>4 DEF WriteOffset, processVars, serviceVars
    <2>2. \/ UNCHANGED <<slips, badWrites>>
          \/ slips < MaxSlips /\ slips' = slips + 1 /\ badWrites' = badWrites + 1
      BY <1>4 DEF WriteOffset, Slip
    <2>3. slips' \in 0 .. MaxSlips /\ badWrites' \in Nat /\ badWrites' <= slips' + kills'
      BY <2>1, <2>2
    <2>4. bridge' \in Bridges /\ bridge'.at = "handle" /\ bridge'.last = bridge.last
          /\ bridge'.offset = bridge.offset
      BY <2>1 DEF Bridges
    <2>5. bridge.offset \in 0 .. (MaxUpdates + 1) BY DEF Bridges
    <2> QED BY <2>1, <2>3, <2>4, <2>5
  <1>5. NextUpdate \in Bridges /\ NextUpdate.last = bridge.last /\ NextUpdate.offset = bridge.offset
        /\ NextUpdate.at = IF bridge.offset <= bridge.last THEN "truncate" ELSE "poll"
    <2> DEFINE to == IF bridge.offset <= bridge.last THEN "truncate" ELSE "poll"
    <2>1. NextUpdate = [bridge EXCEPT !.done = FALSE, !.at = to] BY DEF NextUpdate
    <2>2. to \in {"truncate", "poll"} OBVIOUS
    <2> HIDE DEF to
    <2>3. NextUpdate \in Bridges /\ NextUpdate.last = bridge.last /\ NextUpdate.offset = bridge.offset
          /\ NextUpdate.at = to
      BY <2>1, <2>2 DEF Bridges
    <2> QED BY <2>3 DEF to
  <1>6. ASSUME UNCHANGED <<running, kills, badWrites, updates, confirmed, offsetFile>>,
               bridge.at \in {"handle"} \union TapSteps,
               bridge' = NextUpdate \/ \E to \in TapSteps, b \in BOOLEAN :
                                         bridge' = [bridge EXCEPT !.at = to, !.done = b],
               slips' = slips \/ Slip
        PROVE  BridgeTypes'
    <2>1. /\ slips' \in 0 .. MaxSlips
          /\ badWrites' <= slips' + kills'
      <3>1. CASE slips' = slips BY <1>6, <3>1
      <3>2. CASE Slip
        <4>1. slips < MaxSlips /\ slips' = slips + 1 BY <3>2 DEF Slip
        <4>2. badWrites' = badWrites /\ kills' = kills BY <1>6
        <4> QED BY <4>1, <4>2
      <3> QED BY <1>6, <3>1, <3>2
    <2>2. CASE bridge' = NextUpdate
      BY <1>5, <1>6, <2>1, <2>2 DEF Bridges, TapSteps
    <2>3. ASSUME NEW to \in TapSteps, NEW b \in BOOLEAN, bridge' = [bridge EXCEPT !.at = to, !.done = b]
          PROVE  BridgeTypes'
      <3>1. bridge' \in Bridges /\ bridge'.at = to /\ bridge'.last = bridge.last
            /\ bridge'.offset = bridge.offset
        BY <2>3 DEF Bridges, TapSteps
      <3> QED BY <1>6, <2>1, <3>1 DEF TapSteps
    <2> QED BY <1>6, <2>2, <2>3
  <1>7. CASE HandleUpdate
    <2>1. bridge' = NextUpdate \/ bridge' = [bridge EXCEPT !.at = "decide"] BY <1>7 DEF HandleUpdate
    <2>2. [bridge EXCEPT !.at = "decide"] = [bridge EXCEPT !.at = "decide", !.done = bridge.done]
          /\ bridge.done \in BOOLEAN
      BY DEF Bridges
    <2> QED BY <1>6, <1>7, <2>1, <2>2 DEF HandleUpdate, processVars, serviceVars, TapSteps
  <1>8. CASE DecideTap
    <2>1. bridge' = [bridge EXCEPT !.at = "answer"] \/ bridge' = [bridge EXCEPT !.at = "answer", !.done = TRUE]
      BY <1>8 DEF DecideTap
    <2>2. [bridge EXCEPT !.at = "answer"] = [bridge EXCEPT !.at = "answer", !.done = bridge.done]
          /\ bridge.done \in BOOLEAN
      BY DEF Bridges
    <2> QED BY <1>6, <1>8, <2>1, <2>2 DEF DecideTap, processVars, serviceVars, TapSteps
  <1>9. CASE AnswerTap
    <2>1. [bridge EXCEPT !.at = "edit"] = [bridge EXCEPT !.at = "edit", !.done = bridge.done]
          /\ bridge.done \in BOOLEAN
      BY DEF Bridges
    <2> QED BY <1>6, <1>9, <2>1 DEF AnswerTap, processVars, serviceVars, TapSteps
  <1>10. CASE EditTap BY <1>6, <1>10 DEF EditTap, processVars, serviceVars, TapSteps
  <1>11. CASE BridgeDies
    <2>1. IdleBridge \in Bridges /\ IdleBridge.at = "poll" /\ IdleBridge.last = 0
      BY DEF IdleBridge, Bridges, Empty
    <2>2. running' \in BOOLEAN BY <1>11, Zenon DEF BridgeDies
    <2>3. kills' \in 0 .. MaxKills /\ badWrites' \in Nat /\ badWrites' <= slips' + kills'
      BY <1>11 DEF BridgeDies
    <2> QED BY <1>11, <2>1, <2>2, <2>3 DEF BridgeDies, serviceVars, TapSteps
  <1>12. CASE BridgeStarts
    <2>1. bridge' = [at |-> "poll", offset |-> offsetFile, last |-> 0, done |-> FALSE]
      BY <1>12 DEF BridgeStarts, IdleBridge
    <2>2. bridge' \in Bridges /\ bridge'.at = "poll" /\ bridge'.last = 0
      BY <2>1 DEF Bridges
    <2>3. running' \in BOOLEAN BY <1>12, Zenon DEF BridgeStarts
    <2> QED BY <1>12, <2>2, <2>3 DEF BridgeStarts, serviceVars, TapSteps
  <1>15. CASE ServeEnds
    <2>1. bridge' = [at |-> "poll", offset |-> offsetFile, last |-> 0, done |-> FALSE]
      BY <1>15 DEF ServeEnds, IdleBridge
    <2>2. bridge' \in Bridges /\ bridge'.at = "poll" /\ bridge'.last = 0
      BY <2>1 DEF Bridges
    <2>3. slips' \in 0 .. MaxSlips /\ slips' = slips + 1 BY <1>15 DEF ServeEnds, Slip
    <2>4. badWrites' \in Nat /\ badWrites' <= slips' + kills'
      BY <1>15, <2>3 DEF ServeEnds, processVars
    <2> QED BY <1>15, <2>2, <2>3, <2>4 DEF ServeEnds, processVars, serviceVars, TapSteps
  <1>13. CASE /\ UNCHANGED <<running, kills, badWrites, updates, confirmed, offsetFile, bridge>>
              /\ slips' = slips \/ Slip
    BY <1>13 DEF Slip
  <1>14. CASE WatcherStep \/ UNCHANGED telegramVars
              \/ \E from, to \in {"none", "pending", "approved", "lapsed", "released"} : ApprovalMoves(from, to)
    BY <1>13, <1>14 DEF WatcherStep, WatchRead, WatchSend, WatchGone, WatchEdit, ApprovalMoves,
         telegramVars, processVars, serviceVars
  <1> QED BY <1>1, <1>2, <1>3, <1>4, <1>7, <1>8, <1>9, <1>10, <1>11, <1>12, <1>14, <1>15
          DEF TelegramNext, BridgeStep

LEMMA HandledStep ==
    ASSUME BridgeTypes, HandledInv, [TelegramNext]_telegramVars
    PROVE  HandledInv'
  <1>1. ASSUME UNCHANGED <<running, badWrites, confirmed, offsetFile, bridge, handled>>
        PROVE  HandledInv'
    BY <1>1 DEF HandledInv, FreshAt
  <1>2. CASE WatcherStep \/ UNCHANGED telegramVars
              \/ (\E from, to \in {"none", "pending", "approved", "lapsed", "released"} : ApprovalMoves(from, to))
              \/ (\E what \in {"message"} \union Taps, card \in 0 .. MaxCards : OwnerSends(what, card))
    BY <1>1, <1>2 DEF WatcherStep, WatchRead, WatchSend, WatchGone, WatchEdit, ApprovalMoves, OwnerSends,
         telegramVars, processVars, serviceVars
  <1> DEFINE T(u) == /\ u \in Nat /\ handled[u] \in Nat /\ badWrites \in Nat /\ confirmed \in Nat
                     /\ offsetFile \in Nat /\ bridge.offset \in Nat /\ FreshAt(u)
  <1>3. ASSUME NEW u \in Ids PROVE T(u)
    BY DEF BridgeTypes, HandledInv, Ids, Bridges
  <1>4. handled \in [Ids -> Nat] BY DEF HandledInv
  <1>5. bridge = [at |-> bridge.at, offset |-> bridge.offset, last |-> bridge.last, done |-> bridge.done]
    BY DEF BridgeTypes, Bridges
  <1>6. ASSUME NEW to, NEW n, NEW m, NEW d
        PROVE  LET b == [at |-> to, offset |-> n, last |-> m, done |-> d]
               IN  b.at = to /\ b.offset = n
    OBVIOUS
  <1>7. CASE Poll
    <2>1. UNCHANGED <<running, badWrites, offsetFile, handled>> /\ bridge.at = "poll" /\ running
      BY <1>7 DEF Poll, processVars
    <2>2. bridge'.at = "truncate" /\ bridge'.offset = confirmed'
      BY <1>7, <1>5 DEF Poll
    <2>3. confirmed' \in Nat /\ confirmed' >= confirmed /\ confirmed' >= bridge.offset
      <3>1. confirmed \in Nat /\ bridge.offset \in Nat BY DEF BridgeTypes, Bridges
      <3> QED BY <1>7, <3>1 DEF Poll
    <2>4. ASSUME NEW u \in Ids PROVE FreshAt(u)'
      BY <1>3, <2>1, <2>2, <2>3 DEF FreshAt, TapSteps
    <2> QED BY <1>4, <2>1, <2>4 DEF HandledInv
  <1>8. CASE TruncateOffset
    <2>1. UNCHANGED <<running, confirmed, handled>> /\ bridge.at = "truncate" /\ running
      BY <1>8 DEF TruncateOffset, processVars, serviceVars
    <2>2. bridge'.offset = bridge.offset + 1
          BY <1>8, <1>5 DEF TruncateOffset
    <2>3. \/ bridge'.at = "write" /\ UNCHANGED badWrites
          \/ bridge'.at = "handle" /\ badWrites' = badWrites + 1 /\ offsetFile' = offsetFile
      BY <1>8, <1>5 DEF TruncateOffset
    <2>4. ASSUME NEW u \in Ids PROVE FreshAt(u)'
      BY <1>3, <2>1, <2>2, <2>3, <2>4 DEF FreshAt, TapSteps
    <2> QED BY <1>4, <2>1, <2>4 DEF HandledInv
  <1>9. CASE WriteOffset
    <2>1. UNCHANGED <<running, confirmed, handled>> /\ bridge.at = "write" /\ running
      BY <1>9 DEF WriteOffset, processVars, serviceVars
    <2>2. bridge'.offset = bridge.offset /\ bridge'.at = "handle"
          BY <1>9, <1>5 DEF WriteOffset
    <2>3. \/ offsetFile' = bridge.offset /\ UNCHANGED badWrites
          \/ badWrites' = badWrites + 1 /\ offsetFile' = offsetFile
      BY <1>9 DEF WriteOffset
    <2>4. ASSUME NEW u \in Ids PROVE FreshAt(u)'
      BY <1>3, <2>1, <2>2, <2>3, <2>4 DEF FreshAt, TapSteps
    <2> QED BY <1>4, <2>1, <2>4 DEF HandledInv
  <1>10. NextUpdate.offset = bridge.offset /\ NextUpdate.at \in {"truncate", "poll"}
    BY <1>5 DEF NextUpdate
  <1>11. CASE HandleUpdate
    <2>1. UNCHANGED <<running, badWrites, confirmed, offsetFile>> /\ bridge.at = "handle" /\ running
          /\ handled' = [handled EXCEPT ![bridge.offset - 1] = @ + 1]
      BY <1>11 DEF HandleUpdate, processVars, serviceVars
    <2>2. bridge'.offset = bridge.offset /\ bridge'.at \in {"truncate", "poll", "decide"}
      BY <1>11, <1>5, <1>10 DEF HandleUpdate
    <2>3. ASSUME NEW u \in Ids PROVE FreshAt(u)'
      <3>1. CASE u + 1 = bridge.offset
        <4>1. handled'[u] = handled[u] + 1 BY <1>3, <1>4, <2>1, <3>1
        <4>2. handled[u] <= badWrites /\ (offsetFile = bridge.offset \/ handled[u] + 1 <= badWrites)
          BY <1>3, <2>1, <3>1 DEF FreshAt
        <4> QED BY <1>3, <2>1, <2>2, <3>1, <4>1, <4>2 DEF FreshAt, TapSteps
      <3>2. CASE u + 1 # bridge.offset
        <4>1. handled'[u] = handled[u] BY <1>3, <1>4, <2>1, <3>2
        <4> QED BY <1>3, <2>1, <2>2, <3>2, <4>1 DEF FreshAt, TapSteps
      <3> QED BY <3>1, <3>2
    <2>4. handled' \in [Ids -> Nat]
      <3>1. bridge.offset \in Nat /\ bridge.last \in 0 .. MaxUpdates
            /\ 2 <= bridge.offset /\ bridge.offset <= bridge.last + 1 /\ MaxUpdates \in Nat
        BY <2>1, TelegramAssumption DEF BridgeTypes, Bridges
      <3>2. bridge.offset - 1 \in Ids BY <3>1 DEF Ids
      <3> QED BY <1>4, <2>1, <3>2
    <2> QED BY <2>3, <2>4 DEF HandledInv
  <1>12. CASE DecideTap \/ AnswerTap \/ EditTap
    <2>1. UNCHANGED <<running, badWrites, confirmed, offsetFile, handled>> /\ bridge.at \in TapSteps /\ running
      BY <1>12 DEF DecideTap, AnswerTap, EditTap, TapSteps, processVars, serviceVars
    <2>2. bridge'.offset = bridge.offset /\ bridge'.at \in {"truncate", "poll"} \union TapSteps
      BY <1>12, <1>5, <1>10 DEF DecideTap, AnswerTap, EditTap, TapSteps
    <2>3. ASSUME NEW u \in Ids PROVE FreshAt(u)'
      BY <1>3, <2>1, <2>2 DEF FreshAt, TapSteps
    <2> QED BY <1>4, <2>1, <2>3 DEF HandledInv
  <1>13. CASE BridgeDies
    <2>1. /\ UNCHANGED <<confirmed, offsetFile, handled>> /\ running' = FALSE /\ running
          /\ badWrites' = IF bridge.at = "write" THEN badWrites + 1 ELSE badWrites
      BY <1>13 DEF BridgeDies, serviceVars
    <2>2. ASSUME NEW u \in Ids PROVE FreshAt(u)'
      BY <1>3, <2>1 DEF FreshAt
    <2> QED BY <1>4, <2>1, <2>2 DEF HandledInv
  <1>14. CASE BridgeStarts
    <2>1. /\ UNCHANGED <<badWrites, confirmed, offsetFile, handled>> /\ running' = TRUE /\ ~running
          /\ bridge' = [at |-> "poll", offset |-> offsetFile, last |-> 0, done |-> FALSE]
      BY <1>14 DEF BridgeStarts, serviceVars, IdleBridge
    <2>2. bridge'.at = "poll" /\ bridge'.offset = offsetFile BY <2>1
    <2>3. ASSUME NEW u \in Ids PROVE FreshAt(u)'
      BY <1>3, <2>1, <2>2 DEF FreshAt, TapSteps
    <2> QED BY <1>4, <2>1, <2>3 DEF HandledInv
  <1>15. CASE ServeEnds
    <2>1. /\ UNCHANGED <<running, badWrites, confirmed, offsetFile, handled>>
          /\ running /\ bridge.at = "poll"
          /\ bridge' = [at |-> "poll", offset |-> offsetFile, last |-> 0, done |-> FALSE]
      BY <1>15 DEF ServeEnds, processVars, serviceVars, IdleBridge
    <2>2. bridge'.at = "poll" /\ bridge'.offset = offsetFile BY <2>1
    <2>3. ASSUME NEW u \in Ids PROVE FreshAt(u)'
      BY <1>3, <2>1, <2>2 DEF FreshAt, TapSteps
    <2> QED BY <1>4, <2>1, <2>3 DEF HandledInv
  <1> QED BY <1>2, <1>7, <1>8, <1>9, <1>11, <1>12, <1>13, <1>14, <1>15 DEF TelegramNext, BridgeStep

(* Where the watcher is, and how many cards went out: at most one more     *)
(* than calls failed.                                                      *)
LEMMA WatcherStepKeeps ==
    ASSUME BridgeTypes, WatcherInv, TapInv, [TelegramNext]_telegramVars
    PROVE  WatcherInv'
  <1> USE TelegramAssumption
  <1>1. /\ slips \in Nat /\ slips <= MaxSlips /\ Len(cards) \in Nat
        /\ cards \in Seq(CardTexts) /\ NotSent = MaxSlips + 2 /\ MaxCards = MaxSlips + 1
        /\ MaxSlips \in Nat /\ Silent = 0
    BY DEF BridgeTypes, WatcherInv, NotSent, MaxCards, Silent
  <1>2. watcher = [at |-> watcher.at, first |-> watcher.first, sent |-> watcher.sent,
                   live |-> watcher.live, card |-> watcher.card]
        /\ watcher.first \in BOOLEAN /\ watcher.live \in BOOLEAN
        /\ watcher.at \in {"read", "send", "gone", "edit"}
        /\ watcher.sent \in 0 .. NotSent /\ watcher.card \in 0 .. MaxCards
    BY DEF WatcherInv, Watchers
  (* what the bridge, the owner and a death leave of the watcher *)
  <1>3. ASSUME UNCHANGED <<watcher, approval>>, tapped' \in BOOLEAN, cards' \in Seq(CardTexts),
               Len(cards') = Len(cards), slips' \in Nat, slips' >= slips
        PROVE  WatcherInv'
    BY <1>1, <1>2, <1>3 DEF WatcherInv, Asked, Settled
  <1>4. CASE (\E what \in {"message"} \union Taps, card \in 0 .. MaxCards : OwnerSends(what, card))
              \/ Poll \/ TruncateOffset \/ WriteOffset \/ HandleUpdate \/ AnswerTap \/ BridgeStarts
              \/ UNCHANGED telegramVars
    <2>1. UNCHANGED <<watcher, approval, cards>>
      BY <1>4 DEF OwnerSends, Poll, TruncateOffset, WriteOffset, HandleUpdate, AnswerTap, BridgeStarts,
           telegramVars
    <2>2. tapped' \in BOOLEAN
      BY <1>4, Zenon DEF OwnerSends, Poll, TruncateOffset, WriteOffset, HandleUpdate, AnswerTap, BridgeStarts,
           telegramVars, WatcherInv
    <2>0. slips' = slips \/ Slip
      BY <1>4 DEF OwnerSends, Poll, TruncateOffset, WriteOffset, HandleUpdate, AnswerTap, BridgeStarts,
           telegramVars
    <2>3. slips' \in Nat /\ slips' >= slips BY <1>1, <2>0 DEF Slip
    <2> QED BY <1>1, <1>3, <2>1, <2>2, <2>3
  <1>5. CASE EditTap
    <2>1. UNCHANGED <<watcher, approval, tapped>> /\ bridge.at = "edit" BY <1>5 DEF EditTap
    <2>2. slips' \in Nat /\ slips' >= slips BY <1>1, <1>5 DEF EditTap, Slip
    <2>3. TapWords \in CardTexts BY DEF TapWords, CardTexts
    <2>4. cards' \in Seq(CardTexts) /\ Len(cards') = Len(cards)
      BY <1>1, <1>5, <2>3 DEF EditTap
    <2>5. tapped' \in BOOLEAN BY <2>1 DEF WatcherInv
    <2> QED BY <1>3, <2>1, <2>2, <2>4, <2>5
  <1>6. ASSUME UNCHANGED <<watcher, cards, tapped>>, slips' \in Nat, slips' >= slips,
               approval' \in Approvals, Settled => Settled', Asked => Asked'
        PROVE  WatcherInv'
    BY <1>1, <1>2, <1>6 DEF WatcherInv, Asked, Settled
  <1>7. CASE DecideTap
    <2>1. UNCHANGED <<watcher, cards, tapped>> BY <1>7 DEF DecideTap
    <2>2. slips' \in Nat /\ slips' >= slips BY <1>1, <1>7 DEF DecideTap, Slip
    <2>3. approval' \in Approvals /\ (Settled => Settled') /\ (Asked => Asked')
      BY <1>7 DEF DecideTap, Approvals, Settled, Asked, WatcherInv
    <2> QED BY <1>6, <2>1, <2>2, <2>3
  <1>8. ASSUME NEW from, NEW to,
               <<from, to>> \in {<<"none", "pending">>, <<"pending", "approved">>, <<"pending", "lapsed">>,
                                <<"approved", "released">>},
               ApprovalMoves(from, to)
        PROVE  WatcherInv'
    <2>1. UNCHANGED <<watcher, cards, tapped, slips>> BY <1>8 DEF ApprovalMoves
    <2>2. \/ approval = "none" /\ approval' = "pending"
          \/ approval = "pending" /\ approval' \in {"approved", "lapsed"}
          \/ approval = "approved" /\ approval' = "released"
      BY <1>8 DEF ApprovalMoves
    <2>3. approval' \in Approvals /\ (Settled => Settled') /\ (Asked => Asked')
      BY <2>2 DEF Approvals, Settled, Asked
    <2> QED BY <1>1, <1>6, <2>1, <2>3
  <1>9. CASE BridgeDies
    <2>1. UNCHANGED <<slips, approval, cards>> BY <1>9 DEF BridgeDies
    <2>2. watcher' = [at |-> "read", first |-> TRUE, sent |-> NotSent, live |-> FALSE, card |-> Silent]
      BY <1>9 DEF BridgeDies, NewWatcher
    <2>3. tapped' \in BOOLEAN BY <1>9, Zenon DEF BridgeDies
    <2>4. watcher' \in Watchers /\ watcher'.at = "read" /\ watcher'.first /\ watcher'.sent = NotSent
      BY <1>1, <2>2 DEF Watchers
    <2> QED BY <1>1, <2>1, <2>3, <2>4 DEF WatcherInv, Asked, Settled
  <1>14. CASE ServeEnds
    <2>1. UNCHANGED <<approval, cards, tapped>> /\ slips' \in Nat /\ slips' >= slips
      BY <1>1, <1>14 DEF ServeEnds, Slip
    <2>2. watcher' = [at |-> "read", first |-> TRUE, sent |-> NotSent, live |-> FALSE, card |-> Silent]
      BY <1>14 DEF ServeEnds, NewWatcher
    <2>3. watcher' \in Watchers /\ watcher'.at = "read" /\ watcher'.first /\ watcher'.sent = NotSent
      BY <1>1, <2>2 DEF Watchers
    <2> QED BY <1>1, <2>1, <2>3 DEF WatcherInv, Asked, Settled
  <1>10. CASE WatchRead
    <2>1. UNCHANGED <<slips, approval, cards, tapped>> BY <1>10 DEF WatchRead
    <2> DEFINE L(a, f) == [at |-> a, first |-> FALSE, sent |-> f, live |-> Live, card |-> watcher.card]
    <2>2. ASSUME NEW a \in {"gone", "send"}, NEW f \in 0 .. NotSent, watcher' = L(a, f)
          PROVE  /\ watcher' \in Watchers /\ watcher'.first = FALSE /\ watcher'.live = Live
                 /\ watcher'.card = watcher.card /\ watcher'.at = a /\ watcher'.sent = f
      <3>1. Live \in BOOLEAN BY DEF Live
      <3> QED BY <1>2, <2>2, <3>1 DEF Watchers
    <2>3. \/ watcher' = L("gone", watcher.sent) /\ (watcher.sent = NotSent /\ watcher.first => approval # "pending")
          \/ watcher' = L("gone", Silent) /\ approval = "pending"
          \/ watcher' = L("send", watcher.sent) /\ approval = "pending"
               /\ watcher.sent = NotSent /\ ~watcher.first
      BY <1>2, <1>10 DEF WatchRead
    <2> HIDE DEF L
    <2>4. CASE watcher' = L("gone", watcher.sent) /\ (watcher.sent = NotSent /\ watcher.first => approval # "pending")
      <3>1. /\ watcher' \in Watchers /\ watcher'.first = FALSE /\ watcher'.live = Live
            /\ watcher'.at = "gone" /\ watcher'.sent = watcher.sent
        BY <1>2, <2>2, <2>4
      <3>2. ASSUME watcher.sent = NotSent, ~Settled PROVE Len(cards) <= slips
        <4>1. CASE watcher.first
          <5>1. approval = "none" BY <2>4, <3>2, <4>1 DEF Settled
          <5>2. Len(cards) = 0 BY <1>1, <5>1 DEF WatcherInv, Asked
          <5> QED BY <1>1, <5>2
        <4>2. CASE ~watcher.first BY <3>2, <4>2 DEF WatcherInv
        <4> QED BY <4>1, <4>2
      <3>3. watcher.sent # NotSent /\ ~Live => Settled BY DEF WatcherInv, Asked, Settled, Live
      <3>4. /\ watcher'.at # "send" /\ watcher'.at # "edit"
            /\ (watcher'.sent = NotSent /\ ~Settled' => Len(cards') <= slips')
            /\ (~watcher'.live /\ watcher'.sent # NotSent => Settled')
        BY <2>1, <3>1, <3>2, <3>3 DEF Settled
      <3>5. /\ approval' \in Approvals /\ tapped' \in BOOLEAN
            /\ cards' \in Seq(CardTexts) /\ Len(cards') <= 1 + slips'
            /\ watcher'.sent \in {Silent, NotSent} \union 1 .. Len(cards')
            /\ watcher'.sent # NotSent => Asked'
            /\ Len(cards') > 0 => Asked'
        BY <2>1, <3>1 DEF WatcherInv, Asked
      <3> QED BY <3>1, <3>4, <3>5 DEF WatcherInv
    <2>5. CASE watcher' = L("gone", Silent) /\ approval = "pending"
      <3>1. /\ watcher' \in Watchers /\ watcher'.first = FALSE /\ watcher'.live = Live
            /\ watcher'.at = "gone" /\ watcher'.sent = Silent
        <4>1. Silent \in 0 .. NotSent BY <1>1
        <4> QED BY <2>2, <2>5, <4>1
      <3>2. Silent # NotSent BY <1>1
      <3>3. Live /\ Asked /\ watcher'.live BY <2>5, <3>1 DEF Live, Asked
      <3> QED BY <1>1, <2>1, <3>1, <3>2, <3>3 DEF WatcherInv, Asked, Settled
    <2>6. CASE watcher' = L("send", watcher.sent) /\ approval = "pending"
               /\ watcher.sent = NotSent /\ ~watcher.first
      <3>1. /\ watcher' \in Watchers /\ watcher'.first = FALSE /\ watcher'.live = Live
            /\ watcher'.at = "send" /\ watcher'.sent = watcher.sent
        BY <1>2, <2>2, <2>6
      <3> QED BY <1>1, <2>1, <2>6, <3>1 DEF WatcherInv, Asked, Settled, Live
    <2> QED BY <2>3, <2>4, <2>5, <2>6
  <1>11. CASE WatchSend
    <2>1. UNCHANGED <<approval, tapped>> /\ watcher.at = "send" BY <1>11 DEF WatchSend
    <2> DEFINE S(f) == [at |-> "gone", first |-> watcher.first, sent |-> f, live |-> watcher.live,
                        card |-> watcher.card]
    <2>2. ASSUME NEW f \in 0 .. NotSent, watcher' = S(f)
          PROVE  /\ watcher' \in Watchers /\ watcher'.first = watcher.first /\ watcher'.live = watcher.live
                 /\ watcher'.at = "gone" /\ watcher'.sent = f
      BY <1>2, <2>2 DEF Watchers
    <2>3. /\ Append(cards, "buttons") \in Seq(CardTexts)
          /\ Len(Append(cards, "buttons")) = Len(cards) + 1
      BY <1>1 DEF CardTexts
    <2>4. watcher.live /\ watcher.sent = NotSent /\ ~watcher.first /\ Len(cards) <= slips /\ Asked
      BY <2>1 DEF WatcherInv
    <2>5. CASE cards' = Append(cards, "buttons") /\ slips' = slips
               /\ watcher' = [watcher EXCEPT !.at = "gone", !.sent = Len(cards) + 1]
      <3>1. watcher' = S(Len(cards) + 1) BY <1>2, <2>5
      <3>2. Len(cards) + 1 \in 0 .. NotSent BY <1>1, <2>4
      <3> HIDE DEF S
      <3>3. /\ watcher' \in Watchers /\ watcher'.first = watcher.first /\ watcher'.live = watcher.live
            /\ watcher'.at = "gone" /\ watcher'.sent = Len(cards) + 1
        BY <2>2, <3>1, <3>2
      <3> QED BY <1>1, <2>1, <2>3, <2>4, <2>5, <3>3 DEF WatcherInv, Asked, Settled
    <2>6. CASE Slip /\ cards' \in {cards, Append(cards, "buttons")}
               /\ watcher' = [watcher EXCEPT !.at = "gone"]
      <3>1. watcher' = S(watcher.sent) BY <1>2, <2>6
      <3> HIDE DEF S
      <3>2. /\ watcher' \in Watchers /\ watcher'.first = watcher.first /\ watcher'.live = watcher.live
            /\ watcher'.at = "gone" /\ watcher'.sent = watcher.sent
        BY <1>2, <2>2, <3>1
      <3>3. slips' = slips + 1 BY <2>6 DEF Slip
      <3>4. cards' \in Seq(CardTexts) /\ Len(cards') \in Nat /\ Len(cards) <= Len(cards')
            /\ Len(cards') <= slips'
        <4>1. CASE cards' = cards BY <1>1, <2>4, <3>3, <4>1
        <4>2. CASE cards' = Append(cards, "buttons") BY <1>1, <2>3, <2>4, <3>3, <4>2
        <4> QED BY <2>6, <4>1, <4>2
      <3> QED BY <1>1, <2>1, <2>4, <3>2, <3>3, <3>4 DEF WatcherInv, Asked, Settled
    <2> QED BY <1>11, <2>5, <2>6 DEF WatchSend
  <1>12. CASE WatchGone
    <2> DEFINE gone == watcher.sent # NotSent /\ ~watcher.live
               retire == gone /\ watcher.sent # Silent /\ ~tapped
    <2>1. UNCHANGED <<approval, cards, slips>> /\ watcher.at = "gone"
          /\ watcher' = [watcher EXCEPT !.sent = IF gone THEN NotSent ELSE @,
                             !.card = IF retire THEN watcher.sent ELSE Silent,
                             !.at = IF retire THEN "edit" ELSE "read"]
      BY <1>12 DEF WatchGone
    <2>2. tapped' \in BOOLEAN BY <1>12, Zenon DEF WatchGone
    <2>3. gone => Settled BY <2>1 DEF WatcherInv
    <2>4. watcher.sent \in {Silent, NotSent} \union 1 .. Len(cards) BY DEF WatcherInv
    <2>5. CASE retire
      <3>1. watcher' = [at |-> "edit", first |-> watcher.first, sent |-> NotSent,
                        live |-> watcher.live, card |-> watcher.sent]
        BY <1>2, <2>1, <2>5
      <3>2. watcher.sent \in 1 .. Len(cards) /\ watcher.sent \in 0 .. MaxCards
        BY <1>1, <1>2, <2>4, <2>5
      <3>3. watcher' \in Watchers /\ watcher'.sent = NotSent /\ watcher'.at = "edit"
            /\ watcher'.card = watcher.sent /\ NotSent \in 0 .. NotSent
        BY <1>1, <1>2, <3>1, <3>2 DEF Watchers
      <3> QED BY <1>1, <2>1, <2>2, <2>3, <2>5, <3>2, <3>3 DEF WatcherInv, Asked, Settled
    <2>6. CASE ~retire
      <3> DEFINE f == IF gone THEN NotSent ELSE watcher.sent
      <3>1. watcher' = [at |-> "read", first |-> watcher.first, sent |-> f,
                        live |-> watcher.live, card |-> Silent]
        BY <1>2, <2>1, <2>6
      <3>2. f \in 0 .. NotSent BY <1>1, <1>2
      <3>3. f # watcher.sent => Settled /\ f = NotSent BY <2>3
      <3> HIDE DEF f
      <3>4. watcher' \in Watchers /\ watcher'.sent = f /\ watcher'.at = "read"
            /\ watcher'.first = watcher.first
        BY <1>1, <1>2, <3>1, <3>2 DEF Watchers
      <3> QED BY <1>1, <2>1, <2>2, <3>3, <3>4 DEF WatcherInv, Asked, Settled
    <2> QED BY <2>5, <2>6
  <1>13. CASE WatchEdit
    <2>1. UNCHANGED <<approval, tapped>> /\ watcher.at = "edit"
          /\ watcher' = [watcher EXCEPT !.at = "read", !.card = Silent]
      BY <1>13 DEF WatchEdit
    <2>2. slips' \in Nat /\ slips' >= slips BY <1>1, <1>13 DEF WatchEdit, Slip
    <2>a. "answered" \in CardTexts BY DEF CardTexts
    <2>3. cards' \in Seq(CardTexts) /\ Len(cards') = Len(cards)
      BY <1>1, <1>13, <2>a DEF WatchEdit
    <2>4. /\ watcher' \in Watchers /\ watcher'.first = watcher.first /\ watcher'.sent = watcher.sent
          /\ watcher'.at = "read"
      <3>1. Silent \in 0 .. MaxCards BY <1>1
      <3>2. watcher' = [at |-> "read", first |-> watcher.first, sent |-> watcher.sent,
                        live |-> watcher.live, card |-> Silent]
        BY <1>2, <2>1
      <3> QED BY <1>2, <3>1, <3>2 DEF Watchers
    <2> QED BY <1>1, <2>1, <2>2, <2>3, <2>4 DEF WatcherInv, Asked, Settled
  <1> QED BY <1>4, <1>5, <1>7, <1>8, <1>9, <1>10, <1>11, <1>12, <1>13, <1>14
          DEF TelegramNext, BridgeStep, WatcherStep

(* Every tap is on a card that went out; the tap in hand, and what came of *)
(* its decision.                                                           *)
LEMMA TapStep ==
    ASSUME BridgeTypes, WatcherInv, TapInv, [TelegramNext]_telegramVars
    PROVE  TapInv'
  <1>1. slips \in Nat /\ Len(cards) \in Nat /\ Len(updates) \in Nat /\ updates \in Seq(Updates)
        /\ cards \in Seq(CardTexts)
    BY DEF BridgeTypes, WatcherInv
  <1>2. bridge = [at |-> bridge.at, offset |-> bridge.offset, last |-> bridge.last, done |-> bridge.done]
        /\ bridge.offset \in Nat /\ bridge.last \in Nat /\ bridge.done \in BOOLEAN
    BY DEF BridgeTypes, Bridges
  <1>3. bridge.at \in {"handle"} \union TapSteps => bridge.offset - 1 \in 1 .. Len(updates)
    <2>1. SUFFICES ASSUME bridge.at \in {"handle"} \union TapSteps
                   PROVE  bridge.offset - 1 \in 1 .. Len(updates)
      OBVIOUS
    <2>2. 2 <= bridge.offset /\ bridge.offset <= bridge.last + 1 /\ bridge.last <= Len(updates)
      BY <2>1 DEF BridgeTypes
    <2> QED BY <1>1, <1>2, <2>2
  <1>4. NextUpdate.at \in {"truncate", "poll"} /\ NextUpdate.done = FALSE
    BY <1>2 DEF NextUpdate
  (* no tap in hand afterwards *)
  <1>5. ASSUME updates' = updates, Len(cards') \in Nat, Len(cards') >= Len(cards),
               bridge'.at \notin TapSteps, ~bridge'.done, tapped' => tapped
        PROVE  TapInv'
    BY <1>1, <1>5 DEF TapInv, TapSteps
  <1>6. CASE Poll \/ TruncateOffset \/ WriteOffset
    <2>1. UNCHANGED <<updates, cards, tapped>>
      BY <1>6 DEF Poll, TruncateOffset, WriteOffset, serviceVars
    <2>2. bridge'.at \in {"truncate", "write", "handle"} /\ bridge'.done = bridge.done
          /\ bridge.at \in {"poll", "truncate", "write"}
      BY <1>2, <1>6 DEF Poll, TruncateOffset, WriteOffset
    <2>3. ~bridge.done BY <2>2 DEF TapInv
    <2> QED BY <1>1, <1>5, <2>1, <2>2, <2>3 DEF TapSteps
  <1>7. CASE BridgeDies
    <2>1. UNCHANGED <<updates, cards>> /\ tapped' = FALSE
          /\ bridge' = [at |-> "poll", offset |-> Empty, last |-> 0, done |-> FALSE]
      BY <1>7 DEF BridgeDies, serviceVars, IdleBridge
    <2>2. bridge'.at = "poll" /\ bridge'.done = FALSE BY <2>1
    <2> QED BY <1>1, <1>5, <2>1, <2>2 DEF TapSteps
  <1>8. CASE BridgeStarts
    <2>1. UNCHANGED <<updates, cards, tapped>>
          /\ bridge' = [at |-> "poll", offset |-> offsetFile, last |-> 0, done |-> FALSE]
      BY <1>8 DEF BridgeStarts, serviceVars, IdleBridge
    <2>2. bridge'.at = "poll" /\ bridge'.done = FALSE BY <2>1
    <2> QED BY <1>1, <1>5, <2>1, <2>2 DEF TapSteps
  <1>17. CASE ServeEnds
    <2>1. UNCHANGED <<updates, cards, tapped>>
          /\ bridge' = [at |-> "poll", offset |-> offsetFile, last |-> 0, done |-> FALSE]
      BY <1>17 DEF ServeEnds, serviceVars, IdleBridge
    <2>2. bridge'.at = "poll" /\ bridge'.done = FALSE BY <2>1
    <2> QED BY <1>1, <1>5, <2>1, <2>2 DEF TapSteps
  <1>9. CASE EditTap
    <2>1. UNCHANGED <<updates, tapped>> /\ Len(cards') = Len(cards) /\ bridge' = NextUpdate
      BY <1>1, <1>9 DEF EditTap, serviceVars
    <2> QED BY <1>1, <1>4, <1>5, <2>1 DEF TapSteps
  <1>10. CASE HandleUpdate
    <2>1. UNCHANGED <<updates, cards>> /\ bridge.at = "handle" BY <1>10 DEF HandleUpdate, serviceVars
    <2>2. ~bridge.done BY <2>1 DEF TapInv
    <2>3. CASE Current.what \in Taps
      <3>1. bridge' = [bridge EXCEPT !.at = "decide"] BY <1>10, <2>3 DEF HandleUpdate
      <3>2. bridge'.at = "decide" /\ bridge'.offset = bridge.offset /\ bridge'.done = bridge.done
        BY <1>2, <3>1
      <3>3. Len(cards) > 0 BY <1>1, <1>3, <2>1, <2>3 DEF TapInv, Current, TapSteps
      <3> QED BY <2>1, <2>2, <2>3, <3>2, <3>3 DEF TapInv, Current, TapSteps
    <2>4. CASE Current.what \notin Taps
      <3>1. bridge' = NextUpdate /\ tapped' = tapped BY <1>10, <2>4 DEF HandleUpdate
      <3> QED BY <1>1, <1>4, <1>5, <2>1, <3>1 DEF TapSteps
    <2> QED BY <2>3, <2>4
  <1>11. CASE DecideTap
    <2>1. UNCHANGED <<updates, cards, tapped>> /\ bridge.at = "decide" BY <1>11 DEF DecideTap, serviceVars
    <2>2. ~bridge.done /\ Current.what \in Taps BY <2>1 DEF TapInv, TapSteps
    <2>3. bridge'.at = "answer" /\ bridge'.offset = bridge.offset BY <1>2, <1>11 DEF DecideTap
    <2>4. Current' = Current BY <2>1, <2>3 DEF Current
    <2>5. Len(cards) > 0 BY <1>1, <1>3, <2>1, <2>2 DEF TapInv, Current, TapSteps
    <2>6. approval # "none" BY <2>5 DEF WatcherInv, Asked
    <2>7. /\ bridge'.done => (Current.what = "approve" => approval' = "approved")
                              /\ (Current.what = "deny" => approval' = "denied")
          /\ ~bridge'.done => (Settled' \/ slips' > 0)
      <3>1. CASE approval = "pending" /\ bridge' = [bridge EXCEPT !.at = "answer", !.done = TRUE]
                 /\ approval' = (IF Current.what = "approve" THEN "approved" ELSE "denied")
        BY <1>2, <2>2, <3>1
      <3>2. CASE approval # "pending" /\ approval' = approval /\ bridge' = [bridge EXCEPT !.at = "answer"]
        BY <1>2, <2>2, <2>6, <3>2 DEF Settled
      <3>3. CASE slips' = slips + 1 /\ bridge' = [bridge EXCEPT !.at = "answer"]
        BY <1>1, <1>2, <2>2, <3>3
      <3> QED BY <1>11, <3>1, <3>2, <3>3 DEF DecideTap, Slip
    <2>8. \A i \in 1 .. Len(updates') : updates'[i].what \in Taps => updates'[i].card \in 1 .. Len(cards')
      BY <2>1 DEF TapInv
    <2>9. tapped' => Len(cards') > 0 BY <2>1, <2>5
    <2> QED BY <2>2, <2>3, <2>4, <2>7, <2>8, <2>9 DEF TapInv, TapSteps
  <1>12. CASE AnswerTap
    <2>1. UNCHANGED <<updates, cards, approval, slips>> /\ bridge.at = "answer"
          /\ bridge' = [bridge EXCEPT !.at = "edit"] /\ tapped' = (tapped /\ bridge.done)
      BY <1>12 DEF AnswerTap, serviceVars
    <2>2. bridge'.at = "edit" /\ bridge'.offset = bridge.offset /\ bridge'.done = bridge.done
      BY <1>2, <2>1
    <2>3. Current' = Current BY <2>1, <2>2 DEF Current
    <2>4. tapped' => tapped BY <2>1
    <2> QED BY <2>1, <2>2, <2>3, <2>4 DEF TapInv, TapSteps, Settled
  <1>13. ASSUME NEW what \in {"message"} \union Taps, NEW card \in 0 .. MaxCards, OwnerSends(what, card)
         PROVE  TapInv'
    <2>1. UNCHANGED <<approval, bridge, tapped, cards, slips>>
          /\ updates' = Append(updates, [what |-> what, card |-> card])
          /\ (what \in Taps => card \in 1 .. Len(cards))
      BY <1>1, <1>13 DEF OwnerSends, Taps
    <2>2. Len(updates') = Len(updates) + 1 /\ (\A i \in 1 .. Len(updates) : updates'[i] = updates[i])
          /\ updates'[Len(updates) + 1] = [what |-> what, card |-> card]
      BY <1>1, <2>1
    <2>3. ASSUME NEW i \in 1 .. Len(updates'), updates'[i].what \in Taps
          PROVE  updates'[i].card \in 1 .. Len(cards')
      <3>1. CASE i = Len(updates) + 1
        BY <2>1, <2>2, <2>3, <3>1
      <3>2. CASE i # Len(updates) + 1
        <4>1. i \in 1 .. Len(updates) /\ updates'[i] = updates[i] BY <1>1, <2>2, <3>2
        <4> QED BY <2>1, <2>3, <4>1 DEF TapInv
      <3> QED BY <3>1, <3>2
    <2>4. bridge.at \in TapSteps => Current' = Current BY <1>3, <2>1, <2>2 DEF Current
    <2>5. bridge.done => bridge.at \in TapSteps BY DEF TapInv, TapSteps
    <2> QED BY <2>1, <2>3, <2>4, <2>5 DEF TapInv, Settled
  <1>14. ASSUME UNCHANGED <<updates, bridge>>, Len(cards') \in Nat, Len(cards') >= Len(cards),
                tapped' => tapped, slips' \in Nat, slips' >= slips, Settled => Settled',
                approval \in {"approved", "released"} => approval' \in {"approved", "released"},
                approval = "denied" => approval' = "denied"
         PROVE  TapInv'
    <2>1. Current' = Current BY <1>14 DEF Current
    <2>2. ASSUME NEW i \in 1 .. Len(updates'), updates'[i].what \in Taps
          PROVE  updates'[i].card \in 1 .. Len(cards')
      BY <1>1, <1>14, <2>2 DEF TapInv
    <2>3. bridge.at \in {"answer", "edit"} /\ ~bridge.done => Settled' \/ slips' > 0
      BY <1>1, <1>14 DEF TapInv
    <2>4. tapped' => Len(cards') > 0 BY <1>1, <1>14 DEF TapInv
    <2> QED BY <1>14, <2>1, <2>2, <2>3, <2>4 DEF TapInv
  <1>15. ASSUME NEW from, NEW to,
               <<from, to>> \in {<<"none", "pending">>, <<"pending", "approved">>, <<"pending", "lapsed">>,
                                <<"approved", "released">>},
               ApprovalMoves(from, to)
        PROVE  TapInv'
    <2>1. UNCHANGED <<updates, bridge, cards, tapped, slips>> BY <1>15 DEF ApprovalMoves, serviceVars
    <2>2. \/ approval = "none" /\ approval' = "pending"
          \/ approval = "pending" /\ approval' \in {"approved", "lapsed"}
          \/ approval = "approved" /\ approval' = "released"
      BY <1>15 DEF ApprovalMoves
    <2> QED BY <1>1, <1>14, <2>1, <2>2 DEF Settled
  <1>16. CASE WatcherStep \/ UNCHANGED telegramVars
    <2>1. UNCHANGED <<updates, bridge, approval>>
      BY <1>16 DEF WatcherStep, WatchRead, WatchSend, WatchGone, WatchEdit, telegramVars, serviceVars
    <2>2. tapped' => tapped
      BY <1>16 DEF WatcherStep, WatchRead, WatchSend, WatchGone, WatchEdit, telegramVars
    <2>3. slips' = slips \/ Slip
      BY <1>16 DEF WatcherStep, WatchRead, WatchSend, WatchGone, WatchEdit, telegramVars
    <2>4. slips' \in Nat /\ slips' >= slips BY <1>1, <2>3 DEF Slip
    <2>5. cards' = cards \/ cards' = Append(cards, "buttons")
          \/ cards' = [cards EXCEPT ![watcher.card] = "answered"]
      BY <1>16 DEF WatcherStep, WatchRead, WatchSend, WatchGone, WatchEdit, telegramVars
    <2>6. Len(cards') \in Nat /\ Len(cards') >= Len(cards)
      <3>1. CASE cards' = cards BY <1>1, <3>1
      <3>2. CASE cards' = Append(cards, "buttons") BY <1>1, <3>2
      <3>3. CASE cards' = [cards EXCEPT ![watcher.card] = "answered"]
        <4>1. Len(cards') = Len(cards) BY <1>1, <3>3
        <4> QED BY <1>1, <4>1
      <3> QED BY <2>5, <3>1, <3>2, <3>3
    <2> QED BY <1>14, <2>1, <2>2, <2>4, <2>6 DEF Settled
  <1> QED BY <1>6, <1>7, <1>8, <1>9, <1>10, <1>11, <1>12, <1>13, <1>15, <1>16, <1>17
          DEF TelegramNext, BridgeStep

(* What a card may say of the approval, as it stands.                      *)
Fits(text) ==
    /\ text = "approved" => approval \in {"approved", "released"}
    /\ text = "denied" => approval = "denied"
    /\ text = "answered" => Settled
    /\ text = "notWaiting" => Settled \/ slips > 0

LEMMA TruthStep ==
    ASSUME BridgeTypes, WatcherInv, TapInv, CardTellsTheTruth, [TelegramNext]_telegramVars
    PROVE  CardTellsTheTruth'
  <1>1. slips \in Nat /\ cards \in Seq(CardTexts) /\ DOMAIN cards = 1 .. Len(cards) /\ Len(cards) \in Nat
    BY DEF BridgeTypes, WatcherInv
  <1>2. CardTellsTheTruth <=> \A c \in DOMAIN cards : Fits(cards[c])
    BY DEF CardTellsTheTruth, Fits, Settled
  <1>3. CardTellsTheTruth' <=> \A c \in DOMAIN cards' : Fits(cards[c])'
    BY DEF CardTellsTheTruth, Fits, Settled
  (* a card that keeps its text *)
  <1>4. ASSUME slips' \in Nat, slips' >= slips, Settled => Settled',
               approval \in {"approved", "released"} => approval' \in {"approved", "released"},
               approval = "denied" => approval' = "denied",
               NEW c \in DOMAIN cards, cards'[c] = cards[c]
        PROVE  Fits(cards[c])'
    BY <1>1, <1>2, <1>4 DEF Fits
  <1>5. CASE UNCHANGED cards
    <2>1. slips' = slips \/ Slip
      BY <1>5 DEF TelegramNext, OwnerSends, ApprovalMoves, BridgeStep, Poll, TruncateOffset, WriteOffset,
           HandleUpdate, DecideTap, AnswerTap, EditTap, WatcherStep, WatchRead, WatchSend, WatchGone,
           WatchEdit, ServeEnds, BridgeDies, BridgeStarts, telegramVars
    <2>2. slips' \in Nat /\ slips' >= slips BY <1>1, <2>1 DEF Slip
    <2>3. approval' = approval \/ approval \in {"none", "pending"} \/ (approval = "approved" /\ approval' = "released")
      BY DEF TelegramNext, OwnerSends, ApprovalMoves, BridgeStep, Poll, TruncateOffset, WriteOffset,
           HandleUpdate, DecideTap, AnswerTap, EditTap, WatcherStep, WatchRead, WatchSend, WatchGone,
           WatchEdit, ServeEnds, BridgeDies, BridgeStarts, telegramVars
    <2>4. /\ Settled => Settled'
          /\ approval \in {"approved", "released"} => approval' \in {"approved", "released"}
          /\ approval = "denied" => approval' = "denied"
      BY <2>3 DEF Settled
    <2> QED BY <1>3, <1>4, <1>5, <2>2, <2>4
  <1>6. CASE EditTap /\ cards' # cards
    <2>1. cards' = [cards EXCEPT ![Current.card] = TapWords] /\ slips' = slips /\ UNCHANGED approval
          /\ bridge.at = "edit"
      BY <1>6 DEF EditTap
    <2>2. Current.what \in Taps BY <2>1 DEF TapInv, TapSteps
    <2>3. Fits(TapWords)
      BY <2>1, <2>2 DEF Fits, TapWords, TapInv, Taps
    <2>5. ASSUME NEW c \in DOMAIN cards' PROVE Fits(cards[c])'
      <3>1. c \in DOMAIN cards BY <2>1
      <3>2. CASE cards'[c] = TapWords BY <2>1, <2>3, <3>2 DEF Fits, Settled
      <3>3. CASE cards'[c] # TapWords
        <4>1. cards'[c] = cards[c] BY <1>1, <2>1, <3>1, <3>3
        <4> QED BY <1>1, <1>4, <2>1, <3>1, <4>1 DEF Settled
      <3> QED BY <3>2, <3>3
    <2> QED BY <1>3, <2>5
  <1>7. CASE WatchEdit /\ cards' # cards
    <2>1. cards' = [cards EXCEPT ![watcher.card] = "answered"] /\ slips' = slips /\ UNCHANGED approval
          /\ watcher.at = "edit"
      BY <1>7 DEF WatchEdit
    <2>2. Settled BY <2>1 DEF WatcherInv
    <2>3. ASSUME NEW c \in DOMAIN cards' PROVE Fits(cards[c])'
      <3>1. c \in DOMAIN cards BY <2>1
      <3>2. CASE cards'[c] = "answered" BY <2>1, <2>2, <3>2 DEF Fits, Settled
      <3>3. CASE cards'[c] # "answered"
        <4>1. cards'[c] = cards[c] BY <1>1, <2>1, <3>1, <3>3
        <4> QED BY <1>1, <1>4, <2>1, <3>1, <4>1 DEF Settled
      <3> QED BY <3>2, <3>3
    <2> QED BY <1>3, <2>3
  <1>8. CASE WatchSend /\ cards' # cards
    <2>1. cards' = Append(cards, "buttons") /\ UNCHANGED approval /\ (slips' = slips \/ Slip)
      BY <1>8 DEF WatchSend
    <2>2. slips' \in Nat /\ slips' >= slips BY <1>1, <2>1 DEF Slip
    <2>3. ASSUME NEW c \in DOMAIN cards' PROVE Fits(cards[c])'
      <3>1. CASE c = Len(cards) + 1
        <4>1. cards'[c] = "buttons" BY <1>1, <2>1, <3>1
        <4> QED BY <4>1 DEF Fits
      <3>2. CASE c # Len(cards) + 1
        <4>1. c \in DOMAIN cards /\ cards'[c] = cards[c] BY <1>1, <2>1, <3>2
        <4> QED BY <1>4, <2>1, <2>2, <4>1 DEF Settled
      <3> QED BY <3>1, <3>2
    <2> QED BY <1>3, <2>3
  <1>9. cards' = cards \/ EditTap \/ WatchEdit \/ WatchSend
    BY DEF TelegramNext, OwnerSends, ApprovalMoves, BridgeStep, Poll, TruncateOffset, WriteOffset,
         HandleUpdate, DecideTap, AnswerTap, WatcherStep, WatchRead, WatchGone,
         ServeEnds, BridgeDies, BridgeStarts, telegramVars
  <1> QED BY <1>5, <1>6, <1>7, <1>8, <1>9

(* While nothing has died or failed there is one card at most, so the tap  *)
(* in hand and the watcher's map are about the same one.                   *)
LEMMA KeeperStep ==
    ASSUME BridgeTypes, WatcherInv, TapInv, KeeperInv, CardHasAKeeper, [TelegramNext]_telegramVars
    PROVE  KeeperInv' /\ CardHasAKeeper'
  <1>1. slips \in Nat /\ kills \in Nat /\ cards \in Seq(CardTexts) /\ DOMAIN cards = 1 .. Len(cards)
        /\ Len(cards) \in Nat /\ updates \in Seq(Updates) /\ Len(updates) \in Nat
    BY DEF BridgeTypes, WatcherInv
  <1>2. slips' = slips \/ slips' = slips + 1
    BY DEF TelegramNext, OwnerSends, ApprovalMoves, BridgeStep, Poll, TruncateOffset, WriteOffset,
         HandleUpdate, DecideTap, AnswerTap, EditTap, WatcherStep, WatchRead, WatchSend, WatchGone,
         WatchEdit, ServeEnds, BridgeDies, BridgeStarts, telegramVars, Slip
  <1>3. (BridgeDies /\ kills' = kills + 1) \/ (~BridgeDies /\ kills' = kills)
    BY <1>1 DEF TelegramNext, OwnerSends, ApprovalMoves, BridgeStep, Poll, TruncateOffset, WriteOffset,
         HandleUpdate, DecideTap, AnswerTap, EditTap, WatcherStep, WatchRead, WatchSend, WatchGone,
         WatchEdit, ServeEnds, BridgeDies, BridgeStarts, telegramVars, processVars
  <1>4. SUFFICES ASSUME kills' = 0, slips' = 0
                 PROVE  KeeperInv' /\ CardHasAKeeper'
    BY DEF KeeperInv, CardHasAKeeper
  <1>5. kills = 0 /\ slips = 0 /\ slips' = slips /\ ~BridgeDies BY <1>1, <1>2, <1>3, <1>4
  <1>6. ~Slip BY <1>1, <1>5 DEF Slip
  <1> DEFINE Kept(c) == \/ watcher.sent = c
                        \/ watcher.at = "edit" /\ watcher.card = c
                        \/ bridge.at \in TapSteps /\ Current.card = c
             Bare == \A c \in 1 .. Len(cards) : cards[c] # "buttons"
  <1>7. /\ running /\ Len(cards) <= 1 /\ NotSent > 1
        /\ Len(cards) > 0 => ~watcher.first
        /\ tapped => bridge.at \in TapSteps \/ Bare
        /\ \A c \in 1 .. Len(cards) : cards[c] = "buttons" => Kept(c)
    <2>1. MaxSlips \in Nat BY TelegramAssumption
    <2>2. NotSent > 1 BY <2>1 DEF NotSent, MaxCards
    <2>3. Len(cards) <= 1 BY <1>1, <1>5 DEF WatcherInv
    <2> QED BY <1>1, <1>5, <2>2, <2>3 DEF KeeperInv, CardHasAKeeper, TapSteps
  <1>8. cards' \in Seq(CardTexts) BY WatcherStepKeeps DEF WatcherInv
  <1>9. DOMAIN cards' = 1 .. Len(cards') BY <1>8
  <1>10. SUFFICES /\ running' /\ (Len(cards') > 0 => ~watcher'.first)
                  /\ tapped' => bridge'.at \in TapSteps \/ Bare'
                  /\ \A c \in 1 .. Len(cards') : cards'[c] = "buttons" => Kept(c)'
    BY <1>9 DEF KeeperInv, CardHasAKeeper, TapSteps
  <1>11. watcher = [at |-> watcher.at, first |-> watcher.first, sent |-> watcher.sent,
                    live |-> watcher.live, card |-> watcher.card]
    BY DEF WatcherInv, Watchers
  <1>12. bridge = [at |-> bridge.at, offset |-> bridge.offset, last |-> bridge.last, done |-> bridge.done]
    BY DEF BridgeTypes, Bridges
  <1>13. bridge.at \in TapSteps => Current.card \in 1 .. Len(cards) /\ bridge.offset - 1 \in 1 .. Len(updates)
    <2>1. SUFFICES ASSUME bridge.at \in TapSteps
                   PROVE  Current.card \in 1 .. Len(cards) /\ bridge.offset - 1 \in 1 .. Len(updates)
      OBVIOUS
    <2>2. 2 <= bridge.offset /\ bridge.offset <= bridge.last + 1 /\ bridge.last <= Len(updates)
          /\ bridge.offset \in Nat /\ bridge.last \in Nat
      BY <2>1 DEF BridgeTypes, Bridges
    <2>3. bridge.offset - 1 \in 1 .. Len(updates) BY <1>1, <2>2
    <2> QED BY <2>1, <2>3 DEF TapInv, Current
  (* nothing but the bridge moves, and it has no tap in hand or keeps it *)
  <1>14. ASSUME running', UNCHANGED <<cards, watcher>>,
                tapped' => tapped \/ bridge'.at \in TapSteps,
                bridge.at \in TapSteps => bridge'.at \in TapSteps /\ Current' = Current
         PROVE  /\ running' /\ (Len(cards') > 0 => ~watcher'.first)
                /\ tapped' => bridge'.at \in TapSteps \/ Bare'
                /\ \A c \in 1 .. Len(cards') : cards'[c] = "buttons" => Kept(c)'
    BY <1>7, <1>14
  <1>15. CASE Poll \/ TruncateOffset \/ WriteOffset \/ HandleUpdate
    <2>1. UNCHANGED <<cards, watcher, running>> /\ bridge.at \notin TapSteps
      BY <1>15 DEF Poll, TruncateOffset, WriteOffset, HandleUpdate, processVars, TapSteps
    <2>2. tapped' = tapped \/ bridge' = [bridge EXCEPT !.at = "decide"]
      BY <1>15 DEF Poll, TruncateOffset, WriteOffset, HandleUpdate
    <2>3. tapped' => tapped \/ bridge'.at \in TapSteps BY <1>12, <2>2 DEF TapSteps
    <2> QED BY <1>7, <1>14, <2>1, <2>3
  <1>16. CASE DecideTap \/ AnswerTap
    <2>1. UNCHANGED <<cards, watcher, running, updates>>
      BY <1>16 DEF DecideTap, AnswerTap, processVars, serviceVars
    <2>a. ASSUME tapped' PROVE tapped
      <3>1. CASE DecideTap BY <2>a, <3>1 DEF DecideTap
      <3>2. CASE AnswerTap BY <2>a, <3>2 DEF AnswerTap
      <3> QED BY <1>16, <3>1, <3>2
    <2>2. bridge'.at \in TapSteps /\ bridge'.offset = bridge.offset
      BY <1>12, <1>16 DEF DecideTap, AnswerTap, TapSteps
    <2>3. Current' = Current BY <2>1, <2>2 DEF Current
    <2> QED BY <1>7, <1>14, <2>1, <2>a, <2>2, <2>3
  <1>17. CASE (\E what \in {"message"} \union Taps, card \in 0 .. MaxCards : OwnerSends(what, card))
    <2>1. UNCHANGED <<cards, watcher, running, tapped, bridge>>
      BY <1>17 DEF OwnerSends, processVars
    <2>2. \E x : updates' = Append(updates, x) BY <1>17 DEF OwnerSends
    <2>3. \A i \in 1 .. Len(updates) : updates'[i] = updates[i] BY <1>1, <2>2
    <2>4. bridge.at \in TapSteps => Current' = Current BY <1>13, <2>1, <2>3 DEF Current
    <2> QED BY <1>7, <1>14, <2>1, <2>4
  <1>18. CASE UNCHANGED telegramVars \/ \E from, to \in Approvals : ApprovalMoves(from, to)
    <2>1. UNCHANGED <<cards, watcher, running, tapped, bridge, updates>>
      BY <1>18 DEF telegramVars, ApprovalMoves, processVars, serviceVars
    <2>2. Current' = Current BY <2>1 DEF Current
    <2> QED BY <1>7, <1>14, <2>1, <2>2
  <1>19. CASE EditTap
    <2>1. cards' = [cards EXCEPT ![Current.card] = TapWords] /\ UNCHANGED <<watcher, running, tapped>>
          /\ bridge.at = "edit"
      BY <1>6, <1>19 DEF EditTap, processVars
    <2>2. Current.card \in 1 .. Len(cards) BY <1>13, <2>1 DEF TapSteps
    <2>3. TapWords # "buttons" BY DEF TapWords
    <2>4. Len(cards') = Len(cards) BY <1>1, <2>1
    <2>5. ASSUME NEW c \in 1 .. Len(cards') PROVE cards'[c] # "buttons"
      <3>1. c = Current.card /\ c \in 1 .. Len(cards) BY <1>1, <1>7, <2>2, <2>4
      <3> QED BY <1>1, <2>1, <2>3, <3>1
    <2> QED BY <1>7, <2>1, <2>4, <2>5
  <1>20. CASE WatchEdit
    <2>1. cards' = [cards EXCEPT ![watcher.card] = "answered"] /\ UNCHANGED <<running, tapped>>
          /\ watcher' = [watcher EXCEPT !.at = "read", !.card = Silent] /\ watcher.at = "edit"
      BY <1>6, <1>20 DEF WatchEdit, processVars
    <2>2. watcher.card \in 1 .. Len(cards) BY <2>1 DEF WatcherInv
    <2>3. Len(cards') = Len(cards) /\ watcher'.first = watcher.first BY <1>1, <1>11, <2>1
    <2>4. ASSUME NEW c \in 1 .. Len(cards') PROVE cards'[c] # "buttons"
      <3>1. c = watcher.card /\ c \in 1 .. Len(cards) BY <1>1, <1>7, <2>2, <2>3
      <3> QED BY <1>1, <2>1, <3>1
    <2> QED BY <1>7, <2>1, <2>3, <2>4
  <1>21. CASE WatchRead
    <2>1. UNCHANGED <<cards, running, tapped, bridge, updates>> /\ watcher.at = "read"
      BY <1>21 DEF WatchRead, processVars, serviceVars
    <2>2. ~watcher'.first /\ (watcher'.sent = watcher.sent \/ watcher.sent = NotSent)
      BY <1>11, <1>21 DEF WatchRead
    <2>3. Current' = Current BY <2>1 DEF Current
    <2>4. ASSUME NEW c \in 1 .. Len(cards'), cards'[c] = "buttons" PROVE Kept(c)'
      <3>1. c # NotSent BY <1>1, <1>7, <2>1 DEF NotSent, MaxCards
      <3> QED BY <1>7, <2>1, <2>2, <2>3, <2>4, <3>1
    <2> QED BY <1>7, <2>1, <2>2, <2>4
  <1>22. CASE WatchSend
    <2>1. cards' = Append(cards, "buttons") /\ UNCHANGED <<running, tapped>> /\ watcher.at = "send"
          /\ watcher' = [watcher EXCEPT !.at = "gone", !.sent = Len(cards) + 1]
      BY <1>6, <1>22 DEF WatchSend, processVars
    <2>2. Len(cards) = 0 /\ ~watcher.first BY <1>1, <1>5, <2>1 DEF WatcherInv
    <2>3. Len(cards') = 1 BY <1>1, <2>1, <2>2
    <2>4. watcher'.sent = 1 /\ watcher'.first = watcher.first BY <1>11, <2>1, <2>2
    <2>5. ~tapped BY <2>2 DEF TapInv
    <2> QED BY <1>7, <2>1, <2>2, <2>3, <2>4, <2>5
  <1>23. CASE WatchGone
    <2> DEFINE gone == watcher.sent # NotSent /\ ~watcher.live
               retire == gone /\ watcher.sent # Silent /\ ~tapped
    <2>1. UNCHANGED <<cards, running, bridge, updates>> /\ watcher.at = "gone" /\ (tapped' => tapped)
          /\ watcher' = [watcher EXCEPT !.sent = IF gone THEN NotSent ELSE @,
                             !.card = IF retire THEN watcher.sent ELSE Silent,
                             !.at = IF retire THEN "edit" ELSE "read"]
      BY <1>23 DEF WatchGone, processVars, serviceVars
    <2>2. Current' = Current BY <2>1 DEF Current
    <2>3. /\ watcher'.first = watcher.first
          /\ ~gone => watcher'.sent = watcher.sent
          /\ retire => watcher'.at = "edit" /\ watcher'.card = watcher.sent
      BY <1>11, <2>1
    <2>4. ASSUME NEW c \in 1 .. Len(cards'), cards'[c] = "buttons" PROVE Kept(c)'
      <3>1. Kept(c) /\ c \in 1 .. Len(cards) /\ cards[c] = "buttons" BY <1>7, <2>1, <2>4
      <3>2. CASE watcher.sent # c BY <2>1, <2>2, <3>1, <3>2
      <3>3. CASE watcher.sent = c /\ ~gone BY <2>3, <3>3
      <3>4. CASE watcher.sent = c /\ retire BY <2>3, <3>4
      <3>5. CASE watcher.sent = c /\ gone /\ ~retire
        <4>1. tapped BY <1>1, <3>1, <3>5 DEF Silent
        <4>2. bridge.at \in TapSteps BY <1>7, <3>1, <4>1
        <4>3. Current.card = c BY <1>1, <1>7, <1>13, <3>1, <4>2
        <4> QED BY <2>1, <2>2, <4>2, <4>3
      <3> QED BY <3>2, <3>3, <3>4, <3>5
    <2> QED BY <1>7, <2>1, <2>3, <2>4
  <1>24. ~BridgeStarts /\ ~ServeEnds BY <1>6, <1>7 DEF BridgeStarts, ServeEnds
  <1>25. {"none", "pending", "approved", "lapsed", "released"} \subseteq Approvals BY DEF Approvals
  <1> QED BY <1>5, <1>15, <1>16, <1>17, <1>18, <1>19, <1>20, <1>21, <1>22, <1>23, <1>24, <1>25
          DEF TelegramNext, BridgeStep, WatcherStep

-----------------------------------------------------------------------------
(* The inductive invariant of the bridge and the watcher.                  *)
BridgeInv ==
    /\ BridgeTypes /\ HandledInv /\ WatcherInv /\ TapInv
    /\ KeeperInv /\ CardTellsTheTruth /\ CardHasAKeeper

LEMMA BridgeInvInit == TelegramInit => BridgeInv
  <1> SUFFICES ASSUME TelegramInit PROVE BridgeInv OBVIOUS
  <1> USE TelegramAssumption DEF TelegramInit
  <1>1. bridge.at = "poll" /\ bridge.done = FALSE /\ bridge.offset = 0 /\ bridge.last = 0
        /\ bridge \in Bridges
    BY DEF IdleBridge, Bridges, Empty
  <1>2. watcher.at = "read" /\ watcher.first /\ watcher.sent = NotSent /\ watcher \in Watchers
    BY DEF NewWatcher, Watchers, NotSent, MaxCards, Silent
  <1>3. Len(cards) = 0 /\ Len(updates) = 0 OBVIOUS
  <1>4. BridgeTypes
    <2>1. running \in BOOLEAN BY Zenon
    <2>2. updates \in Seq(Updates) OBVIOUS
    <2> QED BY <1>1, <1>3, <2>1, <2>2 DEF BridgeTypes, TapSteps, Empty
  <1>5. HandledInv BY <1>1 DEF HandledInv, FreshAt
  <1>6. WatcherInv
    <2>1. tapped \in BOOLEAN BY Zenon
    <2>2. cards \in Seq(CardTexts) /\ approval \in Approvals BY DEF Approvals
    <2> QED BY <1>2, <1>3, <2>1, <2>2 DEF WatcherInv, Asked, Settled
  <1>7. TapInv BY <1>1, <1>3 DEF TapInv, TapSteps
  <1>8. KeeperInv BY <1>3 DEF KeeperInv
  <1>9. CardTellsTheTruth BY DEF CardTellsTheTruth
  <1>10. CardHasAKeeper BY DEF CardHasAKeeper
  <1> QED BY <1>4, <1>5, <1>6, <1>7, <1>8, <1>9, <1>10 DEF BridgeInv

LEMMA BridgeInvStep == BridgeInv /\ [TelegramNext]_telegramVars => BridgeInv'
  BY BridgeTypesStep, HandledStep, WatcherStepKeeps, TapStep, TruthStep, KeeperStep DEF BridgeInv

LEMMA BridgeInvTypes == BridgeInv => TelegramTypeOK
  <1> SUFFICES ASSUME BridgeInv PROVE TelegramTypeOK OBVIOUS
  <1> USE TelegramAssumption
  <1>1. badWrites \in 0 .. (MaxSlips + MaxKills) BY DEF BridgeInv, BridgeTypes
  <1>2. Len(cards) <= MaxCards
    <2>1. slips \in Nat /\ slips <= MaxSlips /\ Len(cards) <= 1 + slips /\ Len(cards) \in Nat
      BY DEF BridgeInv, BridgeTypes, WatcherInv
    <2> QED BY <2>1 DEF MaxCards
  <1>3. confirmed \in 0 .. (MaxUpdates + 1) BY DEF BridgeInv, BridgeTypes
  <1>4. /\ running \in BOOLEAN /\ kills \in 0 .. MaxKills /\ slips \in 0 .. MaxSlips
        /\ updates \in Seq([what : {"message"} \union Taps, card : 0 .. MaxCards])
        /\ Len(updates) <= MaxUpdates /\ offsetFile \in 0 .. (MaxUpdates + 1)
        /\ bridge \in [at : {"poll", "truncate", "write", "handle", "decide", "answer", "edit"},
                       offset : 0 .. (MaxUpdates + 1), last : 0 .. MaxUpdates, done : BOOLEAN]
    BY DEF BridgeInv, BridgeTypes, Updates, Bridges
  <1>5. /\ approval \in {"none", "pending", "approved", "released", "denied", "lapsed"}
        /\ watcher \in [at : {"read", "send", "gone", "edit"}, first : BOOLEAN,
                        sent : 0 .. NotSent, live : BOOLEAN, card : 0 .. MaxCards]
        /\ tapped \in BOOLEAN /\ cards \in Seq(CardTexts)
    BY DEF BridgeInv, WatcherInv, Watchers, Approvals
  <1>6. handled \in [Ids -> Nat] BY DEF BridgeInv, HandledInv
  <1> QED BY <1>1, <1>2, <1>3, <1>4, <1>5, <1>6 DEF TelegramTypeOK

(* No update of the chat is handled twice unless a write of the offset     *)
(* failed or was cut off (telegram.rs, serve): BridgeInv says by the place *)
(* of the bridge which updates the file and the service would give again.  *)
THEOREM UpdatesOnce == TelegramSpec => []UpdateHandledOnce
  <1>1. BridgeInv => UpdateHandledOnce BY DEF BridgeInv, HandledInv, FreshAt, UpdateHandledOnce
  <1> QED BY <1>1, BridgeInvInit, BridgeInvStep, PTL DEF TelegramSpec

(* What a card says of the approval is so, whoever decided it and whatever *)
(* fails (telegram.rs, handle_callback and watch_approvals).               *)
THEOREM CardsAreTrue == TelegramSpec => []CardTellsTheTruth
  <1>1. BridgeInv => CardTellsTheTruth BY DEF BridgeInv
  <1> QED BY <1>1, BridgeInvInit, BridgeInvStep, PTL DEF TelegramSpec

(* While nothing dies or fails a card with buttons is in the watcher's map, *)
(* being retired, or under a tap in hand (telegram.rs, tapped).             *)
THEOREM CardsAreKept == TelegramSpec => []CardHasAKeeper
  <1>1. BridgeInv => CardHasAKeeper BY DEF BridgeInv
  <1> QED BY <1>1, BridgeInvInit, BridgeInvStep, PTL DEF TelegramSpec

-----------------------------------------------------------------------------
(* The sign-in to a remote server.                                         *)

(* The records of the two files, of the memory and of an operation.        *)
Grants   == [binding : Nat, token : Nat, consent : Nat]
Pendings == [epoch : Nat, binding : Nat, consent : Nat]
AnySetup == [app : Apps \union {0}, binding : Nat, discovered : BOOLEAN]
Places   == {"none", "discover", "exchange", "recheck", "refresh"}

(* The types without the bounds, and every stamp one that was drawn.       *)
OAuthTypes ==
    /\ setupFile \in AnySetup /\ setupFile.binding <= oauthActs
    /\ grantFile \in Grants /\ grantFile.binding <= oauthActs
    /\ memory \in [epoch : Nat, blocked : BOOLEAN, pending : Pendings]
    /\ operation \in [at : Places, epoch : Nat, setup : AnySetup, token : Nat, consent : Nat]
    /\ operation.setup.binding <= oauthActs
    /\ consent \in Nat /\ oauthActs \in Nat
    /\ spent \subseteq 1 .. issued /\ issued \in Nat
    /\ grantFile.token <= issued /\ operation.token <= issued

LEMMA SetupRecord ==
    ASSUME NEW app \in Apps \union {0}, NEW binding \in Nat, NEW discovered \in BOOLEAN
    PROVE  [app |-> app, binding |-> binding, discovered |-> discovered] \in AnySetup
  BY DEF AnySetup

(* What invalidates: the setup is kept or gets a binding never drawn       *)
(* before, the grant is kept or removed.                                   *)
Invalidates ==
    /\ memory' = Invalidated
    /\ oauthActs' = oauthActs + 1 /\ UNCHANGED <<spent, issued>>
    /\ setupFile' \in AnySetup
    /\ setupFile'.binding \in {setupFile.binding, oauthActs + 1}
    /\ grantFile' \in {grantFile, NoGrant}
    /\ grantFile' = NoGrant \/ consent' = consent
    /\ consent' \in {consent, oauthActs + 1}

LEMMA OwnerInvalidates ==
    ASSUME OAuthTypes, (\E app \in Apps : SaveSetup(app)) \/ Disconnect \/ BeginSignIn
    PROVE  /\ Invalidates
           /\ \/ operation' = operation
              \/ /\ BeginSignIn /\ consent' = oauthActs + 1
                 /\ operation' = [at |-> "discover", epoch |-> memory.epoch + 1,
                                  setup |-> setupFile, token |-> NoToken,
                                  consent |-> oauthActs + 1]
  <1>0. setupFile \in AnySetup /\ oauthActs \in Nat BY DEF OAuthTypes
  <1>1. ASSUME NEW app \in Apps, SaveSetup(app) PROVE Invalidates /\ operation' = operation
    <2>1. PICK saved \in SetOutcomes, removed \in RemoveOutcomes :
            /\ setupFile' = Written(saved, setupFile,
                              [app |-> app, binding |-> oauthActs + 1, discovered |-> FALSE])
            /\ grantFile' = Written(removed, grantFile, NoGrant)
            /\ consent' = IF saved = "ok" /\ removed = "ok" THEN oauthActs + 1 ELSE consent
      BY <1>1 DEF SaveSetup
    <2> DEFINE new == [app |-> app, binding |-> oauthActs + 1, discovered |-> FALSE]
    <2>a. oauthActs + 1 \in Nat /\ app \in Apps \union {0} /\ FALSE \in BOOLEAN BY <1>0
    <2>b. new \in AnySetup BY <2>a, SetupRecord
    <2>2. new \in AnySetup /\ new.binding = oauthActs + 1 BY <2>b
    <2> HIDE DEF new
    <2>3. setupFile' \in AnySetup /\ setupFile'.binding \in {setupFile.binding, oauthActs + 1}
      <3>1. setupFile' \in {setupFile, new} BY <2>1 DEF Written, new
      <3> QED BY <1>0, <2>2, <3>1
    <2>4. /\ grantFile' \in {grantFile, NoGrant} /\ consent' \in {consent, oauthActs + 1}
          /\ grantFile' = NoGrant \/ consent' = consent
      BY <2>1 DEF Written
    <2> QED BY <1>1, <2>3, <2>4 DEF SaveSetup, OwnersAct, Invalidates
  <1>2. CASE Disconnect
    <2>1. PICK changed \in SetOutcomes, removed \in RemoveOutcomes :
            /\ setupFile' = Written(changed, setupFile,
                              [setupFile EXCEPT !.binding = oauthActs + 1])
            /\ grantFile' = Written(removed, grantFile, NoGrant)
            /\ consent' = IF changed = "ok" /\ removed = "ok" THEN oauthActs + 1 ELSE consent
      BY <1>2 DEF Disconnect
    <2>2. /\ [setupFile EXCEPT !.binding = oauthActs + 1] \in AnySetup
          /\ [setupFile EXCEPT !.binding = oauthActs + 1].binding = oauthActs + 1
      BY <1>0 DEF AnySetup
    <2>3. setupFile' \in AnySetup /\ setupFile'.binding \in {setupFile.binding, oauthActs + 1}
      BY <1>0, <2>1, <2>2 DEF Written
    <2>4. /\ grantFile' \in {grantFile, NoGrant} /\ consent' \in {consent, oauthActs + 1}
          /\ grantFile' = NoGrant \/ consent' = consent
      BY <2>1 DEF Written
    <2> QED BY <1>2, <2>3, <2>4 DEF Disconnect, OwnersAct, Invalidates
  <1>3. CASE BeginSignIn
    <2>1. /\ setupFile' = setupFile /\ memory' = Invalidated /\ oauthActs' = oauthActs + 1
          /\ UNCHANGED <<spent, issued>>
      BY <1>3 DEF BeginSignIn, OwnersAct
    <2>2. memory'.epoch = memory.epoch + 1 BY <2>1 DEF Invalidated
    <2>3. PICK removed \in RemoveOutcomes :
            /\ grantFile' = Written(removed, grantFile, NoGrant)
            /\ IF removed = "ok"
                 THEN /\ consent' = oauthActs + 1
                      /\ operation' = [at |-> "discover", epoch |-> memory'.epoch,
                                       setup |-> setupFile, token |-> NoToken,
                                       consent |-> oauthActs + 1]
                 ELSE UNCHANGED <<consent, operation>>
      BY <1>3 DEF BeginSignIn
    <2>4. CASE removed = "ok"
      BY <1>0, <1>3, <2>1, <2>2, <2>3, <2>4 DEF Written, Invalidates
    <2>5. CASE removed = "lost"
      BY <1>0, <2>1, <2>3, <2>5 DEF Written, Invalidates
    <2> QED BY <2>4, <2>5 DEF RemoveOutcomes
  <1> QED BY <1>1, <1>2, <1>3

(* What StoreGrant does: it leaves the grant, or replaces it with one of   *)
(* an operation that is still current.                                     *)
LEMMA Stores ==
    ASSUME NEW token \in Nat, OAuthTypes, StoreGrant(token)
    PROVE  /\ operation' = NoOperation /\ UNCHANGED <<setupFile, consent, oauthActs>>
           /\ memory' \in {memory, [memory EXCEPT !.blocked = FALSE]}
           /\ \/ grantFile' = grantFile
              \/ /\ StillCurrent(operation.epoch, operation.setup)
                 /\ grantFile' = [binding |-> operation.setup.binding, token |-> token,
                                  consent |-> operation.consent]
  <1>1. operation' = NoOperation /\ UNCHANGED <<setupFile, consent, oauthActs>> BY DEF StoreGrant
  <1>2. CASE StillCurrent(operation.epoch, operation.setup)
    <2>1. PICK saved \in SetOutcomes :
            /\ grantFile' = Written(saved, grantFile,
                              [binding |-> operation.setup.binding, token |-> token,
                               consent |-> operation.consent])
            /\ memory' = IF saved = "ok" THEN [memory EXCEPT !.blocked = FALSE] ELSE memory
      BY <1>2 DEF StoreGrant
    <2> QED BY <1>1, <1>2, <2>1 DEF Written
  <1>3. CASE ~StillCurrent(operation.epoch, operation.setup) BY <1>1, <1>3 DEF StoreGrant
  <1> QED BY <1>2, <1>3

-----------------------------------------------------------------------------
(* A grant in the file of the binding that is saved is of the newest       *)
(* consent and unspent, blocked or not.  An operation that is still at the *)
(* epoch of the memory works for the newest consent, and while a refresh   *)
(* is under way there is no file.                                          *)

FileLive ==
    grantFile # NoGrant /\ grantFile.binding = setupFile.binding =>
        grantFile.consent = consent /\ grantFile.token \notin spent

PendingLive ==
    memory.pending # NoPending =>
        memory.pending.epoch = memory.epoch /\ memory.pending.consent = consent

OperationLive ==
    operation.at # "none" =>
        /\ operation.epoch <= memory.epoch
        /\ operation.epoch = memory.epoch => operation.consent = consent
        /\ operation.at \in {"recheck", "refresh"} => grantFile = NoGrant
        /\ operation.at = "recheck" => operation.token # 0

LiveInv == OAuthTypes /\ FileLive /\ PendingLive /\ OperationLive

LEMMA NothingInHand == /\ NoOperation.at = "none" /\ NoOperation.token = 0
              /\ NoOperation.setup.binding = 0 /\ NoGrant.binding = 0 /\ NoGrant.token = 0
              /\ NoGrant \in Grants /\ NoPending \in Pendings /\ NoSetup \in AnySetup
              /\ NoOperation \in [at : Places, epoch : Nat, setup : AnySetup,
                                  token : Nat, consent : Nat]
  BY DEF NoOperation, NoGrant, NoPending, NoSetup, NoToken, Grants, Pendings, AnySetup, Places

LEMMA OwnerStep ==
    ASSUME LiveInv, (\E app \in Apps : SaveSetup(app)) \/ Disconnect \/ BeginSignIn
    PROVE  LiveInv'
  <1>0. OAuthTypes /\ FileLive /\ OperationLive BY DEF LiveInv
  <1>t. /\ setupFile \in AnySetup /\ setupFile.binding <= oauthActs
        /\ grantFile \in Grants /\ grantFile.binding <= oauthActs
        /\ memory.epoch \in Nat /\ oauthActs \in Nat /\ issued \in Nat /\ consent \in Nat
        /\ grantFile.token <= issued /\ grantFile.binding \in Nat
        /\ setupFile.binding \in Nat /\ operation.setup.binding \in Nat
        /\ operation.epoch \in Nat
    BY <1>0 DEF OAuthTypes, AnySetup, Grants
  <1>1. Invalidates BY <1>0, OwnerInvalidates
  <1>2. /\ memory' = [epoch |-> memory.epoch + 1, blocked |-> TRUE, pending |-> NoPending]
        /\ oauthActs' = oauthActs + 1 /\ spent' = spent /\ issued' = issued
        /\ setupFile' \in AnySetup /\ setupFile'.binding \in {setupFile.binding, oauthActs + 1}
        /\ grantFile' \in {grantFile, NoGrant} /\ consent' \in {consent, oauthActs + 1}
        /\ grantFile' = NoGrant \/ consent' = consent
    BY <1>1 DEF Invalidates, Invalidated
  <1>3. memory' \in [epoch : Nat, blocked : BOOLEAN, pending : Pendings]
        /\ memory'.epoch = memory.epoch + 1 /\ memory'.pending = NoPending
    BY <1>t, <1>2, NothingInHand
  <1>4. FileLive' BY <1>0, <1>t, <1>2 DEF FileLive
  <1>5. PendingLive' BY <1>3 DEF PendingLive
  <1>6. /\ setupFile' \in AnySetup /\ setupFile'.binding <= oauthActs'
        /\ grantFile' \in Grants /\ grantFile'.binding <= oauthActs'
        /\ consent' \in Nat /\ oauthActs' \in Nat /\ grantFile'.token <= issued'
    BY <1>t, <1>2, NothingInHand
  <1>7. CASE operation' = operation
    <2>1. OperationLive' BY <1>0, <1>t, <1>2, <1>3, <1>7 DEF OperationLive
    <2>2. operation'.setup.binding <= oauthActs'
      BY <1>0, <1>t, <1>2, <1>7 DEF OAuthTypes
    <2>3. OAuthTypes' BY <1>0, <1>2, <1>3, <1>6, <1>7, <2>2 DEF OAuthTypes
    <2> QED BY <1>4, <1>5, <2>1, <2>3 DEF LiveInv
  <1>8. CASE /\ consent' = oauthActs + 1
             /\ operation' = [at |-> "discover", epoch |-> memory.epoch + 1,
                              setup |-> setupFile, token |-> NoToken,
                              consent |-> oauthActs + 1]
    <2>1. /\ operation' \in [at : Places, epoch : Nat, setup : AnySetup, token : Nat, consent : Nat]
          /\ operation'.setup.binding <= oauthActs' /\ operation'.token <= issued'
      BY <1>t, <1>2, <1>8 DEF Places, NoToken
    <2>2. OperationLive' BY <1>t, <1>3, <1>8 DEF OperationLive
    <2>3. OAuthTypes' BY <1>0, <1>2, <1>3, <1>6, <2>1 DEF OAuthTypes
    <2> QED BY <1>4, <1>5, <2>2, <2>3 DEF LiveInv
  <1> QED BY <1>0, <1>7, <1>8, OwnerInvalidates

LEMMA SignInStep ==
    ASSUME LiveInv, SignInPrepared \/ CallbackArrives
    PROVE  LiveInv'
  <1>0. OAuthTypes /\ FileLive /\ PendingLive /\ OperationLive BY DEF LiveInv
  <1>t. /\ setupFile \in AnySetup /\ operation.setup \in AnySetup /\ operation.at \in Places
        /\ memory \in [epoch : Nat, blocked : BOOLEAN, pending : Pendings]
        /\ memory.epoch \in Nat /\ operation.epoch \in Nat /\ operation.consent \in Nat
        /\ memory.pending \in Pendings /\ setupFile.binding <= oauthActs
    BY <1>0 DEF OAuthTypes
  <1>1. UNCHANGED <<grantFile, consent, spent, issued, oauthActs>>
    BY DEF SignInPrepared, CallbackArrives, fileVars, countVars
  <1>2. CASE SignInPrepared
    <2>1. operation' = NoOperation /\ operation.at = "discover" BY <1>2 DEF SignInPrepared
    <2>2. OperationLive' BY <2>1, NothingInHand DEF OperationLive
    <2>3. CASE UNCHANGED <<setupFile, memory>>
      BY <1>0, <1>1, <2>1, <2>2, <2>3, NothingInHand
         DEF LiveInv, OAuthTypes, FileLive, PendingLive
    <2>4. ASSUME StillCurrent(operation.epoch, operation.setup),
                 NEW saved \in SetOutcomes,
                 setupFile' = Written(saved, setupFile,
                                [operation.setup EXCEPT !.discovered = TRUE]),
                 memory' = IF saved # "ok" THEN memory
                           ELSE [memory EXCEPT !.pending =
                                   [epoch |-> operation.epoch, consent |-> operation.consent,
                                    binding |-> operation.setup.binding]]
          PROVE  LiveInv'
      <3> DEFINE new == [operation.setup EXCEPT !.discovered = TRUE]
                 pending == [epoch |-> operation.epoch, consent |-> operation.consent,
                             binding |-> operation.setup.binding]
      <3>1. new \in AnySetup /\ new.binding = operation.setup.binding BY <1>t DEF AnySetup
      <3>2. pending \in Pendings /\ pending.epoch = operation.epoch
            /\ pending.consent = operation.consent
        BY <1>t DEF AnySetup, Pendings
      <3>3. setupFile' \in {setupFile, new} BY <2>4 DEF Written
      <3>4. memory' = memory \/ memory' = [memory EXCEPT !.pending = pending] BY <2>4
      <3> HIDE DEF new, pending
      <3>5. memory.epoch = operation.epoch /\ setupFile.binding = operation.setup.binding
        BY <2>4 DEF StillCurrent
      <3>6. setupFile' \in AnySetup /\ setupFile'.binding = setupFile.binding
        BY <1>t, <3>1, <3>3, <3>5
      <3>7. /\ memory' \in [epoch : Nat, blocked : BOOLEAN, pending : Pendings]
            /\ memory'.epoch = memory.epoch
            /\ memory'.pending = memory.pending \/ memory'.pending = pending
        BY <1>t, <3>2, <3>4
      <3>8. operation.consent = consent BY <1>0, <2>1, <3>5 DEF OperationLive
      <3>9. PendingLive' BY <1>0, <1>1, <3>2, <3>5, <3>7, <3>8 DEF PendingLive
      <3>10. FileLive' BY <1>0, <1>1, <3>6 DEF FileLive
      <3>11. OAuthTypes' BY <1>0, <1>1, <2>1, <3>6, <3>7, NothingInHand DEF OAuthTypes
      <3> QED BY <2>2, <3>9, <3>10, <3>11 DEF LiveInv
    <2> QED BY <1>2, <2>3, <2>4 DEF SignInPrepared
  <1>3. CASE CallbackArrives
    <2>1. /\ setupFile' = setupFile /\ memory' = [memory EXCEPT !.pending = NoPending]
          /\ operation.at = "none" /\ memory.pending # NoPending
      BY <1>3 DEF CallbackArrives, fileVars
    <2>2. /\ memory' \in [epoch : Nat, blocked : BOOLEAN, pending : Pendings]
          /\ memory'.epoch = memory.epoch /\ memory'.pending = NoPending
      BY <1>t, <2>1, NothingInHand
    <2>3. CASE operation' = operation
      BY <1>0, <1>1, <2>1, <2>2, <2>3
         DEF LiveInv, OAuthTypes, FileLive, PendingLive, OperationLive
    <2>4. CASE operation' = [at |-> "exchange", epoch |-> memory.pending.epoch,
                             setup |-> setupFile, token |-> NoToken,
                             consent |-> memory.pending.consent]
      <3>1. /\ operation' \in [at : Places, epoch : Nat, setup : AnySetup,
                               token : Nat, consent : Nat]
            /\ operation'.setup = setupFile /\ operation'.token = 0
            /\ operation'.at = "exchange" /\ operation'.epoch = memory.pending.epoch
            /\ operation'.consent = memory.pending.consent
        BY <1>t, <2>4 DEF Places, NoToken, Pendings
      <3>2. OperationLive' BY <1>0, <1>t, <1>1, <2>1, <2>2, <3>1 DEF OperationLive, PendingLive
      <3>3. OAuthTypes' BY <1>0, <1>1, <2>1, <2>2, <3>1 DEF OAuthTypes
      <3> QED BY <1>0, <1>1, <2>1, <2>2, <3>2, <3>3 DEF LiveInv, FileLive, PendingLive
    <2> QED BY <1>3, <2>3, <2>4 DEF CallbackArrives
  <1> QED BY <1>2, <1>3

(* A grant that is stored is of the newest consent, and its token is new,  *)
(* none, or renewed.                                                       *)
LEMMA StoreStep ==
    ASSUME LiveInv, CodeExchanged \/ RefreshAnswered
    PROVE  LiveInv'
  <1>0. OAuthTypes /\ FileLive /\ PendingLive /\ OperationLive BY DEF LiveInv
  <1>t. /\ issued \in Nat /\ spent \subseteq 1 .. issued /\ operation.at # "none"
        /\ operation.token \in Nat /\ operation.token <= issued
        /\ operation.consent \in Nat /\ operation.setup.binding \in Nat
        /\ operation.setup.binding <= oauthActs
        /\ grantFile \in Grants /\ grantFile.token \in Nat /\ grantFile.token <= issued
        /\ memory \in [epoch : Nat, blocked : BOOLEAN, pending : Pendings]
    BY <1>0 DEF OAuthTypes, AnySetup, Grants, CodeExchanged, RefreshAnswered
  <1>1. PICK token \in Nat :
          /\ StoreGrant(token) /\ issued' \in Nat /\ issued <= issued' /\ token <= issued'
          /\ spent' \subseteq spent /\ token \notin spent'
    <2>1. CASE CodeExchanged
      <3>1. CASE StoreGrant(NoToken) /\ issued' = issued
        BY <1>t, <2>1, <3>1 DEF CodeExchanged, NoToken
      <3>2. CASE issued' = issued + 1 /\ StoreGrant(issued')
        BY <1>t, <2>1, <3>2 DEF CodeExchanged
      <3> QED BY <2>1, <3>1, <3>2 DEF CodeExchanged
    <2>2. CASE RefreshAnswered
      <3>1. CASE /\ StoreGrant(operation.token)
                 /\ spent' = spent \ {operation.token} /\ issued' = issued
        BY <1>t, <3>1
      <3>2. CASE issued' = issued + 1 /\ StoreGrant(issued') /\ spent' = spent
        BY <1>t, <3>2
      <3> QED BY <2>2, <3>1, <3>2 DEF RefreshAnswered
    <2> QED BY <2>1, <2>2
  <1>2. /\ operation' = NoOperation /\ UNCHANGED <<setupFile, consent, oauthActs>>
        /\ memory' \in {memory, [memory EXCEPT !.blocked = FALSE]}
        /\ \/ grantFile' = grantFile
           \/ /\ StillCurrent(operation.epoch, operation.setup)
              /\ grantFile' = [binding |-> operation.setup.binding, token |-> token,
                               consent |-> operation.consent]
    BY <1>0, <1>1, Stores
  <1>3. /\ memory' \in [epoch : Nat, blocked : BOOLEAN, pending : Pendings]
        /\ memory'.epoch = memory.epoch /\ memory'.pending = memory.pending
    BY <1>t, <1>2
  <1>4. PendingLive' BY <1>0, <1>2, <1>3 DEF PendingLive
  <1>5. OperationLive' BY <1>2, NothingInHand DEF OperationLive
  <1>6. spent' \subseteq 1 .. issued' BY <1>t, <1>1
  <1>7. CASE grantFile' = grantFile
    <2>1. FileLive' BY <1>0, <1>1, <1>2, <1>7 DEF FileLive
    <2>2. grantFile'.token <= issued' BY <1>t, <1>1, <1>7
    <2>3. OAuthTypes' BY <1>0, <1>1, <1>2, <1>3, <1>6, <1>7, <2>2, NothingInHand DEF OAuthTypes
    <2> QED BY <1>4, <1>5, <2>1, <2>3 DEF LiveInv
  <1>8. CASE /\ StillCurrent(operation.epoch, operation.setup)
             /\ grantFile' = [binding |-> operation.setup.binding, token |-> token,
                              consent |-> operation.consent]
    <2>1. /\ grantFile' \in Grants /\ grantFile'.binding = operation.setup.binding
          /\ grantFile'.token = token /\ grantFile'.consent = operation.consent
      BY <1>t, <1>8 DEF Grants
    <2>2. operation.consent = consent BY <1>0, <1>t, <1>8 DEF OperationLive, StillCurrent
    <2>3. FileLive' BY <1>1, <1>2, <2>1, <2>2 DEF FileLive
    <2>4. OAuthTypes' BY <1>0, <1>t, <1>1, <1>2, <1>3, <1>6, <2>1, NothingInHand DEF OAuthTypes
    <2> QED BY <1>4, <1>5, <2>3, <2>4 DEF LiveInv
  <1> QED BY <1>2, <1>7, <1>8

LEMMA RefreshStep ==
    ASSUME LiveInv, TakeGrant \/ SendRefresh
    PROVE  LiveInv'
  <1>0. OAuthTypes /\ FileLive /\ PendingLive /\ OperationLive BY DEF LiveInv
  <1>1. UNCHANGED <<setupFile, consent, issued, oauthActs>>
    BY DEF TakeGrant, SendRefresh, fileVars, countVars
  <1>2. CASE TakeGrant
    <2>t. /\ grantFile \in Grants /\ setupFile \in AnySetup /\ memory.epoch \in Nat
          /\ memory \in [epoch : Nat, blocked : BOOLEAN, pending : Pendings]
          /\ setupFile.binding <= oauthActs /\ grantFile.token <= issued /\ issued \in Nat
          /\ grantFile.token \in Nat /\ grantFile.consent \in Nat /\ oauthActs \in Nat
      BY <1>0 DEF OAuthTypes, Grants
    <2>1. /\ memory' = [memory EXCEPT !.blocked = TRUE] /\ spent' = spent
          /\ operation.at = "none" /\ grantFile.consent = consent /\ grantFile.token # 0
      BY <1>0, <1>2 DEF TakeGrant, Usable, FileLive, NoToken
    <2>2. /\ memory' \in [epoch : Nat, blocked : BOOLEAN, pending : Pendings]
          /\ memory'.epoch = memory.epoch /\ memory'.pending = memory.pending
      BY <2>t, <2>1
    <2>3. PendingLive' BY <1>0, <1>1, <2>2 DEF PendingLive
    <2>4. CASE grantFile' = grantFile /\ operation' = operation
      BY <1>0, <1>1, <2>1, <2>2, <2>3, <2>4 DEF LiveInv, OAuthTypes, FileLive, OperationLive
    <2>5. CASE /\ grantFile' = NoGrant
               /\ operation' = [at |-> "recheck", epoch |-> memory.epoch, setup |-> setupFile,
                                token |-> grantFile.token, consent |-> grantFile.consent]
      <3>1. /\ operation' \in [at : Places, epoch : Nat, setup : AnySetup,
                               token : Nat, consent : Nat]
            /\ operation'.setup = setupFile /\ operation'.token = grantFile.token
            /\ operation'.epoch = memory.epoch /\ operation'.consent = grantFile.consent
        BY <2>t, <2>5 DEF Places
      <3>2. OperationLive' BY <1>1, <2>t, <2>1, <2>2, <2>5, <3>1 DEF OperationLive
      <3>3. FileLive' BY <2>5 DEF FileLive
      <3>4. NoGrant \in Grants /\ NoGrant.binding = 0 /\ NoGrant.token = 0 BY NothingInHand
      <3>5. OAuthTypes' BY <1>0, <1>1, <2>t, <2>1, <2>2, <2>5, <3>1, <3>4 DEF OAuthTypes
      <3> QED BY <2>3, <3>2, <3>3, <3>5 DEF LiveInv
    <2>6. PICK removed \in RemoveOutcomes :
            /\ grantFile' = Written(removed, grantFile, NoGrant)
            /\ operation' = IF removed # "ok" THEN operation
                            ELSE [at |-> "recheck", epoch |-> memory.epoch, setup |-> setupFile,
                                  token |-> grantFile.token, consent |-> grantFile.consent]
      BY <1>2 DEF TakeGrant
    <2> QED BY <2>4, <2>5, <2>6 DEF RemoveOutcomes, Written
  <1>3. CASE SendRefresh
    <2>1. /\ UNCHANGED <<grantFile, memory>> /\ operation.at = "recheck"
          /\ operation' = [operation EXCEPT !.at = "refresh"]
          /\ spent' = spent \union {operation.token}
      BY <1>3 DEF SendRefresh, fileVars
    <2>2. operation \in [at : Places, epoch : Nat, setup : AnySetup, token : Nat, consent : Nat]
      BY <1>0 DEF OAuthTypes
    <2>3. /\ operation' \in [at : Places, epoch : Nat, setup : AnySetup,
                             token : Nat, consent : Nat]
          /\ operation'.setup = operation.setup /\ operation'.token = operation.token
          /\ operation'.epoch = operation.epoch /\ operation'.consent = operation.consent
      BY <2>1, <2>2 DEF Places
    <2>4. grantFile = NoGrant BY <1>0, <2>1 DEF OperationLive
    <2>5. FileLive' BY <2>1, <2>4 DEF FileLive
    <2>6. OperationLive' BY <1>0, <1>1, <2>1, <2>3, <2>4 DEF OperationLive
    <2>7. PendingLive' BY <1>0, <1>1, <2>1 DEF PendingLive
    <2>8. operation.token \in 1 .. issued /\ spent \subseteq 1 .. issued
      BY <1>0, <2>1, <2>2 DEF OAuthTypes, OperationLive
    <2>9. OAuthTypes' BY <1>0, <1>1, <2>1, <2>3, <2>8 DEF OAuthTypes
    <2> QED BY <2>5, <2>6, <2>7, <2>9 DEF LiveInv
  <1> QED BY <1>2, <1>3

(* Nothing an operation leaves behind when it fails, and nothing a restart *)
(* forgets, makes a grant usable that was not: both leave the files alone. *)
LEMMA LossStep ==
    ASSUME LiveInv, OperationFails \/ AccountRestarts \/ UNCHANGED oauthVars
    PROVE  LiveInv'
  <1>0. OAuthTypes /\ FileLive /\ PendingLive /\ OperationLive BY DEF LiveInv
  <1>1. UNCHANGED <<setupFile, grantFile, consent, spent, issued, oauthActs>>
    BY DEF OperationFails, AccountRestarts, oauthVars, fileVars, countVars
  <1>2. FileLive' BY <1>0, <1>1 DEF FileLive
  <1>3. CASE UNCHANGED <<memory, operation>>
    BY <1>0, <1>1, <1>2, <1>3 DEF LiveInv, OAuthTypes, PendingLive, OperationLive
  <1>4. CASE memory' = memory /\ operation' = NoOperation
    <2>1. PendingLive' BY <1>0, <1>1, <1>4 DEF PendingLive
    <2>2. OperationLive' BY <1>4, NothingInHand DEF OperationLive
    <2>3. OAuthTypes' BY <1>0, <1>1, <1>4, NothingInHand DEF OAuthTypes
    <2> QED BY <1>2, <2>1, <2>2, <2>3 DEF LiveInv
  <1>5. CASE memory' = FreshMemory /\ operation' = NoOperation
    <2>0. /\ FreshMemory \in [epoch : Nat, blocked : BOOLEAN, pending : Pendings]
          /\ FreshMemory.pending = NoPending
      BY NothingInHand DEF FreshMemory
    <2>1. PendingLive' BY <1>5, <2>0 DEF PendingLive
    <2>2. OperationLive' BY <1>5, NothingInHand DEF OperationLive
    <2>3. OAuthTypes' BY <1>0, <1>1, <1>5, <2>0, NothingInHand DEF OAuthTypes
    <2> QED BY <1>2, <2>1, <2>2, <2>3 DEF LiveInv
  <1> QED BY <1>3, <1>4, <1>5 DEF OperationFails, AccountRestarts, oauthVars

LEMMA LiveInitially == OAuthInit => LiveInv
  <1> SUFFICES ASSUME OAuthInit PROVE LiveInv OBVIOUS
  <1>1. /\ setupFile = NoSetup /\ grantFile = NoGrant /\ memory = FreshMemory
        /\ operation = NoOperation /\ consent = 0 /\ spent = {} /\ issued = 0
        /\ oauthActs = 0
    BY DEF OAuthInit
  <1>2. /\ FreshMemory \in [epoch : Nat, blocked : BOOLEAN, pending : Pendings]
        /\ FreshMemory.pending = NoPending
    BY NothingInHand DEF FreshMemory
  <1>3. NoSetup.binding = 0 BY DEF NoSetup
  <1>4. OAuthTypes BY <1>1, <1>2, <1>3, NothingInHand DEF OAuthTypes
  <1>5. FileLive /\ PendingLive /\ OperationLive
    BY <1>1, <1>2, NothingInHand DEF FileLive, PendingLive, OperationLive
  <1> QED BY <1>4, <1>5 DEF LiveInv

LEMMA LiveStep == LiveInv /\ [OAuthNext]_oauthVars => LiveInv'
  <1> SUFFICES ASSUME LiveInv, [OAuthNext]_oauthVars PROVE LiveInv' OBVIOUS
  <1>1. CASE (\E app \in Apps : SaveSetup(app)) \/ Disconnect \/ BeginSignIn
    BY <1>1, OwnerStep
  <1>2. CASE SignInPrepared \/ CallbackArrives BY <1>2, SignInStep
  <1>3. CASE CodeExchanged \/ RefreshAnswered BY <1>3, StoreStep
  <1>4. CASE TakeGrant \/ SendRefresh BY <1>4, RefreshStep
  <1>5. CASE OperationFails \/ AccountRestarts \/ UNCHANGED oauthVars BY <1>5, LossStep
  <1> QED BY <1>1, <1>2, <1>3, <1>4, <1>5 DEF OAuthNext

LEMMA LiveHolds == OAuthSpec => []LiveInv
  BY LiveInitially, LiveStep, PTL DEF OAuthSpec

(* A grant access_token would use is of the newest consent and its refresh *)
(* token was never sent without an answer, for any number of apps, acts,   *)
(* tokens, failed writes and deaths.                                       *)
THEOREM GrantsAreLive == OAuthSpec => []UsableGrantIsLive
  <1>1. LiveInv => UsableGrantIsLive BY DEF LiveInv, FileLive, UsableGrantIsLive, Usable
  <1> QED BY <1>1, LiveHolds, PTL

(* Every stamp in use was drawn by one of the owner's acts, and the counts *)
(* are within their bounds.                                                *)
Counted ==
    /\ oauthActs <= MaxOAuthActs /\ issued <= MaxTokens
    /\ writeFaults \in 0 .. MaxWriteFaults /\ restarts \in 0 .. MaxRestarts

(* The stamps of a pending sign-in.                                        *)
Drawn(pending) ==
    pending.epoch <= oauthActs /\ pending.binding <= oauthActs /\ pending.consent <= oauthActs

(* Every stamp in a file, in memory or in an operation is one of the acts  *)
(* there were, so that the bound on acts bounds them all.                  *)
StampInv ==
    /\ Counted
    /\ consent <= oauthActs /\ grantFile.consent <= oauthActs
    /\ memory.epoch <= oauthActs /\ Drawn(memory.pending)
    /\ operation.epoch <= oauthActs /\ operation.consent <= oauthActs

LEMMA FaultsCounted ==
    ASSUME writeFaults \in 0 .. MaxWriteFaults, NEW a, NEW b, Faults(a, b)
    PROVE  writeFaults' \in 0 .. MaxWriteFaults
  <1>1. writeFaults \in Nat /\ MaxWriteFaults \in Nat BY OAuthAssumption
  <1> DEFINE x == IF a = "ok" THEN 0 ELSE 1
             y == IF b = "ok" THEN 0 ELSE 1
  <1>2. x \in Nat /\ y \in Nat OBVIOUS
  <1>3. writeFaults' = writeFaults + x + y /\ writeFaults' <= MaxWriteFaults BY DEF Faults
  <1> HIDE DEF x, y
  <1> QED BY <1>1, <1>2, <1>3

LEMMA CountedStep ==
    ASSUME LiveInv, Counted, [OAuthNext]_oauthVars
    PROVE  Counted'
  <1>1. oauthActs \in Nat /\ issued \in Nat /\ MaxOAuthActs \in Nat /\ MaxTokens \in Nat
        /\ MaxRestarts \in Nat /\ MaxWriteFaults \in Nat
    BY OAuthAssumption DEF LiveInv, OAuthTypes
  <1>2. CASE OwnersAct /\ (\E a \in SetOutcomes, b \in RemoveOutcomes : Faults(a, b))
    <2>1. writeFaults' \in 0 .. MaxWriteFaults BY <1>2, FaultsCounted DEF Counted
    <2> QED BY <1>1, <1>2, <2>1 DEF Counted, OwnersAct
  <1>3. CASE (\E app \in Apps : SaveSetup(app)) \/ Disconnect \/ BeginSignIn
    <2>1. "ok" \in SetOutcomes BY DEF SetOutcomes
    <2> QED BY <1>2, <1>3, <2>1 DEF SaveSetup, Disconnect, BeginSignIn
  <1>4. CASE /\ UNCHANGED <<oauthActs, restarts>> /\ issued' \in {issued, issued + 1}
             /\ issued' = issued \/ issued < MaxTokens
             /\ writeFaults' = writeFaults \/ (\E a \in SetOutcomes, b \in RemoveOutcomes : Faults(a, b))
    <2>1. writeFaults' \in 0 .. MaxWriteFaults BY <1>4, FaultsCounted DEF Counted
    <2> QED BY <1>1, <1>4, <2>1 DEF Counted
  <1>5. "ok" \in SetOutcomes /\ "ok" \in RemoveOutcomes BY DEF SetOutcomes, RemoveOutcomes
  <1>6. ASSUME NEW token, StoreGrant(token)
        PROVE  /\ UNCHANGED <<oauthActs, restarts>>
               /\ writeFaults' = writeFaults \/ (\E a \in SetOutcomes, b \in RemoveOutcomes : Faults(a, b))
    BY <1>5, <1>6 DEF StoreGrant
  <1>7. CASE CodeExchanged \/ RefreshAnswered
    BY <1>4, <1>6, <1>7 DEF CodeExchanged, RefreshAnswered
  <1>8. CASE SignInPrepared
    <2>1. UNCHANGED <<oauthActs, restarts, issued>> BY <1>8 DEF SignInPrepared
    <2>2. writeFaults' = writeFaults \/ (\E a \in SetOutcomes, b \in RemoveOutcomes : Faults(a, b))
      BY <1>5, <1>8 DEF SignInPrepared
    <2> QED BY <1>4, <2>1, <2>2
  <1>9. CASE TakeGrant
    <2>1. UNCHANGED <<oauthActs, restarts, issued>> BY <1>9 DEF TakeGrant
    <2>2. \E a \in SetOutcomes, b \in RemoveOutcomes : Faults(a, b) BY <1>5, <1>9 DEF TakeGrant
    <2> QED BY <1>4, <2>1, <2>2
  <1>10. CASE CallbackArrives \/ SendRefresh \/ OperationFails \/ UNCHANGED oauthVars
    BY <1>4, <1>10 DEF CallbackArrives, SendRefresh, OperationFails, oauthVars, countVars
  <1>11. CASE AccountRestarts BY <1>1, <1>11 DEF AccountRestarts, Counted
  <1> QED BY <1>3, <1>7, <1>8, <1>9, <1>10, <1>11 DEF OAuthNext

LEMMA StampStep ==
    ASSUME LiveInv, StampInv, [OAuthNext]_oauthVars
    PROVE  StampInv'
  <1>0. Counted' BY CountedStep DEF StampInv
  <1>t. OAuthTypes BY DEF LiveInv
  <1>1. /\ oauthActs \in Nat /\ consent \in Nat /\ grantFile \in Grants /\ grantFile.consent \in Nat
        /\ memory \in [epoch : Nat, blocked : BOOLEAN, pending : Pendings] /\ memory.epoch \in Nat
        /\ memory.pending.epoch \in Nat /\ memory.pending.binding \in Nat /\ memory.pending.consent \in Nat
        /\ operation \in [at : Places, epoch : Nat, setup : AnySetup, token : Nat, consent : Nat]
        /\ operation.epoch \in Nat /\ operation.consent \in Nat
        /\ operation.setup.binding <= oauthActs /\ operation.setup.binding \in Nat
    BY <1>t DEF OAuthTypes, Grants, Pendings, AnySetup
  <1>2. /\ consent <= oauthActs /\ grantFile.consent <= oauthActs
        /\ memory.epoch <= oauthActs /\ Drawn(memory.pending)
        /\ operation.epoch <= oauthActs /\ operation.consent <= oauthActs
    BY DEF StampInv
  <1>3. /\ NoGrant.consent = 0 /\ NoOperation.epoch = 0 /\ NoOperation.consent = 0
        /\ NoPending.epoch = 0 /\ NoPending.binding = 0 /\ NoPending.consent = 0
        /\ FreshMemory.epoch = 0 /\ FreshMemory.pending = NoPending
    BY DEF NoGrant, NoOperation, NoPending, FreshMemory
  <1>4. oauthActs' = oauthActs => 0 <= oauthActs' BY <1>1
  <1>5. oauthActs' = oauthActs => (Drawn(NoPending)' /\ NoOperation.epoch <= oauthActs' /\ NoOperation.consent <= oauthActs')
    BY <1>3, <1>4 DEF Drawn
  <1>6. CASE (\E app \in Apps : SaveSetup(app)) \/ Disconnect \/ BeginSignIn
    <2>1. /\ memory' = Invalidated /\ oauthActs' = oauthActs + 1
          /\ grantFile' \in {grantFile, NoGrant} /\ consent' \in {consent, oauthActs + 1}
      BY <1>t, <1>6, OwnerInvalidates DEF Invalidates
    <2>2. memory'.epoch = memory.epoch + 1 /\ memory'.pending = NoPending BY <2>1 DEF Invalidated
    <2>3. /\ consent' <= oauthActs' /\ grantFile'.consent <= oauthActs' /\ memory'.epoch <= oauthActs'
      BY <1>1, <1>2, <1>3, <2>1, <2>2
    <2>4. Drawn(memory.pending)' BY <1>1, <1>3, <2>1, <2>2 DEF Drawn
    <2>5. operation'.epoch <= oauthActs' /\ operation'.consent <= oauthActs'
      <3>1. CASE operation' = operation BY <1>1, <1>2, <2>1, <3>1
      <3>2. CASE operation' = [at |-> "discover", epoch |-> memory.epoch + 1, setup |-> setupFile,
                               token |-> NoToken, consent |-> oauthActs + 1]
        <4>1. operation'.epoch = memory.epoch + 1 /\ operation'.consent = oauthActs + 1 BY <3>2
        <4> QED BY <1>1, <1>2, <2>1, <4>1
      <3> QED BY <1>t, <1>6, <3>1, <3>2, OwnerInvalidates
    <2> QED BY <1>0, <2>3, <2>4, <2>5 DEF StampInv
  <1>7. CASE SignInPrepared
    <2>1. operation' = NoOperation /\ UNCHANGED <<grantFile, consent, oauthActs>> BY <1>7 DEF SignInPrepared
    <2>a. PICK p : p = [epoch |-> operation.epoch, consent |-> operation.consent,
                        binding |-> operation.setup.binding]
      OBVIOUS
    <2>2. memory' = memory \/ memory' = [memory EXCEPT !.pending = p]
      BY <1>7, <2>a DEF SignInPrepared
    <2>3. p.epoch = operation.epoch /\ p.consent = operation.consent /\ p.binding = operation.setup.binding
      BY <2>a
    <2>4. memory'.epoch = memory.epoch /\ memory'.pending \in {memory.pending, p} BY <1>1, <2>2
    <2>5. Drawn(p)' BY <1>1, <1>2, <2>1, <2>3 DEF Drawn
    <2>6. Drawn(memory.pending)' BY <1>2, <2>1, <2>4, <2>5 DEF Drawn
    <2> QED BY <1>0, <1>2, <1>5, <2>1, <2>4, <2>6 DEF StampInv
  <1>8. CASE CallbackArrives
    <2>1. memory' = [memory EXCEPT !.pending = NoPending] /\ UNCHANGED <<grantFile, consent, oauthActs>>
      BY <1>8 DEF CallbackArrives, fileVars, countVars
    <2>2. memory'.epoch = memory.epoch /\ memory'.pending = NoPending BY <1>1, <2>1
    <2>3. Drawn(memory.pending)' BY <1>5, <2>1, <2>2 DEF Drawn
    <2>4. operation'.epoch <= oauthActs' /\ operation'.consent <= oauthActs'
      <3>1. CASE operation' = operation BY <1>2, <2>1, <3>1
      <3>2. CASE operation' = [at |-> "exchange", epoch |-> memory.pending.epoch, setup |-> setupFile,
                               token |-> NoToken, consent |-> memory.pending.consent]
        <4>1. operation'.epoch = memory.pending.epoch /\ operation'.consent = memory.pending.consent BY <3>2
        <4> QED BY <1>2, <2>1, <4>1 DEF Drawn
      <3> QED BY <1>8, <3>1, <3>2 DEF CallbackArrives
    <2> QED BY <1>0, <1>2, <2>1, <2>2, <2>3, <2>4 DEF StampInv
  <1>9. CASE CodeExchanged \/ RefreshAnswered
    <2>1. PICK token : StoreGrant(token) BY <1>9 DEF CodeExchanged, RefreshAnswered
    <2>2. operation' = NoOperation /\ UNCHANGED <<consent, oauthActs>> BY <2>1 DEF StoreGrant
    <2>3. memory' = memory \/ memory' = [memory EXCEPT !.blocked = FALSE] BY <2>1 DEF StoreGrant
    <2>4. memory'.epoch = memory.epoch /\ memory'.pending = memory.pending BY <1>1, <2>3
    <2>5. grantFile'.consent <= oauthActs'
      <3> DEFINE g == [binding |-> operation.setup.binding, token |-> token, consent |-> operation.consent]
      <3>1. grantFile' = grantFile \/ grantFile' = g BY <2>1 DEF StoreGrant, Written
      <3>2. g.consent = operation.consent OBVIOUS
      <3> HIDE DEF g
      <3> QED BY <1>2, <2>2, <3>1, <3>2
    <2>6. Drawn(memory.pending)' BY <1>2, <2>2, <2>4 DEF Drawn
    <2> QED BY <1>0, <1>2, <1>5, <2>2, <2>4, <2>5, <2>6 DEF StampInv
  <1>10. CASE TakeGrant
    <2>1. memory' = [memory EXCEPT !.blocked = TRUE] /\ UNCHANGED <<consent, oauthActs>> BY <1>10 DEF TakeGrant
    <2>2. memory'.epoch = memory.epoch /\ memory'.pending = memory.pending BY <1>1, <2>1
    <2> DEFINE o == [at |-> "recheck", epoch |-> memory.epoch, setup |-> setupFile,
                     token |-> grantFile.token, consent |-> grantFile.consent]
    <2>3. grantFile' \in {grantFile, NoGrant} /\ operation' \in {operation, o} BY <1>10 DEF TakeGrant, Written
    <2>4. o.epoch = memory.epoch /\ o.consent = grantFile.consent OBVIOUS
    <2> HIDE DEF o
    <2>5. Drawn(memory.pending)' BY <1>2, <2>1, <2>2 DEF Drawn
    <2>6. grantFile'.consent <= oauthActs' BY <1>2, <1>3, <1>4, <2>1, <2>3
    <2>7. operation'.epoch <= oauthActs' /\ operation'.consent <= oauthActs' BY <1>2, <2>1, <2>3, <2>4
    <2> QED BY <1>0, <1>2, <2>1, <2>2, <2>5, <2>6, <2>7 DEF StampInv
  <1>11. CASE SendRefresh
    <2>1. UNCHANGED <<grantFile, memory, consent, oauthActs>> /\ operation' = [operation EXCEPT !.at = "refresh"]
      BY <1>11 DEF SendRefresh, fileVars, countVars
    <2>2. operation'.epoch = operation.epoch /\ operation'.consent = operation.consent BY <1>1, <2>1
    <2> QED BY <1>0, <1>2, <2>1, <2>2 DEF StampInv, Drawn
  <1>12. CASE OperationFails
    <2>1. UNCHANGED <<grantFile, memory, consent, oauthActs>> /\ operation' = NoOperation
      BY <1>12 DEF OperationFails, fileVars, countVars
    <2> QED BY <1>0, <1>2, <1>5, <2>1 DEF StampInv, Drawn
  <1>13. CASE AccountRestarts
    <2>1. UNCHANGED <<grantFile, consent, oauthActs>> /\ operation' = NoOperation /\ memory' = FreshMemory
      BY <1>13 DEF AccountRestarts, fileVars
    <2>2. memory'.epoch <= oauthActs' /\ Drawn(memory.pending)' BY <1>3, <1>4, <1>5, <2>1 DEF Drawn
    <2> QED BY <1>0, <1>2, <1>5, <2>1, <2>2 DEF StampInv
  <1>14. CASE UNCHANGED oauthVars
    <2>1. UNCHANGED <<grantFile, memory, consent, oauthActs, operation>> BY <1>14 DEF oauthVars
    <2> QED BY <1>0, <1>2, <2>1 DEF StampInv, Drawn
  <1> QED BY <1>6, <1>7, <1>8, <1>9, <1>10, <1>11, <1>12, <1>13, <1>14 DEF OAuthNext

LEMMA StampInit == OAuthInit => StampInv
  <1> SUFFICES ASSUME OAuthInit PROVE StampInv OBVIOUS
  <1>1. /\ NoGrant.consent = 0 /\ NoOperation.epoch = 0 /\ NoOperation.consent = 0
        /\ NoPending.epoch = 0 /\ NoPending.binding = 0 /\ NoPending.consent = 0
        /\ FreshMemory.epoch = 0 /\ FreshMemory.pending = NoPending
    BY DEF NoGrant, NoOperation, NoPending, FreshMemory
  <1>2. /\ grantFile = NoGrant /\ memory = FreshMemory /\ operation = NoOperation
        /\ consent = 0 /\ issued = 0 /\ oauthActs = 0 /\ writeFaults = 0 /\ restarts = 0
    BY DEF OAuthInit
  <1> QED BY <1>1, <1>2, OAuthAssumption DEF StampInv, Counted, Drawn

LEMMA StampTypes == LiveInv /\ StampInv => OAuthTypeOK
  <1> SUFFICES ASSUME LiveInv, StampInv PROVE OAuthTypeOK OBVIOUS
  <1>1. OAuthTypes /\ Counted BY DEF LiveInv, StampInv
  <1>2. oauthActs \in Nat /\ MaxOAuthActs \in Nat /\ oauthActs <= MaxOAuthActs
        /\ issued \in Nat /\ MaxTokens \in Nat /\ issued <= MaxTokens
    BY <1>1, OAuthAssumption DEF OAuthTypes, Counted
  <1>3. ASSUME NEW n \in Nat, n <= oauthActs PROVE n \in Stamps BY <1>2, <1>3 DEF Stamps
  <1>4. ASSUME NEW n \in Nat, n <= issued PROVE n \in 0 .. MaxTokens BY <1>2, <1>4
  <1>5. ASSUME NEW s \in AnySetup, s.binding <= oauthActs PROVE s \in Setups
    <2>1. s.binding \in Stamps BY <1>3, <1>5 DEF AnySetup
    <2> QED BY <2>1 DEF AnySetup, Setups
  <1>6. setupFile \in Setups /\ operation.setup \in Setups BY <1>1, <1>5 DEF OAuthTypes
  <1>7. grantFile \in [binding : Stamps, token : 0 .. MaxTokens, consent : Stamps]
    <2>1. grantFile \in Grants /\ grantFile.binding <= oauthActs /\ grantFile.token <= issued
          /\ grantFile.consent <= oauthActs
      BY <1>1 DEF OAuthTypes, StampInv
    <2>2. grantFile.binding \in Stamps /\ grantFile.token \in 0 .. MaxTokens /\ grantFile.consent \in Stamps
      BY <1>3, <1>4, <2>1 DEF Grants
    <2> QED BY <2>1, <2>2 DEF Grants
  <1>8. memory \in [epoch : Stamps, blocked : BOOLEAN,
                    pending : [epoch : Stamps, binding : Stamps, consent : Stamps]]
    <2>1. memory \in [epoch : Nat, blocked : BOOLEAN, pending : Pendings] BY <1>1 DEF OAuthTypes
    <2>2. memory.pending \in Pendings /\ memory.epoch \in Nat BY <2>1
    <2>3. memory.epoch \in Stamps BY <1>3, <2>2 DEF StampInv
    <2>4. memory.pending \in [epoch : Stamps, binding : Stamps, consent : Stamps]
      <3>1. memory.pending.epoch \in Stamps /\ memory.pending.binding \in Stamps
            /\ memory.pending.consent \in Stamps
        BY <1>3, <2>2 DEF StampInv, Drawn, Pendings
      <3> QED BY <2>2, <3>1 DEF Pendings
    <2> QED BY <2>1, <2>3, <2>4
  <1>9. operation \in [at : {"none", "discover", "exchange", "recheck", "refresh"},
                       epoch : Stamps, setup : Setups, token : 0 .. MaxTokens, consent : Stamps]
    <2>1. operation \in [at : Places, epoch : Nat, setup : AnySetup, token : Nat, consent : Nat]
          /\ operation.token <= issued
      BY <1>1 DEF OAuthTypes
    <2>2. operation.epoch \in Nat /\ operation.token \in Nat /\ operation.consent \in Nat BY <2>1
    <2>3. operation.epoch \in Stamps /\ operation.token \in 0 .. MaxTokens /\ operation.consent \in Stamps
      BY <1>3, <1>4, <2>1, <2>2 DEF StampInv
    <2> QED BY <1>6, <2>1, <2>3 DEF Places
  <1>10. consent \in Stamps /\ oauthActs \in Stamps /\ issued \in 0 .. MaxTokens
    BY <1>1, <1>2, <1>3 DEF OAuthTypes, StampInv, Stamps
  <1>11. spent \subseteq 1 .. MaxTokens
    <2>1. spent \subseteq 1 .. issued BY <1>1 DEF OAuthTypes
    <2> QED BY <1>2, <2>1
  <1>12. writeFaults \in 0 .. MaxWriteFaults /\ restarts \in 0 .. MaxRestarts BY <1>1 DEF Counted
  <1> QED BY <1>6, <1>7, <1>8, <1>9, <1>10, <1>11, <1>12 DEF OAuthTypeOK

-----------------------------------------------------------------------------
(* The five services together.                                             *)

(* The instance is the union of its services: each of its behaviours is a  *)
(* behaviour of every one of them, so the theorems above, which are about  *)
(* one service and its table or file, are about what the instance does     *)
(* (the loops lib.rs spawns share no row with each other).                 *)
THEOREM AutomationIsItsParts ==
    Spec => ScheduleSpec /\ TriggerSpec /\ WebhookSpec /\ TelegramSpec /\ OAuthSpec
  <1>1. Init => ScheduleInit /\ TriggerInit /\ WebhookInit /\ TelegramInit /\ OAuthInit
    BY DEF Init
  <1>2. [Next]_allVars => /\ [ScheduleNext]_scheduleVars /\ [TriggerNext]_triggerVars
                          /\ [WebhookNext]_webhookVars /\ [TelegramNext]_telegramVars
                          /\ [OAuthNext]_oauthVars
    BY DEF Next, allVars
  <1> QED BY <1>1, <1>2, PTL
          DEF Spec, ScheduleSpec, TriggerSpec, WebhookSpec, TelegramSpec, OAuthSpec

(* One behaviour explores one service and leaves the others alone.         *)
AutomationInv ==
    ScheduleInv /\ TriggerTypes /\ HookTypes /\ BridgeInv /\ LiveInv /\ StampInv

(* AutomationTypeOK for any bounds: the tables and files of the five       *)
(* services, and what their loops and handlers hold between two            *)
(* statements, keep their types.  The types do not stand alone: the id of  *)
(* a run to record, the event and the delivery in hand, the tapped card    *)
(* and the stamps of a sign-in need each service's invariant.              *)
THEOREM AutomationTypes == Spec => []AutomationTypeOK
  <1>1. Init => AutomationInv
    BY ScheduleInvInit, TriggerInitTypes, HookInitTypes, BridgeInvInit, LiveInitially, StampInit
       DEF Init, AutomationInv
  <1>2. AutomationInv /\ [Next]_allVars => AutomationInv'
    <2> SUFFICES ASSUME AutomationInv, [Next]_allVars PROVE AutomationInv' OBVIOUS
    <2>1. /\ [ScheduleNext]_scheduleVars /\ [TriggerNext]_triggerVars /\ [WebhookNext]_webhookVars
          /\ [TelegramNext]_telegramVars /\ [OAuthNext]_oauthVars
      BY DEF Next, allVars
    <2>2. ScheduleInv' BY <2>1, ScheduleInvStep DEF AutomationInv
    <2>3. TriggerTypes' BY <2>1, TriggerNextTypes DEF AutomationInv
    <2>4. HookTypes' BY <2>1, HookNextTypes DEF AutomationInv
    <2>5. BridgeInv' BY <2>1, BridgeInvStep DEF AutomationInv
    <2>6. LiveInv' BY <2>1, LiveStep DEF AutomationInv
    <2>7. StampInv' BY <2>1, StampStep DEF AutomationInv
    <2> QED BY <2>2, <2>3, <2>4, <2>5, <2>6, <2>7 DEF AutomationInv
  <1>3. AutomationInv => AutomationTypeOK
    <2> SUFFICES ASSUME AutomationInv PROVE AutomationTypeOK OBVIOUS
    <2>1. ScheduleTypeOK BY DEF AutomationInv, ScheduleInv, ShapeInv
    <2>2. TriggerTypeOK BY DEF AutomationInv, TriggerTypes
    <2>3. WebhookTypeOK BY DEF AutomationInv, HookTypes
    <2>4. TelegramTypeOK BY BridgeInvTypes DEF AutomationInv
    <2>5. OAuthTypeOK BY StampTypes DEF AutomationInv
    <2> QED BY <2>1, <2>2, <2>3, <2>4, <2>5 DEF AutomationTypeOK
  <1> QED BY <1>1, <1>2, <1>3, PTL DEF Spec
=============================================================================

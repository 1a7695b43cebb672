------------------------------ MODULE Telegram ------------------------------
(***************************************************************************)
(* Approvals in the owner's pocket: the bridge of telegram.rs, which polls *)
(* a bot for updates and answers them one by one, and the watcher beside   *)
(* it, which sends a card with two buttons for a new approval and retires  *)
(* the card of one that was answered elsewhere.                            *)
(*                                                                         *)
(* Handler and watcher are two tasks that meet in the approval, the card   *)
(* and the set of tapped approvals; each call to the service or to storage *)
(* is a step.  One approval is explored.  What a message starts, and how a *)
(* chat is paired and unpaired, is left out: the chat is paired.           *)
(***************************************************************************)
EXTENDS Naturals, Sequences

CONSTANTS MaxUpdates, \* bound: messages and taps of the owner
          MaxKills,   \* bound: deaths of the daemon
          MaxSlips    \* bound: calls and writes that fail, exits of serve

ASSUME TelegramAssumption ==
    MaxUpdates \in Nat /\ MaxKills \in Nat /\ MaxSlips \in Nat

VARIABLES
    running,    \* the daemon is running
    kills,      \* how often it died
    slips,      \* calls and writes that failed, and exits of serve
    badWrites,  \* writes of the offset that failed or were cut off
    approval,   \* the approval
    updates,    \* the service's updates, in id order
    confirmed,  \* the first id the service has not been told is read
    offsetFile, \* OFFSET_FILE; Empty when it is missing or was cut off
    bridge,     \* serve and the callback it handles
    watcher,    \* watch_approvals and its sent map
    tapped,     \* the approval is in the set of tapped ones
    cards,      \* the messages with the approval's card, and what each says
    handled     \* how often each update was handled

telegramVars == <<running, kills, slips, badWrites, approval, updates, confirmed,
                  offsetFile, bridge, watcher, tapped, cards, handled>>
processVars  == <<running, kills>>
serviceVars  == <<updates, confirmed>>

MaxCards == 1 + MaxSlips
Ids      == 1 .. MaxUpdates
Empty    == 0
Silent   == 0             \* the message id 0 of an approval that was waiting at the start
NotSent  == MaxCards + 1

Taps      == {"approve", "deny"}
CardTexts == {"buttons", "approved", "denied", "notWaiting", "answered"}

IdleBridge == [at |-> "poll", offset |-> Empty, last |-> 0, done |-> FALSE]
NewWatcher == [at |-> "read", first |-> TRUE, sent |-> NotSent, live |-> FALSE, card |-> Silent]

TelegramTypeOK ==
    /\ running \in BOOLEAN /\ kills \in 0 .. MaxKills
    /\ slips \in 0 .. MaxSlips /\ badWrites \in 0 .. (MaxSlips + MaxKills)
    /\ approval \in {"none", "pending", "approved", "released", "denied", "lapsed"}
    /\ updates \in Seq([what : {"message"} \union Taps, card : 0 .. MaxCards])
    /\ Len(updates) <= MaxUpdates /\ confirmed \in 0 .. (MaxUpdates + 1)
    /\ offsetFile \in 0 .. (MaxUpdates + 1)
    /\ bridge \in [at : {"poll", "truncate", "write", "handle", "decide", "answer", "edit"},
                   offset : 0 .. (MaxUpdates + 1), last : 0 .. MaxUpdates, done : BOOLEAN]
    /\ watcher \in [at : {"read", "send", "gone", "edit"}, first : BOOLEAN,
                    sent : 0 .. NotSent, live : BOOLEAN, card : 0 .. MaxCards]
    /\ tapped \in BOOLEAN
    /\ cards \in Seq(CardTexts) /\ Len(cards) <= MaxCards
    /\ handled \in [Ids -> Nat]

TelegramInit ==
    /\ running = TRUE /\ kills = 0 /\ slips = 0 /\ badWrites = 0
    /\ approval = "none"
    /\ updates = <<>> /\ confirmed = 1 /\ offsetFile = Empty
    /\ bridge = IdleBridge /\ watcher = NewWatcher
    /\ tapped = FALSE /\ cards = <<>> /\ handled = [u \in Ids |-> 0]

Slip   == slips < MaxSlips /\ slips' = slips + 1

-----------------------------------------------------------------------------
(* The owner, on the phone and elsewhere.                                  *)

(* A message, or a tap on a card that still has its buttons.               *)
OwnerSends(what, card) ==
    /\ Len(updates) < MaxUpdates
    /\ IF what = "message" THEN card = 0 ELSE card \in DOMAIN cards /\ cards[card] = "buttons"
    /\ updates' = Append(updates, [what |-> what, card |-> card])
    /\ UNCHANGED <<processVars, slips, badWrites, approval, confirmed, offsetFile,
                   bridge, watcher, tapped, cards, handled>>

(* The approval is asked for, approved on another surface, denied there or *)
(* left to expire (both lapsed here), and released once approved.          *)
ApprovalMoves(from, to) ==
    /\ running /\ approval = from /\ approval' = to
    /\ UNCHANGED <<processVars, slips, badWrites, serviceVars, offsetFile,
                   bridge, watcher, tapped, cards, handled>>

-----------------------------------------------------------------------------
(* serve: one update at a time.                                            *)

(* getUpdates with an offset confirms what is before it and answers the    *)
(* rest.  bridge.last is the last update of the answer.                    *)
Poll ==
    /\ running /\ bridge.at = "poll"
    /\ confirmed' = IF bridge.offset > confirmed THEN bridge.offset ELSE confirmed
    /\ Len(updates) >= confirmed'
    /\ bridge' = [bridge EXCEPT !.at = "truncate", !.last = Len(updates), !.offset = confirmed']
    /\ UNCHANGED <<processVars, slips, badWrites, approval, updates, offsetFile,
                   watcher, tapped, cards, handled>>

(* The update in hand is the one before the offset, from its write on.     *)
Current == updates[bridge.offset - 1]

(* The offset moves past the update and is written before the update is    *)
(* handled.  write_text empties the file and fills it again; a write that  *)
(* fails is only logged.                                                   *)
TruncateOffset_OncePerBatch ==
    /\ running /\ bridge.at = "truncate"
    /\ IF bridge.offset < bridge.last
         THEN offsetFile' = offsetFile
              /\ bridge' = [bridge EXCEPT !.at = "handle", !.offset = @ + 1]
         ELSE offsetFile' = Empty
              /\ bridge' = [bridge EXCEPT !.at = "write", !.offset = @ + 1]
    /\ UNCHANGED <<processVars, slips, badWrites, approval, serviceVars, watcher, tapped,
                   cards, handled>>

TruncateOffset ==
    /\ running /\ bridge.at = "truncate"
    /\ \/ /\ offsetFile' = Empty
          /\ bridge' = [bridge EXCEPT !.at = "write", !.offset = @ + 1]
          /\ UNCHANGED <<slips, badWrites>>
       \/ /\ Slip /\ badWrites' = badWrites + 1
          /\ bridge' = [bridge EXCEPT !.at = "handle", !.offset = @ + 1]
          /\ offsetFile' = offsetFile
    /\ UNCHANGED <<processVars, approval, serviceVars, watcher, tapped, cards, handled>>

WriteOffset ==
    /\ running /\ bridge.at = "write"
    /\ \/ offsetFile' = bridge.offset /\ UNCHANGED <<slips, badWrites>>
       \/ Slip /\ badWrites' = badWrites + 1 /\ offsetFile' = offsetFile
    /\ bridge' = [bridge EXCEPT !.at = "handle"]
    /\ UNCHANGED <<processVars, approval, serviceVars, watcher, tapped, cards, handled>>

(* The update is done: the next of the batch, or a poll.                   *)
NextUpdate ==
    [bridge EXCEPT !.done = FALSE,
                   !.at = IF bridge.offset <= bridge.last THEN "truncate" ELSE "poll"]

(* handle_update: a message is answered by a run, a tap is marked before   *)
(* it is decided.                                                          *)
HandleUpdate ==
    /\ running /\ bridge.at = "handle"
    /\ handled' = [handled EXCEPT ![bridge.offset - 1] = @ + 1]
    /\ IF Current.what \in Taps
         THEN tapped' = TRUE /\ bridge' = [bridge EXCEPT !.at = "decide"]
         ELSE tapped' = tapped /\ bridge' = NextUpdate
    /\ UNCHANGED <<processVars, slips, badWrites, approval, serviceVars, offsetFile,
                   watcher, cards>>

(* decide_approval, the route of every surface: it decides a waiting       *)
(* approval, and fails otherwise or when storage does.                     *)
DecideTap_DecidedIsFine ==
    /\ running /\ bridge.at = "decide"
    /\ approval' = (IF approval # "pending" THEN approval
                    ELSE IF Current.what = "approve" THEN "approved" ELSE "denied")
    /\ bridge' = [bridge EXCEPT !.at = "answer", !.done = TRUE]
    /\ UNCHANGED <<processVars, slips, badWrites, serviceVars, offsetFile, watcher, tapped,
                   cards, handled>>

DecideTap ==
    /\ running /\ bridge.at = "decide"
    /\ \/ /\ approval = "pending"
          /\ approval' = (IF Current.what = "approve" THEN "approved" ELSE "denied")
          /\ bridge' = [bridge EXCEPT !.at = "answer", !.done = TRUE]
          /\ slips' = slips
       \/ /\ approval # "pending" /\ slips' = slips
          /\ approval' = approval /\ bridge' = [bridge EXCEPT !.at = "answer"]
       \/ /\ approval = "pending" /\ Slip
          /\ approval' = approval /\ bridge' = [bridge EXCEPT !.at = "answer"]
    /\ UNCHANGED <<processVars, badWrites, serviceVars, offsetFile, watcher, tapped,
                   cards, handled>>

(* A decision that failed takes its mark back.                             *)
AnswerTap ==
    /\ running /\ bridge.at = "answer"
    /\ tapped' = (tapped /\ bridge.done)
    /\ bridge' = [bridge EXCEPT !.at = "edit"]
    /\ UNCHANGED <<processVars, slips, badWrites, approval, serviceVars, offsetFile,
                   watcher, cards, handled>>

TapWords ==
    IF ~bridge.done THEN "notWaiting"
    ELSE IF Current.what = "approve" THEN "approved" ELSE "denied"

(* retire replaces the card's text and buttons; a failure is only logged.  *)
EditTap_DecidedOnly ==
    /\ running /\ bridge.at = "edit"
    /\ cards' = IF bridge.done THEN [cards EXCEPT ![Current.card] = TapWords] ELSE cards
    /\ bridge' = NextUpdate
    /\ UNCHANGED <<processVars, slips, badWrites, approval, serviceVars, offsetFile,
                   watcher, tapped, handled>>

EditTap ==
    /\ running /\ bridge.at = "edit"
    /\ \/ cards' = [cards EXCEPT ![Current.card] = TapWords] /\ slips' = slips
       \/ Slip /\ cards' = cards
    /\ bridge' = NextUpdate
    /\ UNCHANGED <<processVars, badWrites, approval, serviceVars, offsetFile,
                   watcher, tapped, handled>>

-----------------------------------------------------------------------------
(* watch_approvals.                                                        *)

(* The pending and the approved but unreleased approvals are listed.       *)
Live == approval \in {"pending", "approved"}

(* A look at the approvals: a new one is sent, held by quiet hours or, at  *)
(* the first look, left to the console.                                    *)
WatchRead ==
    /\ running /\ watcher.at = "read"
    /\ LET new  == approval = "pending" /\ watcher.sent = NotSent
           look == [watcher EXCEPT !.first = FALSE, !.live = Live, !.at = "gone"]
       IN  \/ ~new /\ watcher' = look
           \/ new /\ watcher.first /\ watcher' = [look EXCEPT !.sent = Silent]
           \/ new /\ ~watcher.first /\ watcher' = look
           \/ new /\ ~watcher.first /\ watcher' = [look EXCEPT !.at = "send"]
    /\ UNCHANGED <<processVars, slips, badWrites, approval, serviceVars, offsetFile,
                   bridge, tapped, cards, handled>>

(* A card that fails to go out is sent by a later look; one whose answer   *)
(* is lost is in the chat all the same.                                    *)
WatchSend ==
    /\ running /\ watcher.at = "send"
    /\ \/ /\ cards' = Append(cards, "buttons") /\ slips' = slips
          /\ watcher' = [watcher EXCEPT !.at = "gone", !.sent = Len(cards) + 1]
       \/ /\ Slip /\ cards' \in {cards, Append(cards, "buttons")}
          /\ watcher' = [watcher EXCEPT !.at = "gone"]
    /\ UNCHANGED <<processVars, badWrites, approval, serviceVars, offsetFile, bridge,
                   tapped, handled>>

(* The card of an approval that is gone is retired, unless a tap is at it. *)
WatchGone ==
    /\ running /\ watcher.at = "gone"
    /\ LET gone   == watcher.sent # NotSent /\ ~watcher.live
           retire == gone /\ watcher.sent # Silent /\ ~tapped
       IN  /\ tapped' = (tapped /\ ~gone)
           /\ watcher' = [watcher EXCEPT !.sent = IF gone THEN NotSent ELSE @,
                             !.card = IF retire THEN watcher.sent ELSE Silent,
                             !.at = IF retire THEN "edit" ELSE "read"]
    /\ UNCHANGED <<processVars, slips, badWrites, approval, serviceVars, offsetFile,
                   bridge, cards, handled>>

WatchEdit ==
    /\ running /\ watcher.at = "edit"
    /\ \/ cards' = [cards EXCEPT ![watcher.card] = "answered"] /\ slips' = slips
       \/ Slip /\ cards' = cards
    /\ watcher' = [watcher EXCEPT !.at = "read", !.card = Silent]
    /\ UNCHANGED <<processVars, badWrites, approval, serviceVars, offsetFile, bridge,
                   tapped, handled>>

-----------------------------------------------------------------------------
(* The daemon dies: the offset's file, the pairing, the approval and the   *)
(* chat stay.                                                              *)

BridgeDies ==
    /\ running /\ kills < MaxKills
    /\ running' = FALSE /\ kills' = kills + 1
    /\ badWrites' = IF bridge.at = "write" THEN badWrites + 1 ELSE badWrites
    /\ bridge' = IdleBridge /\ watcher' = NewWatcher /\ tapped' = FALSE
    /\ UNCHANGED <<slips, approval, serviceVars, offsetFile, cards, handled>>

BridgeStarts ==
    /\ ~running /\ running' = TRUE
    /\ bridge' = [IdleBridge EXCEPT !.offset = offsetFile]
    /\ UNCHANGED <<kills, slips, badWrites, approval, serviceVars, offsetFile,
                   watcher, tapped, cards, handled>>

(* serve returns, before a poll because the token was changed or removed,  *)
(* or because the service no longer accepts it.  It aborts the watcher,    *)
(* whose map is lost as in a death; the tapped approvals are kept.  The    *)
(* same bot is served again, from the offset in the file.                  *)
ServeEnds ==
    /\ running /\ bridge.at = "poll"
    /\ Slip
    /\ bridge' = [IdleBridge EXCEPT !.offset = offsetFile] /\ watcher' = NewWatcher
    /\ UNCHANGED <<processVars, badWrites, approval, serviceVars, offsetFile, tapped,
                   cards, handled>>

BridgeStep ==
    Poll \/ TruncateOffset \/ WriteOffset \/ HandleUpdate \/ DecideTap \/ AnswerTap \/ EditTap

WatcherStep == WatchRead \/ WatchSend \/ WatchGone \/ WatchEdit

TelegramNext ==
    \/ \E what \in {"message"} \union Taps, card \in 0 .. MaxCards : OwnerSends(what, card)
    \/ ApprovalMoves("none", "pending")
    \/ \E to \in {"approved", "lapsed"} : ApprovalMoves("pending", to)
    \/ ApprovalMoves("approved", "released")
    \/ BridgeStep
    \/ WatcherStep
    \/ ServeEnds
    \/ BridgeDies
    \/ BridgeStarts

TelegramSpec == TelegramInit /\ [][TelegramNext]_telegramVars

-----------------------------------------------------------------------------
(* Properties.                                                             *)

(* "a crash loses one message and never repeats one" (telegram.rs, serve): *)
(* an update is handled again only after the write of an offset failed, or *)
(* the daemon died in the middle of one.                                   *)
UpdateHandledOnce == \A u \in Ids : handled[u] <= 1 + badWrites

(* A card never says what did not happen: it says Approved or Denied only  *)
(* if a tap decided so, and loses its buttons only when the approval is no *)
(* longer waiting, or when storage failed the tap's decision.              *)
CardTellsTheTruth ==
    \A c \in DOMAIN cards :
        /\ cards[c] = "approved" => approval \in {"approved", "released"}
        /\ cards[c] = "denied" => approval = "denied"
        /\ cards[c] = "answered" => approval \notin {"none", "pending"}
        /\ cards[c] = "notWaiting" => approval \notin {"none", "pending"} \/ slips > 0

(* Watcher and handler never each leave a card to the other: as long as it *)
(* has buttons, the watcher's map holds it or is retiring it, or a tap on  *)
(* it is in hand.  Only a death of the daemon and an exit of serve, which  *)
(* forget the map, and a failed call leave a card behind.                  *)
CardHasAKeeper ==
    kills = 0 /\ slips = 0 =>
        \A c \in DOMAIN cards :
            cards[c] = "buttons" =>
                \/ watcher.sent = c
                \/ watcher.at = "edit" /\ watcher.card = c
                \/ bridge.at \in {"decide", "answer", "edit"} /\ Current.card = c
=============================================================================

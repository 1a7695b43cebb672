---------------------------- MODULE OAuthAccount ----------------------------
(***************************************************************************)
(* The sign-in of one remote MCP server: mcp_oauth_account.rs over the     *)
(* private files of mcp_secrets.rs.                                        *)
(*                                                                         *)
(* Sign-in, callback and refresh run one at a time, each over several      *)
(* awaits; saving another app and disconnecting wait for none of them.     *)
(* What keeps a late answer from restoring access is an epoch in memory, a *)
(* random binding in both files and the flag that blocks a grant.  The     *)
(* epoch and the flag die with the daemon; a write may fail, also after it *)
(* took effect.  Expiry is left out: a grant may be due for a refresh, and *)
(* a sign-in overdue, at any time.                                         *)
(***************************************************************************)
EXTENDS Naturals

CONSTANTS Apps,            \* the apps the owner may register
          MaxOAuthActs,    \* bound: the owner's saves, sign-ins and disconnects
          MaxTokens,       \* bound: refresh tokens the service issues
          MaxWriteFaults,  \* bound: writes and removals that fail
          MaxRestarts      \* bound: deaths of the daemon

ASSUME OAuthAssumption ==
    /\ 0 \notin Apps
    /\ MaxOAuthActs \in Nat /\ MaxTokens \in Nat
    /\ MaxWriteFaults \in Nat /\ MaxRestarts \in Nat

VARIABLES
    setupFile,  \* SETUP_KEY: app, binding, and whether endpoints were discovered
    grantFile,  \* GRANT_KEY: binding and refresh token, with the consent it is of
    memory,     \* Memory: epoch, pending, blocked
    operation,  \* who holds the operation lock, where, and what it read
    consent,    \* the last of the owner's acts that succeeded in ending what was
    spent,      \* refresh tokens sent to the service and not renewed by its answer
    issued,     \* refresh tokens issued so far
    oauthActs, writeFaults, restarts

oauthVars == <<setupFile, grantFile, memory, operation, consent, spent, issued,
               oauthActs, writeFaults, restarts>>
fileVars  == <<setupFile, grantFile>>
countVars == <<oauthActs, writeFaults, restarts>>

NoToken   == 0
NoSetup   == [app |-> 0, binding |-> 0, discovered |-> FALSE]
NoGrant   == [binding |-> 0, token |-> NoToken, consent |-> 0]
NoPending == [epoch |-> 0, binding |-> 0, consent |-> 0]
NoOperation == [at |-> "none", epoch |-> 0, setup |-> NoSetup, token |-> NoToken, consent |-> 0]

Stamps == 0 .. MaxOAuthActs
Setups == [app : Apps \union {0}, binding : Stamps, discovered : BOOLEAN]

OAuthTypeOK ==
    /\ setupFile \in Setups
    /\ grantFile \in [binding : Stamps, token : 0 .. MaxTokens, consent : Stamps]
    /\ memory \in [epoch : Stamps, blocked : BOOLEAN,
                   pending : [epoch : Stamps, binding : Stamps, consent : Stamps]]
    /\ operation \in [at : {"none", "discover", "exchange", "recheck", "refresh"},
                      epoch : Stamps, setup : Setups, token : 0 .. MaxTokens, consent : Stamps]
    /\ consent \in Stamps
    /\ spent \subseteq 1 .. MaxTokens /\ issued \in 0 .. MaxTokens
    /\ oauthActs \in Stamps /\ writeFaults \in 0 .. MaxWriteFaults
    /\ restarts \in 0 .. MaxRestarts

(* Memory::default                                                         *)
FreshMemory == [epoch |-> 0, blocked |-> FALSE, pending |-> NoPending]

OAuthInit ==
    /\ setupFile = NoSetup /\ grantFile = NoGrant
    /\ memory = FreshMemory /\ operation = NoOperation
    /\ consent = 0 /\ spent = {} /\ issued = 0
    /\ oauthActs = 0 /\ writeFaults = 0 /\ restarts = 0

-----------------------------------------------------------------------------
(* mcp_secrets.set replaces the file in one step and then restricts it:    *)
(* one that fails may have replaced it.  remove fails without an effect.   *)
(* A death between two writes leaves what a failure of the second does.    *)
SetOutcomes    == {"ok", "lost", "late"}
RemoveOutcomes == {"ok", "lost"}

Written(outcome, old, new) == IF outcome = "lost" THEN old ELSE new

Faults(first, second) ==
    /\ writeFaults' = writeFaults + (IF first = "ok" THEN 0 ELSE 1)
                                  + (IF second = "ok" THEN 0 ELSE 1)
    /\ writeFaults' <= MaxWriteFaults

(* An act of the owner; its number stands for the random binding it draws. *)
OwnersAct ==
    /\ oauthActs < MaxOAuthActs /\ oauthActs' = oauthActs + 1
    /\ UNCHANGED <<spent, issued, restarts>>

(* invalidate *)
Invalidated == [epoch |-> memory.epoch + 1, blocked |-> TRUE, pending |-> NoPending]

(* What Account.grant reads: not blocked, and of the setup that is saved.  *)
Usable ==
    /\ ~memory.blocked /\ grantFile # NoGrant
    /\ grantFile.binding = setupFile.binding /\ setupFile.discovered

(* check: nothing was invalidated since an operation began.                *)
StillCurrent(epoch, setup) == memory.epoch = epoch /\ setupFile.binding = setup.binding

-----------------------------------------------------------------------------
(* The owner: what does not wait for the operation lock.                   *)

(* save_setup: the app that is already saved changes nothing.              *)
SaveSetup(app) ==
    /\ OwnersAct
    /\ setupFile.app # app
    /\ memory' = Invalidated
    /\ \E saved \in SetOutcomes, removed \in RemoveOutcomes :
          /\ Faults(saved, removed)
          /\ setupFile' = Written(saved, setupFile,
                            [app |-> app, binding |-> oauthActs + 1, discovered |-> FALSE])
          /\ grantFile' = Written(removed, grantFile, NoGrant)
          /\ consent' = IF saved = "ok" /\ removed = "ok" THEN oauthActs + 1 ELSE consent
    /\ UNCHANGED operation

(* disconnect; the revocation it then asks of the service changes nothing  *)
(* here.                                                                   *)
Disconnect ==
    /\ OwnersAct
    /\ setupFile # NoSetup
    /\ memory' = Invalidated
    /\ \E changed \in SetOutcomes, removed \in RemoveOutcomes :
          /\ Faults(changed, removed)
          /\ setupFile' = Written(changed, setupFile,
                            [setupFile EXCEPT !.binding = oauthActs + 1])
          /\ grantFile' = Written(removed, grantFile, NoGrant)
          /\ consent' = IF changed = "ok" /\ removed = "ok" THEN oauthActs + 1 ELSE consent
    /\ UNCHANGED operation

-----------------------------------------------------------------------------
(* Sign-in: begin, the browser, complete.                                  *)

BeginSignIn ==
    /\ OwnersAct
    /\ operation.at = "none" /\ setupFile # NoSetup
    /\ memory' = Invalidated
    /\ \E removed \in RemoveOutcomes :
          /\ Faults("ok", removed)
          /\ grantFile' = Written(removed, grantFile, NoGrant)
          /\ IF removed = "ok"
               THEN /\ consent' = oauthActs + 1
                    /\ operation' = [at |-> "discover", epoch |-> memory'.epoch,
                                     setup |-> setupFile, token |-> NoToken,
                                     consent |-> oauthActs + 1]
               ELSE UNCHANGED <<consent, operation>>
    /\ UNCHANGED setupFile

(* Discovery answered: the setup that was read is saved with what was      *)
(* found, and the sign-in is pending.                                      *)
SignInPrepared ==
    /\ operation.at = "discover"
    /\ operation' = NoOperation
    /\ IF StillCurrent(operation.epoch, operation.setup)
         THEN \E saved \in SetOutcomes :
                /\ Faults(saved, "ok")
                /\ setupFile' = Written(saved, setupFile,
                                  [operation.setup EXCEPT !.discovered = TRUE])
                /\ memory' = IF saved # "ok" THEN memory
                             ELSE [memory EXCEPT !.pending =
                                     [epoch |-> operation.epoch, consent |-> operation.consent,
                                      binding |-> operation.setup.binding]]
         ELSE UNCHANGED <<setupFile, memory, writeFaults>>
    /\ UNCHANGED <<grantFile, consent, spent, issued, oauthActs, restarts>>

(* complete takes the pending sign-in, whatever the callback is worth.     *)
CallbackArrives ==
    /\ operation.at = "none" /\ memory.pending # NoPending
    /\ memory' = [memory EXCEPT !.pending = NoPending]
    /\ \/ UNCHANGED operation
       \/ /\ setupFile # NoSetup /\ setupFile.discovered
          /\ StillCurrent(memory.pending.epoch, setupFile)
          /\ memory.pending.binding = setupFile.binding
          /\ operation' = [at |-> "exchange", epoch |-> memory.pending.epoch,
                           setup |-> setupFile, token |-> NoToken,
                           consent |-> memory.pending.consent]
    /\ UNCHANGED <<fileVars, consent, spent, issued, countVars>>

(* The answer of the service is stored, unless the setup changed; only a   *)
(* grant that was stored is unblocked.                                     *)
StoreGrant(token) ==
    /\ operation' = NoOperation
    /\ IF StillCurrent(operation.epoch, operation.setup)
         THEN \E saved \in SetOutcomes :
                /\ Faults(saved, "ok")
                /\ grantFile' = Written(saved, grantFile,
                                  [binding |-> operation.setup.binding, token |-> token,
                                   consent |-> operation.consent])
                /\ memory' = IF saved = "ok" THEN [memory EXCEPT !.blocked = FALSE] ELSE memory
         ELSE UNCHANGED <<grantFile, memory, writeFaults>>
    /\ UNCHANGED <<setupFile, consent, oauthActs, restarts>>

(* A code was exchanged, for a grant with or without a refresh token.      *)
CodeExchanged ==
    /\ operation.at = "exchange"
    /\ \/ StoreGrant(NoToken) /\ issued' = issued
       \/ issued < MaxTokens /\ issued' = issued + 1 /\ StoreGrant(issued')
    /\ UNCHANGED spent

-----------------------------------------------------------------------------
(* access_token, when the access token runs out: the grant is blocked and  *)
(* its file removed before its refresh token is sent.                      *)

TakeGrant_KeepsFile ==
    /\ operation.at = "none" /\ Usable /\ grantFile.token # NoToken
    /\ memory' = [memory EXCEPT !.blocked = TRUE]
    /\ operation' = [at |-> "recheck", epoch |-> memory.epoch, setup |-> setupFile,
                     token |-> grantFile.token, consent |-> grantFile.consent]
    /\ UNCHANGED <<fileVars, consent, spent, issued, countVars>>

TakeGrant ==
    /\ operation.at = "none" /\ Usable /\ grantFile.token # NoToken
    /\ memory' = [memory EXCEPT !.blocked = TRUE]
    /\ \E removed \in RemoveOutcomes :
          /\ Faults("ok", removed)
          /\ grantFile' = Written(removed, grantFile, NoGrant)
          /\ operation' = IF removed # "ok" THEN operation
                          ELSE [at |-> "recheck", epoch |-> memory.epoch, setup |-> setupFile,
                                token |-> grantFile.token, consent |-> grantFile.consent]
    /\ UNCHANGED <<setupFile, consent, spent, issued, oauthActs, restarts>>

(* The endpoints are still the ones that were discovered.                  *)
SendRefresh ==
    /\ operation.at = "recheck"
    /\ operation' = [operation EXCEPT !.at = "refresh"]
    /\ spent' = spent \union {operation.token}
    /\ UNCHANGED <<fileVars, memory, consent, issued, countVars>>

(* An answer without a refresh token keeps the old one.                    *)
RefreshAnswered ==
    /\ operation.at = "refresh"
    /\ \/ /\ StoreGrant(operation.token)
          /\ spent' = spent \ {operation.token} /\ issued' = issued
       \/ /\ issued < MaxTokens /\ issued' = issued + 1
          /\ StoreGrant(issued') /\ spent' = spent

-----------------------------------------------------------------------------
(* An operation fails, is refused, runs out of time or is dropped by its   *)
(* caller.                                                                 *)
OperationFails ==
    /\ operation.at # "none"
    /\ operation' = NoOperation
    /\ UNCHANGED <<fileVars, memory, consent, spent, issued, countVars>>

(* The daemon dies and is started again.                                   *)
AccountRestarts ==
    /\ restarts < MaxRestarts /\ restarts' = restarts + 1
    /\ memory' = FreshMemory /\ operation' = NoOperation
    /\ UNCHANGED <<fileVars, consent, spent, issued, oauthActs, writeFaults>>

OAuthNext ==
    \/ \E app \in Apps : SaveSetup(app)
    \/ Disconnect
    \/ BeginSignIn \/ SignInPrepared \/ CallbackArrives \/ CodeExchanged
    \/ TakeGrant \/ SendRefresh \/ RefreshAnswered
    \/ OperationFails \/ AccountRestarts

OAuthSpec == OAuthInit /\ [][OAuthNext]_oauthVars

-----------------------------------------------------------------------------
(* Properties.                                                             *)

(* "A late callback or refresh cannot resurrect access" and "Durably       *)
(* delete old grant material before a refresh can consume it" (ADR-0220):  *)
(* what access_token would use is of the sign-in begun last, with no       *)
(* successful disconnect, change of app or new sign-in since, and its      *)
(* refresh token is not one the service may have consumed, whatever was    *)
(* in hand, failed to be written or was cut off by a death in between.     *)
UsableGrantIsLive ==
    Usable => grantFile.consent = consent /\ grantFile.token \notin spent
=============================================================================

---------------------------- MODULE MCAutomation ----------------------------
(* The services that work while no console is open, in one instance for    *)
(* TLC: what starts runs by itself, the chat, and the sign-in to a remote  *)
(* server.  They share no state here, so each behaviour explores one of    *)
(* them.                                                                   *)
EXTENDS Schedules, Triggers, Webhooks, Telegram, OAuthAccount

VARIABLE focus  \* the service this behaviour explores

Init ==
    /\ focus \in {"schedules", "triggers", "webhooks", "telegram", "oauth"}
    /\ ScheduleInit /\ TriggerInit /\ WebhookInit /\ TelegramInit /\ OAuthInit

Next ==
    /\ UNCHANGED focus
    /\ \/ /\ focus = "schedules" /\ ScheduleNext
          /\ UNCHANGED <<triggerVars, webhookVars, telegramVars, oauthVars>>
       \/ /\ focus = "triggers" /\ TriggerNext
          /\ UNCHANGED <<scheduleVars, webhookVars, telegramVars, oauthVars>>
       \/ /\ focus = "webhooks" /\ WebhookNext
          /\ UNCHANGED <<scheduleVars, triggerVars, telegramVars, oauthVars>>
       \/ /\ focus = "telegram" /\ TelegramNext
          /\ UNCHANGED <<scheduleVars, triggerVars, webhookVars, oauthVars>>
       \/ /\ focus = "oauth" /\ OAuthNext
          /\ UNCHANGED <<scheduleVars, triggerVars, webhookVars, telegramVars>>

allVars == <<focus, scheduleVars, triggerVars, webhookVars, telegramVars, oauthVars>>

Spec == Init /\ [][Next]_allVars

(* The types of the five services' tables and files and of what their      *)
(* loops and handlers carry between two statements.                        *)
AutomationTypeOK ==
    ScheduleTypeOK /\ TriggerTypeOK /\ WebhookTypeOK /\ TelegramTypeOK /\ OAuthTypeOK
=============================================================================

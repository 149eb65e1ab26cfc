----------------------------- MODULE Reliability -----------------------------
(* Mails about reliability goals.  Alertmanager posts alerts until it gets  *)
(* an answer; Studio mails each status of an alert episode and keeps a      *)
(* bounded list of receipts on the row of the goal, locked meanwhile.      *)
EXTENDS Naturals, Sequences, FiniteSets, SequencesExt, StudioValues

CONSTANTS
    Episodes,           \* an alert name and its start time
    Hooks,              \* webhook calls under way at one time
    MaxReceipts,        \* episodes whose receipts are kept
    MaxHooks            \* bound on the webhook calls

ASSUME ReliabilityAssumption == {MaxReceipts, MaxHooks} \subseteq Nat /\ Nothing \notin Hooks

VARIABLES
    goal,           \* "none", "there" or "removed": ids are never used again
    scope,          \* the goal's service is there, enabled and unmoved
    receipts,       \* <<episode, statuses>>, oldest episode first
    mailOn,         \* the shared mail delivery is enabled
    hook,           \* hook[h]: the webhook call
    rowLock,        \* the call whose transaction holds the row
    alertMails,     \* <<episode, status>> of the mails, in order
    answered,       \* alerts Alertmanager was told are delivered
    unsure,         \* episodes whose receipt was lost or given up
    hooks

reliabilityVars == <<goal, scope, receipts, mailOn, hook, rowLock, alertMails, answered, unsure, hooks>>

AlertStatuses == {"firing", "resolved"}
NoHook == [pc |-> "idle", alerts |-> <<>>, done |-> {}, mailOn |-> FALSE, sent |-> FALSE]

ReliabilityInit ==
    /\ goal = "none" /\ scope = TRUE /\ receipts = <<>> /\ mailOn \in BOOLEAN
    /\ hook = [h \in Hooks |-> NoHook] /\ rowLock = Nothing
    /\ alertMails = <<>> /\ answered = {} /\ unsure = {} /\ hooks = 0

HookTo(h, rec) == hook' = [hook EXCEPT ![h] = rec]

(* create_goal and delete_goal; the row may have to be waited for.         *)
CreateGoal ==
    /\ goal = "none" /\ scope /\ goal' = "there"
    /\ UNCHANGED <<scope, receipts, mailOn, hook, rowLock, alertMails, answered, unsure, hooks>>
RemoveGoal ==
    /\ goal = "there" /\ rowLock = Nothing /\ goal' = "removed"
    /\ UNCHANGED <<scope, receipts, mailOn, hook, rowLock, alertMails, answered, unsure, hooks>>

(* The registry moves or disables the service, or an operator switches the *)
(* mails; the service's row is locked like the goal's.                     *)
ScopeChanges ==
    /\ rowLock = Nothing /\ scope' = ~scope
    /\ UNCHANGED <<goal, receipts, mailOn, hook, rowLock, alertMails, answered, unsure, hooks>>
MailSwitched ==
    /\ mailOn' = ~mailOn
    /\ UNCHANGED <<goal, scope, receipts, hook, rowLock, alertMails, answered, unsure, hooks>>

-----------------------------------------------------------------------------
(* receive_alerts: the alerts of one call are delivered one by one.        *)
ReceiveAlerts(h, alerts) ==
    /\ goal # "none" /\ hook[h] = NoHook /\ hooks < MaxHooks /\ hooks' = hooks + 1
    /\ HookTo(h, [NoHook EXCEPT !.pc = "settings", !.alerts = alerts])
    /\ UNCHANGED <<goal, scope, receipts, mailOn, rowLock, alertMails, answered, unsure>>

(* _deliver reads the settings before its transaction.                     *)
ReadSettings(h) ==
    /\ hook[h].pc = "settings"
    /\ HookTo(h, [hook[h] EXCEPT !.pc = "lock", !.mailOn = mailOn])
    /\ UNCHANGED <<goal, scope, receipts, mailOn, rowLock, alertMails, answered, unsure, hooks>>

ReceiptOf(e) == UNION {receipts[i][2] : i \in {j \in DOMAIN receipts : receipts[j][1] = e}}
Duplicate(alert) == alert[2] \in ReceiptOf(alert[1]) \/ "resolved" \in ReceiptOf(alert[1])

(* A call that raises answers with an error: Alertmanager sends it again.  *)
Fails(h) == HookTo(h, NoHook)
(* The next alert of the call, or the answer.                              *)
Delivered(h) ==
    LET me == hook[h]
        done == me.done \cup {Head(me.alerts)}
    IN  IF Tail(me.alerts) = <<>>
        THEN HookTo(h, NoHook) /\ answered' = answered \cup done
        ELSE /\ HookTo(h, [NoHook EXCEPT !.pc = "settings", !.alerts = Tail(me.alerts), !.done = done])
             /\ UNCHANGED answered

(* Mail delivery is disabled: 503.                                         *)
Disabled(h) == Fails(h) /\ UNCHANGED answered

(* The row is locked: unknown goal, changed scope, a duplicate, no mail.   *)
LockRow(h) ==
    LET me == hook[h]
    IN  /\ me.pc = "lock" /\ rowLock = Nothing
        /\ \/ (goal # "there" \/ ~scope) /\ Fails(h) /\ UNCHANGED <<answered, rowLock>>
           \/ /\ goal = "there" /\ scope /\ Duplicate(Head(me.alerts))
              /\ Delivered(h) /\ UNCHANGED rowLock
           \/ /\ goal = "there" /\ scope /\ ~Duplicate(Head(me.alerts)) /\ ~me.mailOn
              /\ Disabled(h) /\ UNCHANGED rowLock
           \/ /\ goal = "there" /\ scope /\ ~Duplicate(Head(me.alerts)) /\ me.mailOn
              /\ rowLock' = h /\ HookTo(h, [me EXCEPT !.pc = "send"]) /\ UNCHANGED answered
        /\ UNCHANGED <<goal, scope, receipts, mailOn, alertMails, unsure, hooks>>

(* The mail is taken, refused, or taken with the answer lost.              *)
SendAlert(h, taken, known) ==
    LET me == hook[h]
        alert == Head(me.alerts)
    IN  /\ me.pc = "send" /\ (known => taken)
        /\ alertMails' = IF taken THEN Append(alertMails, alert) ELSE alertMails
        /\ unsure' = IF taken /\ ~known THEN unsure \cup {alert[1]} ELSE unsure
        /\ HookTo(h, [me EXCEPT !.pc = "commit", !.sent = known])
        /\ UNCHANGED <<goal, scope, receipts, mailOn, rowLock, answered, hooks>>

(* Seeded fault: an episode's receipts are replaced by the latest.         *)
MutantReceipt(alert) ==
    SelectSeq(receipts, LAMBDA r : r[1] # alert[1]) \o <<<<alert[1], {alert[2]} \ {"resolved"}>>>>
(* The receipt joins those of its episode, which keeps its place.          *)
Receipt(alert) ==
    IF \E i \in DOMAIN receipts : receipts[i][1] = alert[1]
    THEN [i \in DOMAIN receipts |-> IF receipts[i][1] = alert[1] THEN <<alert[1], receipts[i][2] \cup {alert[2]}>>
                                    ELSE receipts[i]]
    ELSE Append(receipts, <<alert[1], {alert[2]}>>)
Kept(seq) == SubSeq(seq, IF Len(seq) > MaxReceipts THEN Len(seq) - MaxReceipts + 1 ELSE 1, Len(seq))
EpisodesOf(seq) == {seq[i][1] : i \in DOMAIN seq}

(* The transaction commits; a failed mail leaves no receipt and raises.    *)
CommitReceipt(h) ==
    LET me == hook[h]
        next == Receipt(Head(me.alerts))
    IN  /\ me.pc = "commit" /\ rowLock' = Nothing
        /\ IF me.sent THEN /\ receipts' = Kept(next)
                           /\ unsure' = unsure \cup (EpisodesOf(next) \ EpisodesOf(Kept(next)))
                           /\ Delivered(h)
           ELSE Fails(h) /\ UNCHANGED <<receipts, unsure, answered>>
        /\ UNCHANGED <<goal, scope, mailOn, alertMails, hooks>>

(* The process stops or the commit fails: the transaction is rolled back.  *)
HookBreaks(h) ==
    /\ hook[h] # NoHook /\ Fails(h)
    /\ rowLock' = IF rowLock = h THEN Nothing ELSE rowLock
    /\ unsure' = IF hook[h].sent THEN unsure \cup {Head(hook[h].alerts)[1]} ELSE unsure
    /\ UNCHANGED <<goal, scope, receipts, mailOn, alertMails, answered, hooks>>

Alerts == Episodes \X AlertStatuses
ReliabilityNext ==
    \/ CreateGoal \/ RemoveGoal \/ ScopeChanges \/ MailSwitched
    \/ \E h \in Hooks :
        \/ \E a \in Alerts : ReceiveAlerts(h, <<a>>) \/ \E b \in Alerts \ {a} : ReceiveAlerts(h, <<a, b>>)
        \/ ReadSettings(h) \/ LockRow(h) \/ CommitReceipt(h) \/ HookBreaks(h)
        \/ \E taken, known \in BOOLEAN : SendAlert(h, taken, known)

ReliabilitySpec == ReliabilityInit /\ [][ReliabilityNext]_reliabilityVars

-----------------------------------------------------------------------------
(* A status of an episode is mailed once, and nothing after its            *)
(* resolution, whatever calls repeat, overlap or fail half-way, as long as *)
(* the receipts of the episode were stored and are still kept.             *)
AlertMailedOnce ==
    \A i, j \in DOMAIN alertMails :
        i < j /\ alertMails[i][1] = alertMails[j][1] /\ alertMails[i][1] \notin unsure =>
            alertMails[i][2] = "firing" /\ alertMails[j][2] = "resolved"

(* Alertmanager is told that an alert was delivered only when its mail, or *)
(* that of its episode's resolution, has gone.                             *)
AnsweredIsMailed ==
    \A a \in answered : a \in Range(alertMails) \/ <<a[1], "resolved">> \in Range(alertMails)

(* Both: each state of an episode is mailed once, and answered after that. *)
AlertsSound == AlertMailedOnce /\ AnsweredIsMailed
=============================================================================

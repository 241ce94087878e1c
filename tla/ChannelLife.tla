---------------------------- MODULE ChannelLife ----------------------------
(***************************************************************************)
(* What the core promises of the life of a channel, whoever changes its    *)
(* state and in whatever order: a call moves between its working states    *)
(* only along the transition table, is hung up once, and then runs its     *)
(* hangup handlers, its reporting handlers (the CDR) and its destruction   *)
(* once each and in this order.                                            *)
(***************************************************************************)
EXTENDS ChannelStates

VARIABLES state,    \* channel->state
          hangups,  \* runs of the hangup handlers
          reports,  \* runs of the reporting handlers
          gone      \* the memory of the session is freed

lifeVars == <<state, hangups, reports, gone>>

LifeInit == state = CS_NEW /\ hangups = 0 /\ reports = 0 /\ gone = FALSE

\* The call moves on.
Move ==
    /\ ~Down(state)
    /\ state' \in Working /\ ValidChange(state, state')
    /\ UNCHANGED <<hangups, reports, gone>>

\* The call ends; with CF_EARLY_HANGUP the handlers run at once.
End ==
    /\ ~Down(state)
    /\ state' = CS_HANGUP
    /\ hangups' \in {hangups, 1}
    /\ UNCHANGED <<reports, gone>>

RunHangupHandlers ==
    /\ state = CS_HANGUP /\ hangups = 0
    /\ hangups' = 1
    /\ UNCHANGED <<state, reports, gone>>

BeginReporting ==
    /\ state = CS_HANGUP /\ hangups = 1
    /\ state' = CS_REPORTING
    /\ UNCHANGED <<hangups, reports, gone>>

RunReportingHandlers ==
    /\ state = CS_REPORTING /\ reports = 0
    /\ reports' = 1
    /\ UNCHANGED <<state, hangups, gone>>

Destroy ==
    /\ state = CS_REPORTING /\ reports = 1
    /\ state' = CS_DESTROY
    /\ UNCHANGED <<hangups, reports, gone>>

FreeMemory ==
    /\ state = CS_DESTROY /\ ~gone
    /\ gone' = TRUE
    /\ UNCHANGED <<state, hangups, reports>>

LifeNext == \/ Move \/ End \/ RunHangupHandlers \/ BeginReporting
            \/ RunReportingHandlers \/ Destroy \/ FreeMemory

LifeSpec == LifeInit /\ [][LifeNext]_lifeVars

=============================================================================

--------------------------- MODULE ChannelStates ---------------------------
(***************************************************************************)
(* The channel states of FreeSWITCH, their order, and which change of      *)
(* state switch_channel_perform_set_state accepts.  The code compares      *)
(* states with < and >=, so they are numbers here as they are there.       *)
(***************************************************************************)
EXTENDS Naturals

CS_NEW == 0
CS_INIT == 1
CS_ROUTING == 2
CS_SOFT_EXECUTE == 3
CS_EXECUTE == 4
CS_EXCHANGE_MEDIA == 5
CS_PARK == 6
CS_CONSUME_MEDIA == 7
CS_HIBERNATE == 8
CS_RESET == 9
CS_HANGUP == 10
CS_REPORTING == 11
CS_DESTROY == 12
CS_NONE == 13

ChannelState == CS_NEW .. CS_DESTROY

\* The states of a call in progress.  CS_INIT is the odd one out: only a new,
\* a reset or a hibernating channel may enter it.
Working == CS_INIT .. CS_RESET
Redirect == Working \ {CS_INIT}

\* switch_channel_up / switch_channel_down.
Down(s) == s >= CS_HANGUP

\* The early returns of set_state: nothing to change, or the channel is down
\* and the caller asks for an earlier state.
Refused(s, t) == \/ s = t
                 \/ Down(s) /\ t < s

\* Mutant of ValidChange: the row of CS_INIT lacks CS_PARK.
ValidChangeNoPark(s, t) ==
    \/ s \in {CS_NEW, CS_RESET}
    \/ s \in Working \ {CS_RESET} /\ t \in Redirect \ {s} /\ ~(s = CS_INIT /\ t = CS_PARK)
    \/ s = CS_HIBERNATE /\ t = CS_INIT
    \/ s = CS_HANGUP /\ t \in {CS_REPORTING, CS_DESTROY}
    \/ s = CS_REPORTING /\ t = CS_DESTROY

\* The transition table of set_state.
ValidChange(s, t) ==
    \/ s \in {CS_NEW, CS_RESET}
    \/ s \in Working \ {CS_RESET} /\ t \in Redirect \ {s}
    \/ s = CS_HIBERNATE /\ t = CS_INIT
    \/ s = CS_HANGUP /\ t \in {CS_REPORTING, CS_DESTROY}
    \/ s = CS_REPORTING /\ t = CS_DESTROY

\* What the standard handler of a state may change the state to, apart from
\* hanging up: INIT hands over to the dialplan (or to recovery), ROUTING finds
\* an extension or consumes media, EXECUTE parks for a blind transfer.
StandardTargets(s) ==
    {t \in Redirect : \/ s = CS_INIT /\ t \in {CS_ROUTING, CS_EXECUTE, CS_RESET}
                      \/ s = CS_ROUTING /\ t \in {CS_EXECUTE, CS_CONSUME_MEDIA}
                      \/ s = CS_EXECUTE /\ t = CS_PARK}

\* The states whose standard handler may hang up the call.
StandardHangup == {CS_ROUTING, CS_EXECUTE}

=============================================================================

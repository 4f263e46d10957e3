------------------------------- MODULE WebSso -------------------------------
(***************************************************************************)
(* Signing in with the identity provider (App.tsx, the account menu of      *)
(* TopBar.tsx, sso.py): the page asks whether a provider is configured,     *)
(* goes to it, comes back with a code in its address and sends the code to  *)
(* the server.                                                              *)
(*                                                                          *)
(* The effect that sends the code runs again whenever the board falls back  *)
(* to its demo tickets or recovers, and the answer to a provider question   *)
(* changes: its earlier run is cancelled, and what it was told is dropped.  *)
(* The server has no /identity/context, so the page never learns who signed *)
(* in and never offers to sign out.                                         *)
(***************************************************************************)
EXTENDS Naturals, FiniteSets, WebBase

CONSTANTS
    Runs,       \* bound: runs of the effect in a visit
    MaxFlips    \* bound: times the board falls back or recovers

ASSUME FlipsAssumption == MaxFlips \in Nat

VARIABLES
    demoBoard,  \* usingMockData
    questions,  \* getOidcProvider calls under way
    configured, \* oidcConfigured
    code,       \* the code in the address: none, fresh, or spent at the provider
    run,        \* the runs of the effect
    login,      \* the call that asks for the provider's address
    ssoBusy,    \* ssoBusy
    ssoError,   \* ssoError: what failed, if anything did
    session,    \* the server's cookie is held
    flips,      \* times demoBoard changed
    dropped     \* history: a run was cancelled after its code had gone out

ssoVars == <<demoBoard, questions, configured, code, run, login, ssoBusy, ssoError,
             session, flips, dropped>>

\* "reading": the code was taken, the identity is asked for.
RunStates == {"none", "sent", "taken", "refused", "reading", "over", "cancelled"}

SsoTypeOK ==
    /\ demoBoard \in BOOLEAN /\ configured \in BOOLEAN
    /\ ssoBusy \in BOOLEAN /\ session \in BOOLEAN
    /\ ssoError \in {"none", "callback", "login"}
    /\ questions \in 0..(MaxFlips + 1)
    /\ code \in {"none", "fresh", "spent"}
    /\ run \in [Runs -> RunStates]
    /\ login \in {"none", "sent", "answered", "failed"}
    /\ flips \in 0..MaxFlips
    /\ dropped \in {"no", "sent", "reading"}

\* A visit starts with a code in the address or without.
Visit(withCode) ==
    /\ demoBoard = FALSE /\ questions = 1 /\ configured = FALSE
    /\ code = (IF withCode THEN "fresh" ELSE "none")
    /\ run = [r \in Runs |-> "none"]
    /\ login = "none" /\ ssoBusy = FALSE /\ ssoError = "none"
    /\ flips = 0 /\ dropped = "no"

SsoInit == \E withCode \in BOOLEAN: Visit(withCode) /\ session = FALSE

-----------------------------------------------------------------------------
(* The effect that sends the code.                                          *)

Live == {"sent", "taken", "refused", "reading"}
Ahead(state) == CASE state \in {"sent", "taken", "refused"} -> "sent"
                  [] state = "reading" -> "reading"
                  [] OTHER -> "no"

\* Only a call the server still works on is to be seen again.
RunsDropped(runs) ==
    [r \in Runs |-> IF runs[r] = "sent" THEN "cancelled"
                    ELSE IF runs[r] \in Live THEN "over" ELSE runs[r]]

\* One of its dependencies changed: the run before is cancelled and, where it
\* is due, another begins.
Rerun ==
    LET due == configured' /\ ~demoBoard' /\ code # "none"
        unused == {r \in Runs: run[r] = "none"}
    IN  /\ dropped' = IF \E r \in Runs: run[r] \in Live
                      THEN Ahead(run[CHOOSE r \in Runs: run[r] \in Live]) ELSE dropped
        /\ IF due
           THEN \E r \in unused:
                    /\ run' = [RunsDropped(run) EXCEPT ![r] = "sent"]
                    /\ ssoBusy' = TRUE /\ ssoError' = "none"
           ELSE run' = RunsDropped(run) /\ UNCHANGED <<ssoBusy, ssoError>>

\* loadTickets failed, or succeeded after that.
BoardFlips ==
    /\ flips < MaxFlips
    /\ flips' = flips + 1
    /\ demoBoard' = ~demoBoard
    /\ configured' = (configured /\ demoBoard)
    /\ questions' = IF demoBoard THEN questions + 1 ELSE questions
    /\ Rerun
    /\ UNCHANGED <<code, login, session>>

\* A question is answered, also one that was asked before the board fell back.
ProviderKnown ==
    /\ questions > 0
    /\ questions' = questions - 1
    /\ configured' \in BOOLEAN
    /\ UNCHANGED <<demoBoard, code, login, session, flips>>
    /\ IF configured' # configured THEN Rerun ELSE UNCHANGED <<run, dropped, ssoBusy, ssoError>>

\* complete_login: the provider takes a code once; the cookie comes with the
\* answer, whether the page still listens or not.
TakeCode(r) ==
    /\ run[r] \in {"sent", "cancelled"}
    /\ \/ /\ code = "fresh"
          /\ code' = "spent"
          /\ session' = TRUE
          /\ run' = [run EXCEPT ![r] = IF @ = "sent" THEN "taken" ELSE "over"]
       \/ /\ run' = [run EXCEPT ![r] = IF @ = "sent" THEN "refused" ELSE "over"]
          /\ UNCHANGED <<code, session>>
    /\ UNCHANGED <<demoBoard, questions, configured, login, ssoBusy, ssoError, flips, dropped>>

\* The code goes out of the address, and the page asks who it is now.
CodeTaken(r) ==
    /\ run[r] = "taken"
    /\ run' = [run EXCEPT ![r] = "reading"]
    /\ code' = "none"
    /\ UNCHANGED <<demoBoard, questions, configured, login, ssoBusy, ssoError, session, flips, dropped>>

RunOver(r) ==
    /\ run[r] \in {"reading", "refused"}
    /\ run' = [run EXCEPT ![r] = "over"]
    /\ ssoBusy' = FALSE
    /\ ssoError' = IF run[r] = "refused" THEN "callback" ELSE ssoError
    /\ UNCHANGED <<demoBoard, questions, configured, code, login, session, flips, dropped>>

-----------------------------------------------------------------------------
(* The account menu.                                                        *)

\* handleSsoLogin; one such call at a time is modelled.
PressSignIn ==
    /\ configured /\ ~ssoBusy /\ login = "none"
    /\ login' = "sent"
    /\ ssoBusy' = TRUE /\ ssoError' = "none"
    /\ UNCHANGED <<demoBoard, questions, configured, code, run, session, flips, dropped>>

ServeLogin ==
    /\ login = "sent"
    /\ login' \in {"answered", "failed"}
    /\ UNCHANGED <<demoBoard, questions, configured, code, run, ssoBusy, ssoError, session, flips, dropped>>

LoginFailed ==
    /\ login = "failed"
    /\ login' = "none"
    /\ ssoBusy' = FALSE /\ ssoError' = "login"
    /\ UNCHANGED <<demoBoard, questions, configured, code, run, session, flips, dropped>>

\* The page is left for the provider, which sends the browser back with a code,
\* or without one.
ComesBack ==
    /\ login = "answered"
    /\ \E withCode \in BOOLEAN:
          /\ code' = IF withCode THEN "fresh" ELSE "none"
          /\ demoBoard' = FALSE /\ questions' = 1 /\ configured' = FALSE
          /\ run' = [r \in Runs |-> "none"]
          /\ login' = "none" /\ ssoBusy' = FALSE /\ ssoError' = "none"
          /\ flips' = 0 /\ dropped' = "no"
    /\ UNCHANGED session

SsoNext ==
    \/ BoardFlips \/ ProviderKnown
    \/ \E r \in Runs: TakeCode(r) \/ CodeTaken(r) \/ RunOver(r)
    \/ PressSignIn \/ ServeLogin \/ LoginFailed \/ ComesBack

SsoSpec == SsoInit /\ [][SsoNext]_ssoVars

-----------------------------------------------------------------------------
(* A sign-in that is said to have failed did fail: the error of a callback  *)
(* is not shown over a session the code in the address opened, however the  *)
(* effect is run again, unless a run was cancelled with its code already    *)
(* gone (the effect of App.tsx): then the code goes out a second time.      *)
ErrorIsTrue ==
    ssoError = "callback" /\ dropped = "no" => code # "spent"

(* The buttons of the account menu wait for a call that is under way, or    *)
(* are not shown, unless the run that held them was cancelled while it read *)
(* the identity, for then nobody ends ssoBusy, or the board has fallen back *)
(* to its demo tickets, and the run that was cancelled by that is started   *)
(* again only when the board recovers.                                      *)
SsoBusyIsAsked ==
    ssoBusy => \/ ~configured \/ demoBoard \/ dropped = "reading"
               \/ login # "none" \/ \E r \in Runs: run[r] \in Live
=============================================================================

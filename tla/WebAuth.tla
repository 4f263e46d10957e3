------------------------------ MODULE WebAuth ------------------------------
(***************************************************************************)
(* How the web board answers a server that asks for credentials: the       *)
(* request wrappers of api/client.ts, the token store and the prompt of    *)
(* api/authToken.ts, and the dialog of AuthPrompt.tsx.                     *)
(*                                                                         *)
(* Calls run concurrently.  Each is one fetch, answered later; a fetch     *)
(* carries the token that was in the store when it was sent.  The dialog   *)
(* is mounted before the first call is made, so the prompt of promptForAuth *)
(* goes straight to it; the promise that would let a second call share the *)
(* first one's answer is dropped in the same turn, before any other        *)
(* response can be seen, and is not part of the state.                     *)
(***************************************************************************)
EXTENDS Naturals, WebBase

CONSTANTS
    NoCall,    \* nobody waits for the dialog
    MaxModes   \* bound: times the server changes what it asks for

ASSUME NoCallAssumption == NoCall \notin Calls /\ MaxModes \in Nat

VARIABLES
    call,    \* call[c]: where the call stands
    token,   \* haao_api_token of the local storage
    flag,    \* haao_auth_required of the local storage
    dialog,  \* the state of AuthPrompt
    mode,    \* what the server asks for
    modes    \* times it changed

authVars == <<call, token, flag, dialog, mode, modes>>

Tokens == {"none", "good", "bad"}
Reasons == {"api_token_required", "login_required", "forbidden"}
Modes == {"open", "token", "login", "denied"}

\* "guarded": request and uploadRequest; "optional": requestOptional, which
\* asks nobody; "sign_in": the request the dialog itself sends.
AuthKinds == {"guarded", "optional", "sign_in"}

\* A call waits for the server, or for the user, or is over.
AuthCall ==
    [at: {"idle", "sent", "prompted", "hung"}, kind: AuthKinds, sent: Tokens,
     retried: BOOLEAN, reason: Reasons]

DialogRecord == [open: BOOLEAN, reason: Reasons, waiter: Calls \cup {NoCall},
                 loading: BOOLEAN]

Idle == [at |-> "idle", kind |-> "guarded", sent |-> "none",
         retried |-> FALSE, reason |-> "forbidden"]

Closed == [open |-> FALSE, reason |-> "forbidden", waiter |-> NoCall,
           loading |-> FALSE]

AuthTypeOK ==
    /\ call \in [Calls -> AuthCall]
    /\ token \in Tokens
    /\ flag \in Reasons \cup {"none"}
    /\ dialog \in DialogRecord
    /\ mode \in Modes
    /\ modes \in 0..MaxModes

\* A page that just loaded, over whatever an earlier visit left in the storage.
AuthInit ==
    /\ call = [c \in Calls |-> Idle]
    /\ token \in Tokens
    /\ flag \in Reasons \cup {"none"}
    /\ dialog = Closed
    /\ mode \in Modes
    /\ modes = 0

-----------------------------------------------------------------------------
(* What the server answers a fetch that carries a token.                   *)

Accepted(t) == mode = "open" \/ (mode = "token" /\ t = "good")

ReasonGiven == CASE mode = "token" -> "api_token_required"
                 [] mode = "login" -> "login_required"
                 [] OTHER -> "forbidden"

ServerChanges(m) ==
    /\ modes < MaxModes
    /\ m # mode
    /\ mode' = m
    /\ modes' = modes + 1
    /\ UNCHANGED <<call, token, flag, dialog>>

-----------------------------------------------------------------------------
(* The wrappers of client.ts.                                              *)

\* authHeaders reads the store when the fetch is made.
Fetch(c, k, again) ==
    call' = [call EXCEPT ![c] = [at |-> "sent", kind |-> k, sent |-> token',
                                 retried |-> again, reason |-> "forbidden"]]

SendCall(c, k) ==
    /\ call[c].at = "idle"
    /\ UNCHANGED token
    /\ Fetch(c, k, FALSE)
    /\ UNCHANGED <<flag, dialog, mode, modes>>

\* The call returns or throws: to the model the same, it is over.
Ends(c) == call' = [call EXCEPT ![c] = Idle]

\* The handler AuthPrompt registers: a new challenge takes the dialog over, and
\* the promise of the call it was open for is resolved by nobody.
Prompt(c, reason) ==
    /\ dialog' = [open |-> TRUE, reason |-> reason, waiter |-> c, loading |-> FALSE]
    /\ call' = [d \in Calls |->
                  IF d = c THEN [call[c] EXCEPT !.at = "prompted", !.reason = reason]
                  ELSE IF d = dialog.waiter THEN [call[d] EXCEPT !.at = "hung"]
                  ELSE call[d]]

\* A call that succeeds says the flag is out of date; requestOptional does not.
Succeeds(c) ==
    /\ call[c].at = "sent"
    /\ call[c].kind \in {"guarded", "optional"}
    /\ Accepted(call[c].sent)
    /\ Ends(c)
    /\ flag' = IF call[c].kind = "optional" THEN flag ELSE "none"
    /\ UNCHANGED <<token, dialog, mode, modes>>

\* 401 on the first try, or 403 with reason forbidden on any: the user is asked.
\* The sign-in address is public, requestOptional makes do without an answer.
Challenged(c) ==
    /\ call[c].at = "sent"
    /\ call[c].kind = "guarded"
    /\ ~Accepted(call[c].sent)
    /\ mode = "denied" \/ ~call[c].retried
    /\ flag' = ReasonGiven
    /\ Prompt(c, ReasonGiven)
    /\ UNCHANGED <<token, mode, modes>>

\* 401 on the second try, any refusal of an optional call, or an error of the
\* network or the server.  A failed sign-in re-enables the button.
Fails(c) ==
    /\ call[c].at = "sent"
    /\ Ends(c)
    /\ dialog' = IF call[c].kind = "sign_in" THEN [dialog EXCEPT !.loading = FALSE]
                 ELSE dialog
    /\ UNCHANGED <<token, flag, mode, modes>>

-----------------------------------------------------------------------------
(* The user at the dialog.                                                 *)

Prompted(reason) == dialog.open /\ dialog.reason = reason

\* Save & retry: the token is stored, and the one call that waits is sent again.
EnterToken(t) ==
    /\ Prompted("api_token_required")
    /\ token' = t
    /\ Fetch(dialog.waiter, call[dialog.waiter].kind, TRUE)
    /\ dialog' = Closed
    /\ UNCHANGED <<flag, mode, modes>>

\* Cancel, or OK on a refusal: the call fails.
Dismiss ==
    /\ dialog.open
    /\ Ends(dialog.waiter)
    /\ dialog' = Closed
    /\ UNCHANGED <<token, flag, mode, modes>>

\* Sign in: the dialog asks for the address of the sign-in page.
SignIn(c) ==
    /\ Prompted("login_required")
    /\ ~dialog.loading
    /\ call[c].at = "idle"
    /\ UNCHANGED token
    /\ Fetch(c, "sign_in", FALSE)
    /\ dialog' = [dialog EXCEPT !.loading = TRUE]
    /\ UNCHANGED <<flag, mode, modes>>

\* Leaving the page, or loading it again, ends every call.
PageLoads ==
    /\ call' = [c \in Calls |-> Idle]
    /\ dialog' = Closed

\* The address arrives and the browser follows it; the identity provider lets
\* the user back in.
SignedIn(c) ==
    /\ call[c].at = "sent"
    /\ call[c].kind = "sign_in"
    /\ PageLoads
    /\ mode' = IF mode = "login" THEN "open" ELSE mode
    /\ flag' = "none"
    /\ UNCHANGED <<token, modes>>

\* Reset / clear stored credentials.
Reset ==
    /\ dialog.open
    /\ token' = "none"
    /\ flag' = "none"
    /\ PageLoads
    /\ UNCHANGED <<mode, modes>>

-----------------------------------------------------------------------------
AuthNext ==
    \/ \E m \in Modes: ServerChanges(m)
    \/ \E c \in Calls: \/ \E k \in {"guarded", "optional"}: SendCall(c, k)
                       \/ Succeeds(c)
                       \/ Challenged(c)
                       \/ Fails(c)
                       \/ SignIn(c)
                       \/ SignedIn(c)
    \/ \E t \in {"good", "bad"}: EnterToken(t)
    \/ Dismiss
    \/ Reset

AuthSpec == AuthInit /\ [][AuthNext]_authVars

-----------------------------------------------------------------------------
(* The dialog is open exactly for the one call that waits for the user: no  *)
(* answer is given to a call that is over, and no call waits for a dialog   *)
(* that was closed (the resolver kept by AuthPrompt).                       *)
DialogHasWaiter ==
    \A c \in Calls: call[c].at = "prompted" <=> (dialog.open /\ dialog.waiter = c)

=============================================================================

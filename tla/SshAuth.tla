------------------------------- MODULE SshAuth -------------------------------
(***************************************************************************)
(* SSHClient of webssh's handler.py: how the web terminal logs in.  It     *)
(* tries the private key, then the password, and holds a dialogue          *)
(* (keyboard-interactive) for the second factor.                           *)
(*                                                                         *)
(* The server accepts chains of methods, such as a key and then a dialogue *)
(* (AuthenticationMethods of sshd).  Its dialogue has rounds, each with a  *)
(* list of prompts.  paramiko answers a password that is not allowed as a  *)
(* method with a dialogue of its own, in which the password is the answer  *)
(* to every prompt.                                                        *)
(***************************************************************************)
EXTENDS Naturals, Sequences

CONSTANTS
    Server,     \* records [chains, rounds]
    Credential  \* records [key, password, totp]

Method == {"publickey", "password", "keyboard-interactive"}
Prompt == {"password", "verification", "other"}

ASSUME ServerAssumption ==
    \A s \in Server : /\ s.chains \subseteq Seq(Method) /\ <<>> \notin s.chains
                      /\ s.rounds \in Seq(Seq(Prompt))
ASSUME CredentialAssumption ==
    Credential \subseteq [key : {"none", "good", "bad"}, password : BOOLEAN,
                          totp : {"none", "good", "bad"}]

VARIABLES
    server,     \* the server and the login of the request
    login,
    auth,       \* where connect is, or how it ended
    accepted,   \* the methods that the server has accepted
    round,      \* the round of the dialogue
    right       \* all answers in this dialogue were

session == <<server, login, auth, accepted, round, right>>

Dialogue == {"fallback", "interactive"}
Raised   == {"AuthenticationException", "BadAuthenticationType", "ValueError",
             "SSHException"}
Ended    == Raised \cup {"returned"}

\* Every variable has its type.
AuthTypeOK ==
    /\ server \in Server
    /\ login \in Credential
    /\ auth \in {"idle", "publickey", "password", "two_factor"}
            \cup Dialogue \cup Ended
    /\ accepted \in Seq(Method)
    /\ round \in Nat \ {0}
    /\ right \in BOOLEAN

AuthInit ==
    /\ server \in Server
    /\ login \in Credential
    /\ auth = "idle"
    /\ accepted = <<>>
    /\ round = 1
    /\ right = TRUE

-----------------------------------------------------------------------------
(* The server, as paramiko sees it                                           *)

\* The methods that may follow what the server has accepted: allowed_types.
Following(methods) ==
    {m \in Method : \E c \in server.chains :
        /\ Len(c) > Len(methods)
        /\ \A j \in 1..Len(methods) : c[j] = methods[j]
        /\ c[Len(methods) + 1] = m}

Authenticated == accepted \in server.chains

-----------------------------------------------------------------------------
(* SSHClient._auth                                                           *)

TwoFactorTypes == {"keyboard-interactive", "password"}

\* connect.
StartAuth ==
    /\ auth = "idle"
    /\ auth' = IF login.key = "none" THEN "password" ELSE "publickey"
    /\ UNCHANGED <<server, login, accepted, round, right>>

\* Mutant: a second factor after the key is not looked for.
AfterKeyReturns(types) == "returned"

AfterKey(types) ==
    IF types \cap TwoFactorTypes = {} THEN "returned" ELSE "two_factor"

TryPublickey ==
    /\ auth = "publickey"
    /\ IF "publickey" \in Following(accepted) /\ login.key = "good"
       THEN /\ accepted' = Append(accepted, "publickey")
            /\ auth' = IF accepted' \in server.chains THEN "returned"
                       ELSE AfterKey(Following(accepted'))
       ELSE /\ auth' = "password"
            /\ UNCHANGED accepted
    /\ UNCHANGED <<server, login, round, right>>

\* auth_password.  A wrong password says nothing of the methods that are left;
\* paramiko falls back to a dialogue only where no password is allowed.
TryPassword ==
    /\ auth = "password"
    /\ IF "password" \in Following(accepted)
       THEN IF login.password
            THEN /\ accepted' = Append(accepted, "password")
                 /\ auth' = "returned"
            ELSE /\ auth' = "AuthenticationException"
                 /\ UNCHANGED accepted
       ELSE /\ auth' = IF "keyboard-interactive" \in Following(accepted)
                       THEN "fallback" ELSE "BadAuthenticationType"
            /\ UNCHANGED accepted
    /\ UNCHANGED <<server, login, round, right>>

\* auth_interactive, of webssh and then of paramiko.
AuthInteractive ==
    /\ auth = "two_factor"
    /\ IF login.totp = "none"
       THEN auth' = "ValueError" /\ UNCHANGED <<round, right>>
       ELSE IF "keyboard-interactive" \notin Following(accepted)
       THEN auth' = "BadAuthenticationType" /\ UNCHANGED <<round, right>>
       ELSE /\ auth' = "interactive"
            /\ round' = 1
            /\ right' = TRUE
    /\ UNCHANGED <<server, login, accepted>>

Prompts == server.rounds[round]

\* The answer to a prompt: right or not.
AnswerRight(prompt) ==
    \/ prompt = "password" /\ login.password
    \/ prompt = "verification" /\ login.totp = "good" /\ auth = "interactive"

\* The handler of the dialogue does not know what to say.  It raises in the
\* thread of the transport, which ends: no second dialogue can follow.
Stuck == IF auth = "fallback"
         THEN Len(Prompts) > 1
         ELSE \E j \in DOMAIN Prompts : Prompts[j] = "other"

AnswerRound ==
    /\ auth \in Dialogue
    /\ round <= Len(server.rounds)
    /\ IF Stuck
       THEN /\ auth' = IF auth = "interactive" \/ login.totp = "none"
                       THEN "ValueError" ELSE "SSHException"
            /\ UNCHANGED <<round, right>>
       ELSE /\ right' = (right /\ \A j \in DOMAIN Prompts : AnswerRight(Prompts[j]))
            /\ round' = round + 1
            /\ UNCHANGED auth
    /\ UNCHANGED <<server, login, accepted>>

AfterWrong(dialogue) ==
    IF dialogue = "fallback" THEN "two_factor" ELSE "AuthenticationException"

\* The server says that the answers were right, once it has asked everything,
\* or that one was not, now or later.
EndDialogue ==
    /\ auth \in Dialogue
    /\ \/ /\ round > Len(server.rounds)
          /\ right
          /\ accepted' = Append(accepted, "keyboard-interactive")
          /\ auth' = "returned"
       \/ /\ ~ right
          /\ auth' = AfterWrong(auth)
          /\ UNCHANGED accepted
    /\ UNCHANGED <<server, login, round, right>>

AuthStep ==
    TryPublickey \/ TryPassword \/ AuthInteractive \/ AnswerRound \/ EndDialogue

AuthNext == StartAuth \/ AuthStep

AuthSpec == AuthInit /\ [][AuthNext]_session

-----------------------------------------------------------------------------
(* Properties *)

Chain(c) == c \in server.chains
KeyStarts == login.key = "good" /\ "publickey" \in Following(<<>>)

\* What the user can tell the dialogue of this server: all of it, or with the
\* password alone.
CanTell(prompts) ==
    \A r \in DOMAIN server.rounds : \A j \in DOMAIN server.rounds[r] :
        \/ server.rounds[r][j] = "password" /\ login.password
        \/ /\ server.rounds[r][j] = "verification" /\ "verification" \in prompts
           /\ login.totp = "good"

OneByOne == \A r \in DOMAIN server.rounds : Len(server.rounds[r]) <= 1

\* A login with a key; with a key and a code; with a password; with a password
\* and a code that the server asks for one by one (webssh/README.md:17-20).
CanLogIn ==
    \/ KeyStarts /\ Chain(<<"publickey">>)
    \/ /\ KeyStarts
       /\ Chain(<<"publickey", "keyboard-interactive">>)
       /\ login.totp # "none" /\ CanTell({"verification"})
    \/ ~ KeyStarts /\ Chain(<<"password">>) /\ login.password
    \/ /\ ~ KeyStarts
       /\ Chain(<<"keyboard-interactive">>) /\ "password" \notin Following(<<>>)
       /\ OneByOne
       /\ \/ CanTell({})
          \/ login.totp # "none" /\ CanTell({"verification"})

\* Who has what the server asks for is logged in: neither a key that the server
\* refuses, nor the dialogue in which paramiko tries the password on every
\* prompt, nor a method that counts only in part keeps the right one from being
\* tried.
GoodCredentialsLogIn ==
    auth \in Ended /\ CanLogIn => auth = "returned" /\ Authenticated

===============================================================================

---------------------------- MODULE AuthAccounts ----------------------------
(***************************************************************************)
(* Accounts of auth-service/main.py, for one email address: registration   *)
(* with an organization, one-time codes sent by mail, verification, resent *)
(* codes, login, and the API keys of the organization.                     *)
(*                                                                         *)
(* Handlers run on pool threads, each with a database session of its own:  *)
(* what a handler read of the row may have changed when it commits, and a  *)
(* commit writes only the columns the handler assigned.  Codes are         *)
(* numbered as they are generated.                                         *)
(*                                                                         *)
(* External: the mail server, which delivers or raises; the settings of a  *)
(* deployment, which may have no mail server; time, which makes a code     *)
(* expire; and whoever enters a code, who may enter any.                   *)
(***************************************************************************)
EXTENDS Integers, FiniteSets

CONSTANTS
  Requests,  \* requests under way
  Settings,  \* what deployments may have: a mail server, or none in development or production
  MaxCodes,  \* bound on the codes generated
  MaxKeys    \* bound on the API keys created

\* Assumed of the constants by MCServices and by the theorems.
NumbersAssumption == {MaxCodes, MaxKeys} \subseteq Nat
SettingsAssumption == Settings \subseteq {"smtp", "development", "production"}

VARIABLES
  user,    \* the row of the address
  orgs,    \* organizations committed for it
  keys,    \* API keys: the created ones and the active ones
  req,     \* what each request does
  codes,   \* codes generated so far
  mail,    \* codes mailed, codes answered as dev_otp, and codes that went nowhere
  signed   \* history: codes the row has held, codes that verified it, and logins

vars == <<user, orgs, keys, req, codes, mail, signed>>

Codes == 1 .. MaxCodes
NoCode == 0

User == [exists : BOOLEAN, active : BOOLEAN, verified : BOOLEAN, code : {NoCode} \cup Codes, expired : BOOLEAN]

\* code: generated by the request, entered by its user, or read from the row.
Request == [at : {"idle", "insert", "accept", "replace", "reread", "mail"}, code : {NoCode} \cup Codes]

TypeOK ==
  /\ user \in User
  /\ orgs \in Nat
  /\ keys.created \in 0 .. MaxKeys /\ keys.active \subseteq 1 .. keys.created
  /\ req \in [Requests -> Request]
  /\ codes \in 0 .. MaxCodes
  /\ mail \in [sent : SUBSET Codes, answered : SUBSET Codes, lost : SUBSET Codes]
  /\ signed \in [held : SUBSET Codes, codes : SUBSET Codes, login : BOOLEAN]

Idle == [at |-> "idle", code |-> NoCode]
NoUser == [exists |-> FALSE, active |-> FALSE, verified |-> FALSE, code |-> NoCode, expired |-> FALSE]

Init ==
  /\ user = NoUser
  /\ orgs = 0
  /\ keys = [created |-> 0, active |-> {}]
  /\ req = [r \in Requests |-> Idle]
  /\ codes = 0
  /\ mail = [sent |-> {}, answered |-> {}, lost |-> {}]
  /\ signed = [held |-> {}, codes |-> {}, login |-> FALSE]

Goto(r, at, code) == req' = [req EXCEPT ![r] = [at |-> at, code |-> code]]

NewCode == codes < MaxCodes /\ codes' = codes + 1

-----------------------------------------------------------------------------
(***************************************************************************)
(* register.                                                               *)
(***************************************************************************)

\* The address is looked up; 409 when it is known.
Register(r) ==
  /\ req[r].at = "idle" /\ ~user.exists
  /\ NewCode
  /\ Goto(r, "insert", codes')
  /\ UNCHANGED <<user, orgs, keys, mail, signed>>

\* Mutant: the organization is committed before the user.
OrgFirst == orgs + 1

\* Flushed, not committed: a failed commit takes it back.
OrgWithUser == IF user.exists THEN orgs ELSE orgs + 1

\* The commit raises when another request has inserted the address meanwhile.
Insert(r) ==
  /\ req[r].at = "insert"
  /\ orgs' = OrgWithUser
  /\ IF user.exists THEN UNCHANGED <<user, signed>> /\ Goto(r, "idle", NoCode)
     ELSE /\ user' = [NoUser EXCEPT !.exists = TRUE, !.code = req[r].code]
          /\ signed' = [signed EXCEPT !.held = @ \cup {req[r].code}]
          /\ Goto(r, "mail", req[r].code)
  /\ UNCHANGED <<keys, codes, mail>>

\* _send_otp_email, after the commit, and what the answer makes of it: the mail
\* is sent, or raises; without a mail server the code is answered as dev_otp in
\* development, and goes nowhere in production.
Deliver(setting, c) ==
  \/ setting = "smtp" /\ mail' = [mail EXCEPT !.sent = @ \cup c]
  \/ setting = "development" /\ mail' = [mail EXCEPT !.answered = @ \cup c]
  \/ setting \in {"smtp", "production"} /\ mail' = [mail EXCEPT !.lost = @ \cup c]

SendMail(r) ==
  /\ req[r].at = "mail"
  /\ \E setting \in Settings : Deliver(setting, {req[r].code} \ {NoCode})
  /\ Goto(r, "idle", NoCode)
  /\ UNCHANGED <<user, orgs, keys, codes, signed>>

-----------------------------------------------------------------------------
(***************************************************************************)
(* verify_otp, resend_otp and login.                                       *)
(***************************************************************************)

Good(c) == user.exists /\ ~user.verified /\ user.code = c /\ ~user.expired

\* Whoever enters the code of the row, however it came to be known.
Verify(r, c) ==
  /\ req[r].at = "idle"
  /\ Good(c)
  /\ Goto(r, "accept", c)
  /\ UNCHANGED <<user, orgs, keys, codes, mail, signed>>

Accepted == [user EXCEPT !.verified = TRUE, !.active = TRUE, !.code = NoCode, !.expired = FALSE]

\* The commit, whatever the row says by now; tokens are answered.
Accept(r) ==
  /\ req[r].at = "accept"
  /\ user' = Accepted
  /\ signed' = [signed EXCEPT !.codes = @ \cup {req[r].code}]
  /\ Goto(r, "idle", NoCode)
  /\ UNCHANGED <<orgs, keys, codes, mail>>

Resend(r) ==
  /\ req[r].at = "idle"
  /\ user.exists /\ ~user.verified
  /\ NewCode
  /\ Goto(r, "replace", codes')
  /\ UNCHANGED <<user, orgs, keys, mail, signed>>

WithCode(c) == [user EXCEPT !.code = c, !.expired = FALSE]

Replace(r) ==
  /\ req[r].at = "replace"
  /\ user' = WithCode(req[r].code)
  /\ signed' = [signed EXCEPT !.held = @ \cup {req[r].code}]
  /\ Goto(r, "reread", NoCode)
  /\ UNCHANGED <<orgs, keys, codes, mail>>

\* Mutant: the row is not read again, and there is no code to mail.
RowForgotten == NoCode

\* The commit has expired what was read of the row: the code that is mailed is
\* the one it has by now, another request's, or none.
RowCode == user.code

Reread(r) ==
  /\ req[r].at = "reread"
  /\ Goto(r, "mail", RowCode)
  /\ UNCHANGED <<user, orgs, keys, codes, mail, signed>>

Expire ==
  /\ user.code # NoCode /\ ~user.expired
  /\ user' = [user EXCEPT !.expired = TRUE]
  /\ UNCHANGED <<orgs, keys, req, codes, mail, signed>>

Login ==
  /\ user.active /\ user.verified
  /\ signed' = [signed EXCEPT !.login = TRUE]
  /\ UNCHANGED <<user, orgs, keys, req, codes, mail>>

-----------------------------------------------------------------------------
(***************************************************************************)
(* API keys: created and revoked with a token of the organization.         *)
(***************************************************************************)

HasToken == signed.login \/ signed.codes # {}

CreateKey ==
  /\ HasToken /\ keys.created < MaxKeys
  /\ keys' = [created |-> keys.created + 1, active |-> keys.active \cup {keys.created + 1}]
  /\ UNCHANGED <<user, orgs, req, codes, mail, signed>>

RevokeKey(k) ==
  /\ HasToken /\ k \in 1 .. keys.created
  /\ keys' = [keys EXCEPT !.active = @ \ {k}]
  /\ UNCHANGED <<user, orgs, req, codes, mail, signed>>

Handle(r) == Insert(r) \/ SendMail(r) \/ Accept(r) \/ Replace(r) \/ Reread(r)

Next ==
  \/ \E r \in Requests : Register(r) \/ Resend(r) \/ Handle(r)
  \/ \E r \in Requests, c \in Codes : Verify(r, c)
  \/ Expire \/ Login
  \/ CreateKey \/ \E k \in 1 .. MaxKeys : RevokeKey(k)

Spec == Init /\ [][Next]_vars

-----------------------------------------------------------------------------
(***************************************************************************)
(* Properties.                                                             *)
(***************************************************************************)

Quiet == \A r \in Requests : req[r].at = "idle"

\* An address gets one account and one organization, whatever the overlap of
\* registrations; the account is active exactly when a code was accepted, and
\* only a code its row has held, never that of a registration or a resend whose
\* commit failed or is still to come; only an active account has API keys.
AccountIsWhole ==
  /\ orgs = IF user.exists THEN 1 ELSE 0
  /\ user.active <=> user.verified
  /\ user.verified <=> signed.codes # {}
  /\ signed.codes \subseteq signed.held
  /\ keys.created > 0 => user.active

\* No account is left with a code that nobody was to be told: between requests
\* an account that is not verified has a code, and that very code was mailed or
\* answered unless its own delivery failed, whichever of several resent codes
\* is the last and whatever became of the others.
CodeCanArrive ==
  Quiet /\ user.exists /\ ~user.verified =>
    /\ user.code # NoCode
    /\ user.code \in mail.sent \cup mail.answered \cup mail.lost

=============================================================================

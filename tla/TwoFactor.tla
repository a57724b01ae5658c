------------------------------ MODULE TwoFactor ------------------------------
(***************************************************************************)
(* The second factor of one administrator: AuthService.login and the        *)
(* methods for TOTP (core/auth), the login page and the settings card of    *)
(* the web console, and the tenant's policy that administrators need it.    *)
(* Every method reads the user, some the policy, and writes later, by id,   *)
(* on what it has read; other calls run in between.  Secrets are numbered.  *)
(* A code is known by the secret it was made with, 0 for a wrong one; the   *)
(* password is right and the account active.                                *)
(***************************************************************************)
EXTENDS Naturals, FiniteSets

CONSTANTS Cards,        \* tabs with the settings card open
          FactorCalls,  \* requests that the API handles at a time
          MaxSecrets,   \* bound on the secrets generated
          NoCard

ASSUME TwoFactorAssumption == MaxSecrets \in Nat /\ NoCard \notin Cards

VARIABLES secret,    \* users.two_fa_secret, 0 for NULL
          enabled,   \* users.two_fa_enabled
          required,  \* the setting security.require_2fa_admin
          made,      \* how many secrets were generated
          app,       \* the secrets in the administrator's authenticator
          form,      \* the login page: the pending token it holds, the secret it shows
          card,      \* what a settings card shows: two-factor is on, the secret to scan
          fcall,     \* the calls that run
          calm       \* no two calls have overlapped

factorVars == <<secret, enabled, required, made, app, form, card, fcall, calm>>

Secrets == 1 .. MaxSecrets
Password == [token |-> "none", data |-> 0]   \* the login page asks for the password
NoFactorCall == [op |-> "none", step |-> "idle", card |-> NoCard, code |-> 0,
                 secret |-> 0, enabled |-> FALSE, alone |-> TRUE]
FactorCallType ==
  [op : {"none", "login", "verify", "enrollSetup", "enroll", "setup", "enable", "disable"},
   step : {"idle", "policy", "ensure", "fresh", "write", "issue", "answer", "refuse"},
   card : Cards \cup {NoCard}, code : 0 .. MaxSecrets,
   secret : 0 .. MaxSecrets, enabled : BOOLEAN, alone : BOOLEAN]

TwoFactorTypeOK ==
  /\ secret \in 0 .. MaxSecrets /\ enabled \in BOOLEAN /\ required \in BOOLEAN
  /\ made \in 0 .. MaxSecrets
  /\ app \in SUBSET Secrets
  /\ form \in [token : {"none", "2fa", "enroll"}, data : 0 .. MaxSecrets]
  /\ card \in [Cards -> [on : BOOLEAN, data : 0 .. MaxSecrets]]
  /\ fcall \in [FactorCalls -> FactorCallType]
  /\ calm \in BOOLEAN

TwoFactorInit ==
  /\ secret = 0 /\ enabled = FALSE /\ required \in BOOLEAN
  /\ made = 0 /\ app = {}
  /\ form = Password
  /\ card = [d \in Cards |-> [on |-> FALSE, data |-> 0]]
  /\ fcall = [c \in FactorCalls |-> NoFactorCall]
  /\ calm = TRUE

-----------------------------------------------------------------------------
Running == {c \in FactorCalls : fcall[c] # NoFactorCall}

\* Calls that may still generate a secret: the bound.
Generating == {c \in Running : fcall[c].op \in {"login", "enrollSetup", "setup"}
                                 /\ fcall[c].step \in {"policy", "ensure", "fresh"}}

\* A call starts with the read of the user, which decides on its next step.
SubmitFactor(c, op, d, code, next) ==
  /\ fcall[c] = NoFactorCall
  /\ op \in {"login", "enrollSetup", "setup"} => made + Cardinality(Generating) < MaxSecrets
  /\ fcall' = [x \in FactorCalls |->
       IF x = c THEN [op |-> op, step |-> next, card |-> d, code |-> code,
                      secret |-> secret, enabled |-> enabled, alone |-> Running = {}]
       ELSE IF x \in Running THEN [fcall[x] EXCEPT !.alone = FALSE] ELSE fcall[x]]
  /\ calm' = (calm /\ Running = {})
  /\ UNCHANGED <<secret, enabled, required, made, app, form, card>>

Codes2FA == app \cup {0}
Right(code) == secret # 0 /\ code = secret

-----------------------------------------------------------------------------
(* The login page.  One call at a time: its buttons are disabled meanwhile. *)
FormBusy == \E c \in Running : fcall[c].card = NoCard

MutLogin(c) == form.token = "none" /\ ~FormBusy /\ SubmitFactor(c, "login", NoCard, 0, "policy")

\* handleSubmit: an account with two-factor gets a pending token, others depend on the policy.
Login(c) ==
  /\ form.token = "none" /\ ~FormBusy
  /\ SubmitFactor(c, "login", NoCard, 0, IF enabled /\ secret # 0 THEN "answer" ELSE "policy")

VerifyTwoFactorLogin(c) ==
  /\ form.token = "2fa" /\ ~FormBusy
  /\ \E k \in Codes2FA : SubmitFactor(c, "verify", NoCard, k, IF enabled /\ Right(k) THEN "issue" ELSE "refuse")

\* The page asks for the secret as soon as it holds the enrollment token.
SetupEnrollLogin(c) ==
  /\ form.token = "enroll" /\ form.data = 0 /\ ~FormBusy
  /\ SubmitFactor(c, "enrollSetup", NoCard, 0, IF enabled THEN "refuse" ELSE "policy")

CompleteEnrollLogin(c) ==
  /\ form.token = "enroll" /\ form.data # 0 /\ ~FormBusy
  /\ \E k \in Codes2FA : SubmitFactor(c, "enroll", NoCard, k, IF enabled \/ secret = 0 THEN "refuse" ELSE "policy")

\* "Kembali ke login", or the pending token is out of date.
BackToPassword ==
  /\ form.token # "none" /\ ~FormBusy
  /\ form' = Password
  /\ UNCHANGED <<secret, enabled, required, made, app, card, fcall, calm>>

-----------------------------------------------------------------------------
(* The settings card offers what the tab believes of the account.           *)
CardBusy(d) == \E c \in Running : fcall[c].card = d

SetupTwoFactor(c, d) ==
  /\ ~card[d].on /\ card[d].data = 0 /\ ~CardBusy(d)
  /\ SubmitFactor(c, "setup", d, 0, "fresh")

EnableTwoFactor(c, d) ==
  /\ ~card[d].on /\ card[d].data # 0 /\ ~CardBusy(d)
  /\ \E k \in Codes2FA : SubmitFactor(c, "enable", d, k, IF Right(k) THEN "write" ELSE "refuse")

DisableTwoFactor(c, d) ==
  /\ card[d].on /\ ~CardBusy(d)
  /\ \E k \in Codes2FA : SubmitFactor(c, "disable", d, k, "policy")

\* The page is loaded again, with the profile of the moment.
ReloadCard(d) ==
  /\ ~CardBusy(d)
  /\ card' = [card EXCEPT ![d] = [on |-> enabled, data |-> 0]]
  /\ UNCHANGED <<secret, enabled, required, made, app, form, fcall, calm>>

\* The policy is a setting, which another administrator may change at any time.
SetPolicy ==
  /\ required' = ~required
  /\ fcall' = [c \in FactorCalls |-> IF c \in Running THEN [fcall[c] EXCEPT !.alone = FALSE] ELSE fcall[c]]
  /\ UNCHANGED <<secret, enabled, made, app, form, card, calm>>

-----------------------------------------------------------------------------
(* The API.                                                                *)
At(c, step) == fcall[c].step = step
Go(c, step) == fcall' = [fcall EXCEPT ![c].step = step]

MutPolicy(r) ==
  CASE r.op \in {"login", "enrollSetup"} -> IF required /\ ~r.enabled THEN "ensure" ELSE IF r.op = "login" THEN "issue" ELSE "refuse"
    [] r.op = "enroll" -> IF required /\ r.code = r.secret THEN "write" ELSE "refuse"
    [] r.op = "disable" -> IF ~(r.enabled /\ r.secret # 0) \/ r.code = r.secret THEN "write" ELSE "refuse"

\* isRequire2FaAdminForUser, and what the methods make of it.
Policy(r) ==
  CASE r.op = "login" -> IF required /\ ~r.enabled THEN "ensure" ELSE "issue"
    [] r.op = "enrollSetup" -> IF required THEN "ensure" ELSE "refuse"
    [] r.op = "enroll" -> IF required /\ r.code = r.secret THEN "write" ELSE "refuse"
    [] r.op = "disable" -> IF ~required /\ (r.enabled /\ r.secret # 0 => r.code = r.secret) THEN "write" ELSE "refuse"

ReadPolicy(c) ==
  /\ At(c, "policy") /\ Go(c, Policy(fcall[c]))
  /\ UNCHANGED <<secret, enabled, required, made, app, form, card, calm>>

\* ensureEnrollmentSecret: an account that has a secret keeps it.
EnsureEnrollmentSecret(c) ==
  /\ At(c, "ensure")
  /\ fcall' = [fcall EXCEPT ![c].secret = secret, ![c].step = IF secret # 0 THEN "answer" ELSE "fresh"]
  /\ UNCHANGED <<secret, enabled, required, made, app, form, card, calm>>

FreshSecret(c) ==
  /\ At(c, "fresh")
  /\ made' = made + 1 /\ secret' = made + 1 /\ enabled' = FALSE
  /\ fcall' = [fcall EXCEPT ![c].secret = made + 1, ![c].step = "answer"]
  /\ UNCHANGED <<required, app, form, card, calm>>

\* The update of users at the end of enableTwoFactor, completeEnrollLogin and disableTwoFactor.
WriteTwoFactor(c) ==
  /\ At(c, "write")
  /\ IF fcall[c].op = "disable" THEN enabled' = FALSE /\ secret' = 0
                                ELSE enabled' = TRUE /\ UNCHANGED secret
  /\ Go(c, IF fcall[c].op = "enroll" THEN "issue" ELSE "answer")
  /\ UNCHANGED <<required, made, app, form, card, calm>>

\* issueTokens: the answer carries a session, and no challenge that goes with a secret.
IssueSession(c) ==
  /\ At(c, "issue")
  /\ fcall' = [fcall EXCEPT ![c].step = "answer", ![c].secret = 0]
  /\ UNCHANGED <<secret, enabled, required, made, app, form, card, calm>>

-----------------------------------------------------------------------------
(* The answers.                                                            *)
\* What the login page shows then: signed in, it is left for good.
FormAfter(r) ==
  CASE r.op = "login" /\ r.enabled /\ r.secret # 0 -> [token |-> "2fa", data |-> 0]
    [] r.op = "login" /\ ~r.enabled /\ r.secret # 0 -> [token |-> "enroll", data |-> 0]
    [] r.op = "enrollSetup" -> [form EXCEPT !.data = r.secret]
    [] OTHER -> Password

\* The administrator scans the secret that a page shows.
Scanned(r) == IF r.op \in {"enrollSetup", "setup"} THEN {r.secret} ELSE {}

\* The card takes the new state from the profile.
CardAfter(r) == IF r.op = "setup" THEN [on |-> FALSE, data |-> r.secret]
                ELSE [on |-> enabled, data |-> 0]

AnswerTwoFactor(c) ==
  /\ At(c, "answer")
  /\ LET r == fcall[c] IN
     /\ app' = app \cup Scanned(r)
     /\ IF r.card = NoCard THEN form' = FormAfter(r) /\ UNCHANGED card
                           ELSE card' = [card EXCEPT ![r.card] = CardAfter(r)] /\ UNCHANGED form
  /\ fcall' = [fcall EXCEPT ![c] = NoFactorCall]
  /\ UNCHANGED <<secret, enabled, required, made, calm>>

\* A refusal, or an answer that is lost.  A failed enrollment setup drops its token;
\* a card keeps showing what it showed.
RefuseTwoFactor(c) ==
  /\ At(c, "refuse") \/ At(c, "answer")
  /\ form' = IF fcall[c].op = "enrollSetup" THEN Password ELSE form
  /\ fcall' = [fcall EXCEPT ![c] = NoFactorCall]
  /\ UNCHANGED <<secret, enabled, required, made, app, card, calm>>

TwoFactorNext ==
  \/ BackToPassword \/ SetPolicy
  \/ \E d \in Cards : ReloadCard(d)
  \/ \E c \in FactorCalls :
       \/ Login(c) \/ VerifyTwoFactorLogin(c) \/ SetupEnrollLogin(c) \/ CompleteEnrollLogin(c)
       \/ \E d \in Cards : SetupTwoFactor(c, d) \/ EnableTwoFactor(c, d) \/ DisableTwoFactor(c, d)
       \/ ReadPolicy(c) \/ EnsureEnrollmentSecret(c) \/ FreshSecret(c) \/ WriteTwoFactor(c)
       \/ IssueSession(c) \/ AnswerTwoFactor(c) \/ RefuseTwoFactor(c)

TwoFactorSpec == TwoFactorInit /\ [][TwoFactorNext]_factorVars

-----------------------------------------------------------------------------
(* Properties.                                                             *)
\* As long as no two calls overlapped, an account is asked for codes only of a secret
\* that its administrator has scanned: nobody is locked out (auth.service.ts:414).
NoLockOut == calm /\ enabled => secret \in app

\* A call that met no other one issues a session only with a code of the secret in force,
\* if the account has two-factor or the policy asks for it (auth.service.ts:134).  An
\* account that is enabled without a secret, which a disable overlapping an enable
\* leaves behind, is not asked.
SessionProven ==
  \A c \in FactorCalls :
    At(c, "issue") /\ fcall[c].alone /\ (IF enabled THEN secret # 0 ELSE required)
      => enabled /\ Right(fcall[c].code)

\* Under the policy, which a call that met no other one has seen, two-factor is not turned
\* off again (two-fa-settings.tsx:105), except by a setup from a tab that does not know
\* that it is on.
PolicyKept ==
  [][required /\ enabled /\ ~enabled' =>
       \E c \in FactorCalls : fcall[c].step \in {"fresh", "write"} /\ (fcall[c].op = "setup" \/ ~fcall[c].alone)]_factorVars

\* What holds of an account with two-factor login at any time.
FactorsSound == TwoFactorTypeOK /\ NoLockOut /\ SessionProven
=============================================================================

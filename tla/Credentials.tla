---- MODULE Credentials ----
(***************************************************************************)
(* Signing in, refreshing, signing out and the three ways of resetting a   *)
(* password: with the code of the e-mail, with its link, and by an         *)
(* administrator.  The API keeps nothing of this: passwords, sessions and  *)
(* recovery credentials are Supabase Auth's, and a reset is a sequence of  *)
(* calls to it (verify the credential, update the password, close every    *)
(* session), any of which may be the last one that succeeds.               *)
(***************************************************************************)
EXTENDS TenantRequests, Naturals, FiniteSets

CONSTANTS Accounts,       \* accounts of Supabase Auth
          Enabled,        \* those of an active user with an active membership
          MaxPasswords,   \* bound: passwords an account ever has
          MaxCredentials  \* bound: recovery credentials ever generated

ASSUME PasswordsAssumption == MaxPasswords \in Nat \ {0}

VARIABLES clave,          \* current password of each account, numbered in order
          sesiones,       \* live sessions: the account and the password that opened it
          otp,            \* the recovery credential outstanding for each account, 0: none
          generados,      \* recovery credentials ever generated
          correo,         \* recovery credentials delivered by e-mail
          cerrado         \* ghost: the password the last reset answered 200 left

credentialVars == <<clave, sesiones, otp, generados, correo, cerrado, handlers>>

SessionOf(a) == [cuenta |-> a, clave |-> clave[a]]
Resetting(h, step) == handlers[h].op = "clave" /\ handlers[h].paso = step
ResetStep(h, step) == Serve(h, [handlers[h] EXCEPT !.paso = step])
Reset(a, credential, method) ==
    [op |-> "clave", paso |-> "verifica", cuenta |-> a, codigo |-> credential,
     metodo |-> method, clave |-> 0]

----------------------------------------------------------------------------
\* The session is opened by Supabase Auth before the profile is looked up: a
\* user who is not active is answered 401 or 403 and the session stays.  A refresh
\* rotates the tokens of a live session, which stays the same session here.
Login(a) ==
    /\ sesiones' = sesiones \cup {SessionOf(a)}
    /\ UNCHANGED <<clave, otp, generados, correo, cerrado, handlers>>

Logout(s) ==
    /\ s \in sesiones
    /\ sesiones' = {t \in sesiones : t.cuenta # s.cuenta}
    /\ UNCHANGED <<clave, otp, generados, correo, cerrado, handlers>>

\* generateLink replaces the outstanding credential of the account.
Generate(a) ==
    /\ generados < MaxCredentials
    /\ generados' = generados + 1
    /\ otp' = [otp EXCEPT ![a] = generados + 1]

\* The e-mail may fail; the answer is the same and the credential stays valid.
RequestPasswordReset(a) ==
    /\ Generate(a)
    /\ \/ correo' = correo \cup {[cuenta |-> a, codigo |-> generados + 1]}
       \/ UNCHANGED correo
    /\ UNCHANGED <<clave, sesiones, cerrado, handlers>>

\* With the code of a delivered e-mail.  The new password and its confirmation
\* agree, or nothing is called.
ConfirmPasswordReset(h) ==
    /\ Free(h)
    /\ \E mail \in correo : Serve(h, Reset(mail.cuenta, mail.codigo, "codigo"))
    /\ UNCHANGED <<clave, sesiones, otp, generados, correo, cerrado>>

\* With the link of the same e-mail, whose token hash is the same credential.
ConfirmPasswordResetLink(h) ==
    /\ Free(h)
    /\ \E mail \in correo : Serve(h, Reset(mail.cuenta, mail.codigo, "enlace"))
    /\ UNCHANGED <<clave, sesiones, otp, generados, correo, cerrado>>

\* Whom an administrator may reset: an active user with an active membership.
Eligible(a) == a \in Enabled

\* The target must be active and linked when it is read; the credential it
\* generates replaces one that an e-mail may have delivered.
AdminResetPassword(h) ==
    /\ Free(h)
    /\ \E a \in Accounts :
          /\ Eligible(a)
          /\ Generate(a)
          /\ Serve(h, Reset(a, generados + 1, "admin"))
    /\ UNCHANGED <<clave, sesiones, correo, cerrado>>

\* verifyOtp spends the credential and opens a recovery session.
VerifyOtp(h) ==
    LET r == handlers[h] IN
    /\ Resetting(h, "verifica")
    /\ IF otp[r.cuenta] = r.codigo
       THEN /\ otp' = [otp EXCEPT ![r.cuenta] = 0]
            /\ sesiones' = sesiones \cup {SessionOf(r.cuenta)}
            /\ ResetStep(h, "actualiza")
       ELSE Answer(h) /\ UNCHANGED <<otp, sesiones>>
    /\ UNCHANGED <<clave, generados, correo, cerrado>>

\* updateUser, which the password policy may refuse.
UpdatePassword(h) ==
    LET a == handlers[h].cuenta IN
    /\ Resetting(h, "actualiza")
    /\ \/ /\ clave[a] < MaxPasswords
          /\ clave' = [clave EXCEPT ![a] = @ + 1]
          /\ Serve(h, [handlers[h] EXCEPT !.paso = "cierra", !.clave = clave[a] + 1])
       \/ Answer(h) /\ UNCHANGED clave
    /\ UNCHANGED <<sesiones, otp, generados, correo, cerrado>>

\* A reset that takes a failed sign-out for a closed one.
CloseBestEffort(h) ==
    LET r == handlers[h] IN
    /\ Resetting(h, "cierra")
    /\ \/ sesiones' = {s \in sesiones : s.cuenta # r.cuenta}
       \/ UNCHANGED sesiones
    /\ cerrado' = [cerrado EXCEPT ![r.cuenta] = IF @ < r.clave THEN r.clave ELSE @]
    /\ Answer(h)
    /\ UNCHANGED <<clave, otp, generados, correo>>

\* signOut(global).  A failure is answered 502: the password is the new one and
\* the sessions are not closed.
CloseSessions(h) ==
    LET r == handlers[h] IN
    /\ Resetting(h, "cierra")
    /\ \/ /\ sesiones' = {s \in sesiones : s.cuenta # r.cuenta}
          /\ cerrado' = [cerrado EXCEPT ![r.cuenta] = IF @ < r.clave THEN r.clave ELSE @]
       \/ UNCHANGED <<sesiones, cerrado>>
    /\ Answer(h)
    /\ UNCHANGED <<clave, otp, generados, correo>>

CredentialNext ==
    \/ \E a \in Accounts : Login(a) \/ RequestPasswordReset(a)
    \/ \E s \in sesiones : Logout(s)
    \/ \E h \in Handlers :
          \/ ConfirmPasswordReset(h) \/ ConfirmPasswordResetLink(h) \/ AdminResetPassword(h)
          \/ VerifyOtp(h) \/ UpdatePassword(h) \/ CloseSessions(h)

----------------------------------------------------------------------------
(* A reset answered "sessionsRevoked" leaves no session that a previous     *)
(* password opened, whatever sign-ins and other resets run beside it        *)
(* (supabase-auth-provider, updatePasswordForRecoverySession).              *)
ResetClosesOldSessions ==
    \A s \in sesiones : s.clave >= cerrado[s.cuenta]
====

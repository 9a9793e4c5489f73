------------------------------ MODULE Sessions ------------------------------
(***************************************************************************)
(* One user: registration, one-time codes, the password and the sessions,  *)
(* from internal/auth/service.go.                                          *)
(*                                                                         *)
(* No call uses a transaction; requests run side by side and each          *)
(* statement that matters is a step.  Access tokens are stateless and not  *)
(* here, nor are the user's status SUSPENDED and DELETED, which nothing    *)
(* sets.  Hashing is abstracted: a code or password is right or wrong.     *)
(***************************************************************************)
EXTENDS Integers, FiniteSets

CONSTANTS
  Clients,      \* requests that may overlap
  Passwords,
  MaxAttempts,  \* OTPMaxAttempts
  MaxCodes, MaxSessions,
  MaxCuts       \* bound on calls cut off and statements that fail

ASSUME SessionsAssumption ==
  /\ IsFiniteSet(Clients) /\ Clients # {}
  /\ MaxAttempts \in Nat \ {0}
  /\ {MaxCodes, MaxSessions, MaxCuts} \subseteq Nat

VARIABLES
  account,    \* users.status, "none" before the user is there
  password,   \* whose hash the user has
  code,       \* code[n]: a row of otp_codes
  session,    \* session[s]: "none" before it is made, "live", "gone"
  request,    \* request[p]: the call in progress in p
  cuts,
  passes,     \* passes[n]: calls that code n let through
  misses,     \* misses[n]: calls refused for a wrong code
  uncounted,  \* uncounted[n]: of these, calls that ended before counting it
  replaced,   \* replaced[s]: sessions made from s by a refresh
  left,       \* left[s]: of these, refreshes that did not remove s
  proved,     \* the password given when the user became ACTIVE
  renewed     \* the password may have changed since, or while, it was given

users == <<account, password>>
history == <<passes, misses, uncounted, replaced, left, proved, renewed>>
sessionVars == <<users, code, session, request, cuts, history>>

Codes == 1..MaxCodes
SessionIds == 1..MaxSessions
Purposes == {"verify", "login", "reset"}
Still == [op |-> "idle"]

SessionsInit ==
  /\ account = "none" /\ password = "none"
  /\ code = [n \in Codes |-> [purpose |-> "none", status |-> "none", attempts |-> 0]]
  /\ session = [s \in SessionIds |-> "none"]
  /\ request = [p \in Clients |-> Still]
  /\ cuts = 0
  /\ passes = [n \in Codes |-> 0] /\ misses = [n \in Codes |-> 0]
  /\ uncounted = [n \in Codes |-> 0]
  /\ replaced = [s \in SessionIds |-> 0] /\ left = [s \in SessionIds |-> 0]
  /\ proved = "none"
  /\ renewed = FALSE

-----------------------------------------------------------------------------
Goes(p, r) == request' = [request EXCEPT ![p] = r]
Ends(p) == Goes(p, Still)
At(p, op) == request[p].op = op

Fails == cuts < MaxCuts /\ cuts' = cuts + 1

\* The next row of a sequence of rows.
NextCode(n) == code[n].status = "none" /\ \A m \in Codes : m < n => code[m].status # "none"
NextSession(s) == session[s] = "none" /\ \A t \in SessionIds : t < s => session[t] # "none"

-----------------------------------------------------------------------------
(* Codes.                                                                  *)

\* An INSERT; codes issued before stay as they are.
StoreOTP(purpose) ==
  \E n \in Codes :
    /\ NextCode(n)
    /\ code' = [code EXCEPT ![n] = [purpose |-> purpose, status |-> "valid", attempts |-> 0]]

RequestOTP(purpose) ==
  /\ account # "none"
  /\ StoreOTP(purpose)
  /\ UNCHANGED <<users, session, request, cuts, history>>

CodeExpires(n) ==
  /\ code[n].status = "valid"
  /\ code' = [code EXCEPT ![n].status = "gone"]
  /\ UNCHANGED <<users, session, request, cuts, history>>

\* GetValidOTP takes the newest, past those another call has locked with its
\* UPDATE; the lock of the SELECT itself ends with it.
GetValidOTP(p, purpose, n) ==
  /\ code[n].purpose = purpose /\ code[n].status = "valid"
  /\ \A m \in Codes : m > n /\ code[m].purpose = purpose /\ code[m].status = "valid" =>
       \E q \in Clients \ {p} : request[q].op \in {"use", "miss"} /\ request[q].code = m

\* validateOTP reads the row: enough attempts are refused, the rest compared.
AskCode(p, purpose, then) ==
  /\ At(p, "idle")
  /\ \E n \in Codes, op \in {"use", "miss"},
        pw \in IF then = "user" THEN {"none"} ELSE Passwords :
       /\ GetValidOTP(p, purpose, n)
       /\ code[n].attempts < MaxAttempts
       /\ Goes(p, [op |-> op, code |-> n, then |-> then, password |-> pw])
  /\ UNCHANGED <<users, code, session, cuts, history>>

\* Faulty variant: the failed UPDATE is only logged.
CountMissOrLog(p) ==
  LET n == request[p].code IN
  /\ At(p, "miss")
  /\ \/ code' = [code EXCEPT ![n].attempts = @ + 1] /\ UNCHANGED cuts
     \/ Fails /\ UNCHANGED code
  /\ misses' = [misses EXCEPT ![n] = @ + 1]
  /\ Ends(p)
  /\ UNCHANGED <<users, session, passes, uncounted, replaced, left, proved, renewed>>

\* attempts + 1, and the code is spent when that fails; both may.
CountMiss(p) ==
  LET n == request[p].code IN
  /\ At(p, "miss")
  /\ \/ code' = [code EXCEPT ![n].attempts = @ + 1] /\ UNCHANGED cuts
     \/ code' = [code EXCEPT ![n].status = "gone"] /\ Fails
  /\ misses' = [misses EXCEPT ![n] = @ + 1]
  /\ Ends(p)
  /\ UNCHANGED <<users, session, passes, uncounted, replaced, left, proved, renewed>>

\* MarkOTPUsed, by id.
UseCode(p) ==
  LET n == request[p].code IN
  /\ At(p, "use")
  /\ code' = [code EXCEPT ![n].status = "gone"]
  /\ passes' = [passes EXCEPT ![n] = @ + 1]
  /\ Goes(p, [request[p] EXCEPT !.op = request[p].then])
  /\ UNCHANGED <<users, session, cuts, misses, uncounted, replaced, left, proved, renewed>>

-----------------------------------------------------------------------------
(* Registration.                                                           *)

\* The email and the number are looked up: nobody, or an UNVERIFIED account
\* that may be claimed anew.
AskRegister(p) ==
  /\ At(p, "idle")
  /\ account \in {"none", "UNVERIFIED"}
  /\ \E pw \in Passwords :
       Goes(p, [op |-> IF account = "none" THEN "create" ELSE "reclaim", password |-> pw])
  /\ UNCHANGED <<users, code, session, cuts, history>>

\* Of two INSERTs the second hits the unique constraint.
CreateUser(p) ==
  /\ At(p, "create")
  /\ IF account = "none"
     THEN /\ account' = "UNVERIFIED" /\ password' = request[p].password
          /\ Goes(p, [op |-> "send"])
     ELSE Ends(p) /\ UNCHANGED users
  /\ UNCHANGED <<code, session, cuts, history>>

Checked(q) == At(q, "activate")

\* Faulty variant: the UPDATE does not repeat the status.
ReclaimAnyUser(p) ==
  /\ At(p, "reclaim")
  /\ password' = request[p].password
  /\ renewed' = (renewed \/ \E q \in Clients : Checked(q))
  /\ Goes(p, [op |-> "send"])
  /\ UNCHANGED <<account, code, session, cuts, passes, misses, uncounted, replaced, left, proved>>

\* WHERE status = 'UNVERIFIED'.
ReclaimUnverifiedUser(p) ==
  /\ At(p, "reclaim")
  /\ IF account = "UNVERIFIED"
     THEN /\ password' = request[p].password
          /\ renewed' = (renewed \/ \E q \in Clients : Checked(q))
          /\ Goes(p, [op |-> "send"])
     ELSE Ends(p) /\ UNCHANGED <<password, renewed>>
  /\ UNCHANGED <<account, code, session, cuts, passes, misses, uncounted, replaced, left, proved>>

SendCode(p) ==
  /\ At(p, "send")
  /\ StoreOTP("verify")
  /\ Ends(p)
  /\ UNCHANGED <<users, session, cuts, history>>

\* VerifyOTP past its code: an account not yet ACTIVE asks for the password.
CheckPassword(p) ==
  /\ At(p, "check")
  /\ IF account = "UNVERIFIED" /\ request[p].password # password
     THEN Ends(p)
     ELSE Goes(p, [op |-> "activate", password |-> request[p].password])
  /\ UNCHANGED <<users, code, session, cuts, history>>

\* VerifyUserEmail and VerifyUserWhatsApp do not look at the status.
Activate(p) ==
  /\ At(p, "activate")
  /\ account' = "ACTIVE"
  /\ proved' = IF account = "UNVERIFIED" THEN request[p].password ELSE proved
  /\ Ends(p)
  /\ UNCHANGED <<password, code, session, cuts, passes, misses, uncounted, replaced, left, renewed>>

-----------------------------------------------------------------------------
(* Sessions and the password.                                              *)

LoginWithEmail(p) ==
  /\ At(p, "idle")
  /\ account = "ACTIVE"
  /\ Goes(p, [op |-> "open", from |-> 0])
  /\ UNCHANGED <<users, code, session, cuts, history>>

\* LoginWithOTP past its code.
CheckUser(p) ==
  /\ At(p, "user")
  /\ IF account = "ACTIVE" THEN Goes(p, [op |-> "open", from |-> 0]) ELSE Ends(p)
  /\ UNCHANGED <<users, code, session, cuts, history>>

\* RefreshToken reads the session of its token.
RefreshToken(p, s) ==
  /\ At(p, "idle")
  /\ session[s] = "live"
  /\ Goes(p, [op |-> "open", from |-> s])
  /\ UNCHANGED <<users, code, session, cuts, history>>

\* createTokenPair.
CreateSession(p) ==
  LET from == request[p].from IN
  /\ At(p, "open")
  /\ \E s \in SessionIds : NextSession(s) /\ session' = [session EXCEPT ![s] = "live"]
  /\ IF from = 0
     THEN Ends(p) /\ UNCHANGED replaced
     ELSE /\ Goes(p, [op |-> "drop", from |-> from])
          /\ replaced' = [replaced EXCEPT ![from] = @ + 1]
  /\ UNCHANGED <<users, code, cuts, passes, misses, uncounted, left, proved, renewed>>

\* Faulty variant: the token stays the one of the session it came with.
KeepOldSession(p) ==
  /\ At(p, "drop")
  /\ Ends(p)
  /\ UNCHANGED <<users, code, session, cuts, history>>

\* DeleteSessionByID, whose failure is only logged.
DropOldSession(p) ==
  LET s == request[p].from IN
  /\ At(p, "drop")
  /\ \/ session' = [session EXCEPT ![s] = "gone"] /\ UNCHANGED <<cuts, left>>
     \/ Fails /\ left' = [left EXCEPT ![s] = @ + 1] /\ UNCHANGED session
  /\ Ends(p)
  /\ UNCHANGED <<users, code, passes, misses, uncounted, replaced, proved, renewed>>

\* Logout and RevokeSession delete one, and time ends them.
SessionEnds(s) ==
  /\ session[s] = "live"
  /\ session' = [session EXCEPT ![s] = "gone"]
  /\ UNCHANGED <<users, code, request, cuts, history>>

\* The old password has been found right.
AskChangePassword(p) ==
  /\ At(p, "idle")
  /\ account = "ACTIVE"
  /\ \E pw \in Passwords : Goes(p, [op |-> "set", password |-> pw])
  /\ UNCHANGED <<users, code, session, cuts, history>>

\* ChangePassword, and ResetPassword past its code.
SetPassword(p) ==
  /\ At(p, "set")
  /\ password' = request[p].password
  /\ renewed' = TRUE
  /\ Goes(p, [op |-> "all"])
  /\ UNCHANGED <<account, code, session, cuts, passes, misses, uncounted, replaced, left, proved>>

LogoutAll(p) ==
  /\ At(p, "idle")
  /\ account = "ACTIVE"
  /\ Goes(p, [op |-> "all"])
  /\ UNCHANGED <<users, code, session, cuts, history>>

\* Its failure is ignored everywhere.
DeleteUserSessions(p) ==
  /\ At(p, "all")
  /\ session' = [s \in SessionIds |-> IF session[s] = "live" THEN "gone" ELSE session[s]]
  /\ Ends(p)
  /\ UNCHANGED <<users, code, cuts, history>>

\* A call ends early: the process stops or a statement fails.
CutOff(p) ==
  /\ ~At(p, "idle")
  /\ Fails
  /\ Ends(p)
  /\ left' = IF At(p, "drop") THEN [left EXCEPT ![request[p].from] = @ + 1] ELSE left
  /\ IF At(p, "miss")
     THEN /\ misses' = [misses EXCEPT ![request[p].code] = @ + 1]
          /\ uncounted' = [uncounted EXCEPT ![request[p].code] = @ + 1]
     ELSE UNCHANGED <<misses, uncounted>>
  /\ UNCHANGED <<users, code, session, passes, replaced, proved, renewed>>

-----------------------------------------------------------------------------
Asks(p) ==
  \/ AskRegister(p) \/ LoginWithEmail(p) \/ AskChangePassword(p) \/ LogoutAll(p)
  \/ \E s \in SessionIds : RefreshToken(p, s)
  \/ AskCode(p, "verify", "check") \/ AskCode(p, "login", "user") \/ AskCode(p, "reset", "set")

GoesOn(p) ==
  \/ CountMiss(p) \/ UseCode(p)
  \/ CreateUser(p) \/ ReclaimUnverifiedUser(p) \/ SendCode(p) \/ CheckPassword(p) \/ Activate(p)
  \/ CheckUser(p) \/ CreateSession(p) \/ DropOldSession(p)
  \/ SetPassword(p) \/ DeleteUserSessions(p)
  \/ CutOff(p)

\* Requests of one statement, and time.
AtOnce ==
  \/ \E purpose \in Purposes : RequestOTP(purpose)
  \/ \E n \in Codes : CodeExpires(n)
  \/ \E s \in SessionIds : SessionEnds(s)

SessionsNext == AtOnce \/ \E p \in Clients : Asks(p) \/ GoesOn(p)

NewUserSpec == SessionsInit /\ [][SessionsNext]_sessionVars

-----------------------------------------------------------------------------
(* Properties.                                                             *)

\* A refresh token makes one session for each request that uses it at the same
\* time and one more for each that did not remove the session it came from,
\* and then no other, however refreshes, logouts and failures interleave.
RefreshReplaces ==
  \A s \in SessionIds : replaced[s] <= Cardinality(Clients) + left[s]

\* GetValidOTP and MarkOTPUsed share no transaction, so a code may let several
\* calls through (see CodeUsedOnce), but only such as read it before the first
\* was let through; wrong guesses stop at the limit, but for those read before
\* the last was counted and those whose count was lost.
CodeIsSpent ==
  \A n \in Codes :
    /\ passes[n] <= Cardinality(Clients)
    /\ misses[n] <= MaxAttempts + Cardinality(Clients) - 1 + uncounted[n]

\* What PROJECT_TRACKER.md:62 has as done, "OTP race condition fix (SELECT FOR
\* UPDATE SKIP LOCKED)": of two calls with the same code only one gets through.
CodeUsedOnce == \A n \in Codes : passes[n] <= 1

\* An account becomes ACTIVE with the password its owner proved, and no
\* registration takes it over afterwards; unless one came between that check
\* and the UPDATE that follows, or the password was changed since.
ActiveKeepsPassword == account = "ACTIVE" => password = proved \/ renewed

SessionsTypeOK ==
  /\ account \in {"none", "UNVERIFIED", "ACTIVE"}
  /\ password \in Passwords \cup {"none"} /\ proved \in Passwords \cup {"none"}
  /\ code \in [Codes -> [purpose : Purposes \cup {"none"}, status : {"none", "valid", "gone"},
                         attempts : 0..MaxAttempts + Cardinality(Clients)]]
  /\ session \in [SessionIds -> {"none", "live", "gone"}]

-----------------------------------------------------------------------------
(* The invariants behind RefreshReplaces, CodeIsSpent and                  *)
(* ActiveKeepsPassword.                                                    *)

Calls ==
  [op : {"idle", "send", "all"}]
  \cup [op : {"create", "reclaim", "activate", "set"}, password : Passwords \cup {"none"}]
  \cup [op : {"use", "miss", "check", "user", "set"}, code : Codes,
        then : {"check", "user", "set"}, password : Passwords \cup {"none"}]
  \cup [op : {"open"}, from : 0..MaxSessions]
  \cup [op : {"drop"}, from : SessionIds]

TallyInv ==
  /\ account \in {"none", "UNVERIFIED", "ACTIVE"}
  /\ {password, proved} \subseteq Passwords \cup {"none"}
  /\ code \in [Codes -> [purpose : Purposes \cup {"none"}, status : {"none", "valid", "gone"},
                         attempts : Nat]]
  /\ session \in [SessionIds -> {"none", "live", "gone"}]
  /\ request \in [Clients -> Calls]
  /\ {passes, misses, uncounted} \subseteq [Codes -> Nat]
  /\ {replaced, left} \subseteq [SessionIds -> Nat]

\* Calls that have read code n, or session s, and are at op with it.
Holding(op, n) == {p \in Clients : At(p, op) /\ request[p].code = n}
Coming(op, s) == {p \in Clients : At(p, op) /\ request[p].from = s}

\* A valid code has let nobody through, and has counted every wrong guess but
\* those whose call ended first.
CodeInv ==
  /\ \A n \in Codes :
       /\ code[n].status = "none" => misses[n] = 0
       /\ code[n].status # "gone" => passes[n] = 0
       /\ code[n].status = "valid" => misses[n] <= code[n].attempts + uncounted[n]
       /\ passes[n] + Cardinality(Holding("use", n)) <= Cardinality(Clients)
       /\ misses[n] + Cardinality(Holding("miss", n))
            <= MaxAttempts + Cardinality(Clients) - 1 + uncounted[n]
       /\ code[n].attempts + Cardinality(Holding("miss", n))
            <= MaxAttempts + Cardinality(Clients) - 1
  /\ \A p \in Clients :
       At(p, "use") \/ At(p, "miss") => code[request[p].code].status # "none"

\* What was made from a live session is about to remove it, or failed to.
SessionInv ==
  /\ \A s \in SessionIds :
       /\ session[s] = "none" => replaced[s] = 0
       /\ session[s] = "live" => replaced[s] <= left[s] + Cardinality(Coming("drop", s))
       /\ replaced[s] + Cardinality(Coming("open", s)) <= Cardinality(Clients) + left[s]
  /\ \A p \in Clients :
       At(p, "drop") \/ (At(p, "open") /\ request[p].from # 0)
         => session[request[p].from] # "none"

\* Whoever is about to activate the account has shown its password.
PasswordInv ==
  /\ ActiveKeepsPassword
  /\ \A p \in Clients :
       Checked(p) /\ account = "UNVERIFIED" => request[p].password = password \/ renewed
  /\ account = "none" =>
       /\ \A n \in Codes : code[n].status = "none"
       /\ \A s \in SessionIds : session[s] = "none"
       /\ \A p \in Clients : At(p, "idle") \/ At(p, "create")

SessionsInv == TallyInv /\ CodeInv /\ SessionInv /\ PasswordInv
=============================================================================

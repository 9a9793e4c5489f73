----------------------------- MODULE MCSessions -----------------------------
(***************************************************************************)
(* A user's account, what comes with it, the administrators, the login of  *)
(* one of them and the plans they offer keep to their own tables, and a    *)
(* request on its way through the API only reads them: one is explored at  *)
(* a time.                                                                 *)
(***************************************************************************)
EXTENDS Sessions, Admins, AdminLogins, Onboarding, Plans, Requests, TLC

VARIABLE subject  \* the one that is explored

\* Somebody who was registered long ago, with no code left.
OldUser ==
  /\ account = "ACTIVE" /\ password \in Passwords /\ proved = password
  /\ code = [n \in Codes |-> [purpose |-> "login", status |-> "gone", attempts |-> 0]]
  /\ session = [s \in SessionIds |-> "none"]
  /\ request = [p \in Clients |-> Still]
  /\ cuts = 0
  /\ passes = [n \in Codes |-> 1] /\ misses = [n \in Codes |-> 0]
  /\ uncounted = [n \in Codes |-> 0]
  /\ replaced = [s \in SessionIds |-> 0] /\ left = [s \in SessionIds |-> 0]
  /\ renewed = FALSE

\* An administrator who has set MFA up and will not do so again.
EnrolledAdmin ==
  /\ mfa = [secret |-> MaxSecrets, enabled |-> TRUE] /\ secrets = MaxSecrets
  /\ ticket = [t \in Tickets |-> [kind |-> "none", live |-> FALSE]]
  /\ tries = [t \in Tickets |-> 0]
  /\ doing = [r \in Requests |-> Rest]
  /\ faults = 0
  /\ uses = [t \in Tickets |-> 0] /\ kept = [t \in Tickets |-> 0]
  /\ wrong = [t \in Tickets |-> 0] /\ lost = [t \in Tickets |-> 0]
  /\ enrolled = MaxSecrets /\ mixed = FALSE

\* A public request, for when another subject is explored.
NothingAsked ==
  /\ RequestsInit /\ token = "good" /\ standing
  /\ route = CHOOSE r \in API!NewRouter : r.chain = "public"

Init ==
  /\ AdminsInit /\ OnboardingInit /\ PlansInit
  /\ \/ /\ subject \in {"account", "admins", "onboarding", "plans"}
        /\ SessionsInit /\ AdminLoginsInit /\ NothingAsked
     \/ subject = "account" /\ OldUser /\ AdminLoginsInit /\ NothingAsked
     \/ subject = "login" /\ SessionsInit /\ (AdminLoginsInit \/ EnrolledAdmin) /\ NothingAsked
     \/ subject = "request" /\ SessionsInit /\ AdminLoginsInit /\ RequestsInit

Next ==
  /\ UNCHANGED subject
  /\ \/ /\ subject = "account" /\ SessionsNext
        /\ UNCHANGED <<adminVars, adminLoginVars, onboardingVars, planVars, requestVars>>
     \/ /\ subject = "admins" /\ AdminsNext
        /\ UNCHANGED <<sessionVars, adminLoginVars, onboardingVars, planVars, requestVars>>
     \/ /\ subject = "login" /\ AdminLoginsNext
        /\ UNCHANGED <<sessionVars, adminVars, onboardingVars, planVars, requestVars>>
     \/ /\ subject = "onboarding" /\ OnboardingNext
        /\ UNCHANGED <<sessionVars, adminVars, adminLoginVars, planVars, requestVars>>
     \/ /\ subject = "plans" /\ PlansNext
        /\ UNCHANGED <<sessionVars, adminVars, adminLoginVars, onboardingVars, requestVars>>
     \/ /\ subject = "request" /\ RequestsNext
        /\ UNCHANGED <<sessionVars, adminVars, adminLoginVars, onboardingVars, planVars>>

Spec ==
  Init /\ [][Next]_<<subject, sessionVars, adminVars, adminLoginVars, onboardingVars,
                    planVars, requestVars>>

CodesDone ==
  \A n \in Codes : code[n] = [purpose |-> "login", status |-> "gone", attempts |-> 0] /\ misses[n] = 0

\* No statement touches a code and a session: codes are looked at until the
\* first session, sessions for the user registered long ago.
CodesOrSessions == CodesDone \/ \A s \in SessionIds : session[s] = "none"

\* Nor does one write mfa and a ticket: MFA is set up while tickets are not
\* used, and tickets are used once it is set up.  MFA tokens do not meet, so
\* there is one, and refresh tokens.
TicketsOrSetup ==
  \/ /\ enrolled = MaxSecrets /\ ~mixed /\ Enrolling = {}
     /\ \A t \in Tickets : t > 1 => ticket[t].kind # "mfa"
  \/ /\ \A r \in Requests : doing[r].op \notin {"verify", "wrong", "clear", "delete"}
     /\ \A t \in Tickets :
          uses[t] = 0 /\ wrong[t] = 0 /\ (t > 1 => ticket[t].kind = "none")

InScope == CodesOrSessions /\ TicketsOrSetup

MCSymmetry ==
  Permutations(Clients) \cup Permutations(Passwords) \cup Permutations(Accounts)
=============================================================================
